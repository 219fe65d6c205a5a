--------------------------- MODULE MCNvramConfig ---------------------------
(***************************************************************************)
(* Instances of NvramConfig for TLC.                                       *)
(*                                                                         *)
(* Three partitions of two blocks (16 data bytes each): "common",          *)
(* "of-config" and a second "common" further on, so that lookups by name   *)
(* must pick the first.  Names "a" and "ab" share a prefix; values are     *)
(* runs of "x" long enough to fill a partition exactly and to overflow it. *)
(***************************************************************************)
EXTENDS NvramConfig

Nul == "nul"
Eq == "="

Rec(n, v) == n \o << Eq >> \o v

\* Records as the firmware stores them: each NUL-terminated, then the
\* empty record, zero-filled to the data length.
Encode(recs, dl) ==
    LET b == FlattenSeq([k \in DOMAIN recs |-> recs[k] \o << Nul >>]) \o << Nul >>
    IN b \o [q \in 1..(dl - Len(b)) |-> Nul]

X(k) == [q \in 1..k |-> "x"]
A == << "a" >>
AB == << "a", "b" >>
B == << "b" >>

\* Well-formed contents of 16 data bytes: two records, a nearly full and
\* an exactly full list, and an empty list.
WellFormed ==
    { Encode(<< Rec(A, X(1)), Rec(B, X(1)) >>, 16),
      Encode(<< Rec(AB, X(1)), Rec(A, X(2)) >>, 16),
      Encode(<< Rec(A, X(4)), Rec(B, X(5)) >>, 16),
      Encode(<< >>, 16) }

\* Corrupt contents: records that run to the end of the partition with no
\* terminating empty record, as a torn write or a firmware bug leaves them.
Unterminated ==
    { Rec(A, X(5)) \o << Nul >> \o Rec(B, X(5)) \o << Nul >>,
      Rec(AB, X(12)) \o << Nul >> }

MCLayout ==
    << [sig |-> 112, len |-> 2, name |-> "common"],
       [sig |-> 112, len |-> 2, name |-> "of-config"],
       [sig |-> 112, len |-> 2, name |-> "common"] >>

\* Name bytes as the scan sees them: non-NUL characters, then NUL padding.
Hashes(k) == [q \in 1..k |-> "#"] \o [q \in 1..(12 - k) |-> Nul]
MCNameBytes == [n \in {"common", "of-config"} |->
                  IF n = "common" THEN Hashes(6) ELSE Hashes(9)]
MCNameWords == [n \in {"common", "of-config"} |->
                  IF n = "common" THEN << 25455, 28013, 28526, 0, 0, 0 >>
                  ELSE << 28518, 11619, 28526, 26217, 26368, 0 >>]

\* The first "common" takes every content; the partitions after it one each.
MCInitDatas == << WellFormed,
                  { Encode(<< Rec(A, X(1)) >>, 16) },
                  { Encode(<< Rec(A, X(3)) >>, 16) } >>
MCInitDatasCorrupt == << Unterminated,
                         { Encode(<< Rec(A, X(1)) >>, 16) },
                         { Encode(<< Rec(A, X(3)) >>, 16) } >>

MCAssignments == { Rec(A, X(2)), Rec(A, X(9)), Rec(AB, X(3)), Rec(B, << >>),
                   Rec(<< "c" >>, X(1)) }
MCPNames == {"common", "of-config", "ibm,setupcfg"}
MCReadVars == { A, AB, ALL }

\* write() returning -1, nothing, the signature only, and part of the data
MCShortWrites == {-1, 0, 1, 20}
=============================================================================
