------------------------------ MODULE NvramDump ------------------------------
(***************************************************************************)
(* dump_raw_data (nvram.c 467-503), the hex and ASCII dump every decoder  *)
(* falls back to, as the set of byte offsets it reads.  The two cursors h  *)
(* and a walk the same bytes, 16 to a row, each guarded by "<= end".      *)
(***************************************************************************)
EXTENDS Integers

\* One row: up to 16 bytes from h while h <= end.
DumpRow(h, end) == {h + k : k \in 0..15} \cap h..end

\* while (h < end) { one row }: a row ends with h at its start + 16, or at
\* end + 1 when it stopped at end, so the rows start at data + 16r while
\* that is below end.
RowStarts(h, end) ==
    IF h < end THEN {h + 16 * r : r \in 0..((end - h - 1) \div 16)} ELSE {}

DumpRows(h, end) == UNION {DumpRow(r, end) : r \in RowStarts(h, end)}

\* The offsets dump_raw_data(data, data_len) reads, data at offset start.
DumpReads(start, data_len) == DumpRows(start, start + data_len)
=============================================================================
