------------------------------ MODULE NvramVPD ------------------------------
(***************************************************************************)
(* dump_vpd (nvram.c 862-908) with getvalue, getsmallvalue, lookupfield    *)
(* and printVPDfield: the decoder of the "ibm,vpd" partition.              *)
(*                                                                         *)
(* The cursor p walks the partition's data bytes (index 1 is the byte      *)
(* after the header, p_end is one past the last).  Bytes past p_end read   *)
(* as 0 here; in the program they are the next partition.  One action is  *)
(* one iteration of one of the three nested loops.  A cursor that runs     *)
(* more than SLACK bytes past p_end is not followed further (the model    *)
(* stops there; in the program it reads on into the next partition).      *)
(***************************************************************************)
EXTENDS Integers, Sequences, SequencesExt

CONSTANTS
    Images,     \* [bytes, fields]: partition data, and what it encodes
                \* (NONE for bytes that encode nothing)
    Known,      \* keys descs[] names (the table is in nvram.h)
    NONE,
    SLACK       \* bytes past p_end the model follows the cursor

VARIABLES
    img,        \* the partition being decoded
    show_all,   \* print_vpd == 2
    p,          \* the cursor
    vpd_endp,   \* end of the keyword block being decoded
    out,        \* printed lines: [key, val, len]
    oob,        \* TRUE once a byte at or past p_end was read
    pc          \* "outer" | "block" | "fields" | "end" | "done"

vars == <<img, show_all, p, vpd_endp, out, oob, pc>>

TAG_ID == 130   \* 0x82, identification string descriptor
TAG_END == 121  \* 0x79, VPD end tag

\* The key of the identification line (printed as "Item Name"), no field key.
IdKey == << >>

data == img.bytes
p_end == Len(data) + 1

Byte(i) == IF i <= Len(data) THEN data[i] ELSE 0

\* The bytes i..i+n-1 the memcpy copies (clipped at the data for the model).
Copied(i, n) == SubSeq(data, i, IF i + n - 1 <= Len(data) THEN i + n - 1 ELSE Len(data))

\* Reads of i..j reach p_end or beyond.
Past(j) == j >= p_end

\* Mutant: getvalue reads the length big-endian.
GetValueLenBE(i) == 256 * Byte(i) + Byte(i + 1)

\* getvalue: len = p[0] | p[1] << 8 (little endian), value at p+2.
GetValueLen(i) == Byte(i) + 256 * Byte(i + 1)

\* Mutant: getsmallvalue reads a two-byte length as getvalue does.
GetSmallValueLenWide(i) == Byte(i) + 256 * Byte(i + 1)

\* getsmallvalue: len = p[0], value at p+1.
GetSmallValueLen(i) == Byte(i)

\* Mutant: every field is printed, known or not.
PrintedAlways(key, all) == TRUE

\* lookupfield(field) != NULL, or show_all
Printed(key, all) == key \in Known \/ all

\* Mutant: only the end tag is skipped, not the checksum byte after it.
EndTagSkipOne == 1

\* p++ past the end tag; p++ past the checksum byte
EndTagSkip == 2

\* The loop at loc is running, with the cursor within the bound followed.
At(loc) == pc = loc /\ p <= p_end + SLACK

Init ==
    /\ img \in Images
    /\ show_all \in BOOLEAN
    /\ p = 1
    /\ vpd_endp = 1
    /\ out = << >>
    /\ oob = FALSE
    /\ At("outer")

\* while (*p && p < p_end): the identification string descriptor.
OuterId ==
    LET n == GetValueLen(p + 1)
    IN /\ At("outer")
       /\ p < p_end /\ Byte(p) = TAG_ID
       /\ out' = Append(out, [key |-> IdKey, val |-> Copied(p + 3, n), len |-> n])
       /\ oob' = (oob \/ Past(p + 2 + n))
       /\ p' = p + 3 + n
       /\ pc' = "block"
       /\ UNCHANGED <<img, show_all, vpd_endp>>

\* Neither branch matches a byte other than 0x82 and 0: p does not move.
OuterUnknown ==
    /\ At("outer")
    /\ p < p_end /\ Byte(p) \notin {0, TAG_ID}
    /\ UNCHANGED vars

OuterExit ==
    /\ At("outer")
    /\ Byte(p) = 0 \/ ~(p < p_end)
    /\ oob' = (oob \/ Past(p))
    /\ pc' = "end"
    /\ UNCHANGED <<img, show_all, p, vpd_endp, out>>

\* while (*p != 0x79): p++ over the keyword tag, then a 2-byte length.
BlockStart ==
    /\ At("block")
    /\ Byte(p) # TAG_END
    /\ vpd_endp' = p + 3 + GetValueLen(p + 1)
    /\ p' = p + 3
    /\ oob' = (oob \/ Past(p + 2))
    /\ pc' = "fields"
    /\ UNCHANGED <<img, show_all, out>>

BlockEnd ==
    /\ At("block")
    /\ Byte(p) = TAG_END
    /\ p' = p + EndTagSkip
    /\ oob' = (oob \/ Past(p))
    /\ pc' = "outer"
    /\ UNCHANGED <<img, show_all, vpd_endp, out>>

\* while (p < vpd_endp) p = printVPDfield(p, show_all)
Field ==
    LET key == << Byte(p), Byte(p + 1) >>
        n == GetSmallValueLen(p + 2)
    IN /\ At("fields")
       /\ p < vpd_endp
       /\ out' = IF Printed(key, show_all)
                 THEN Append(out, [key |-> key, val |-> Copied(p + 3, n), len |-> n])
                 ELSE out
       /\ oob' = (oob \/ Past(p + 2 + n))
       /\ p' = p + 3 + n
       /\ UNCHANGED <<img, show_all, vpd_endp, pc>>

FieldsDone ==
    /\ At("fields")
    /\ ~(p < vpd_endp)
    /\ pc' = "block"
    /\ UNCHANGED <<img, show_all, p, vpd_endp, out, oob>>

\* if (*p && p < p_end) warn_msg(...); return 0
Finish ==
    /\ pc = "end"
    /\ pc' = "done"
    /\ UNCHANGED <<img, show_all, p, vpd_endp, out, oob>>

Next ==
    \/ OuterId \/ OuterUnknown \/ OuterExit
    \/ BlockStart \/ BlockEnd \/ Field \/ FieldsDone
    \/ Finish

\* The decoder runs without pause: nothing else runs in the process.
Spec == Init /\ [][Next]_vars /\ WF_vars(Next)

-----------------------------------------------------------------------------
(* Properties                                                              *)

TypeOK ==
    /\ p \in Nat /\ vpd_endp \in Nat
    /\ show_all \in BOOLEAN /\ oob \in BOOLEAN
    /\ \A k \in DOMAIN out : out[k].key # IdKey => out[k].len \in 0..255
    /\ pc \in {"outer", "block", "fields", "end", "done"}

(***************************************************************************)
(* dump_vpd reads no byte at or past p_end (spec.md 4.4: never read past   *)
(* the payload's declared end), whatever lengths the partition holds.      *)
(***************************************************************************)
VPDWithinPartition == ~oob

(***************************************************************************)
(* dump_vpd returns on every partition: an unknown descriptor byte is      *)
(* reported and ends the decode (spec.md 4.4, CorruptFormat).              *)
(***************************************************************************)
VPDTerminates == <>(pc = "done")

\* The lines a decoder of the VPD format prints for what img encodes: the
\* identification string, then every field whose key descs[] names, or
\* every field when show_all is set.
ExpectedLines ==
    SelectSeq(img.fields, LAMBDA f : f.key = IdKey \/ f.key \in Known \/ show_all)

(***************************************************************************)
(* On a well-formed partition dump_vpd prints the identification string    *)
(* and the fields of every keyword block, in order, each value whole.      *)
(***************************************************************************)
DecodesFields ==
    (pc = "done" /\ img.fields # NONE)
        => [k \in DOMAIN out |-> [key |-> out[k].key, val |-> out[k].val]]
               = ExpectedLines
=============================================================================
