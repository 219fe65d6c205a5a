-------------------------- MODULE NvramPartitions --------------------------
(***************************************************************************)
(* The partition directory of nvram.c: nvram_parse_partitions walks the    *)
(* buffer nvram_read filled, one header at a time, and nvram_find_partition *)
(* searches the table it builds, optionally resuming after an entry.       *)
(*                                                                         *)
(* Dev is the device image: headers laid end to end, each advancing by its *)
(* length field (in 16-byte blocks, the header included).  NBYTES is       *)
(* nvram->nbytes.  Bytes of the buffer past the image are zero, as         *)
(* nvram_read's memset leaves them when the device is shorter than nbytes, *)
(* so a header read there has length 0.  Whether a stored checksum matches *)
(* checksum() (NvramChecksum) is a field of the header: a mismatch only    *)
(* warns.                                                                  *)
(***************************************************************************)
EXTENDS Integers, Sequences, SequencesExt

CONSTANTS
    BLOCK,      \* NVRAM_BLOCK_SIZE
    NBYTES,     \* nvram->nbytes
    DevSet,     \* device images: sequences of [sig, len, name, csum_ok]
    NULL,       \* a NULL name or start pointer
    MaxParts    \* entries of nvram->parts (its size is declared in nvram.h)

VARIABLES
    dev,        \* the device image being parsed
    p_start,    \* offset of the header the loop reads next
    parts,      \* nvram->parts[0..nparts-1], as offsets into the buffer
    warned,     \* offsets whose checksum mismatch was reported
    pc          \* "parse" | "done"

vars == <<dev, p_start, parts, warned, pc>>

\* Offset of the k-th header of the image.
Off(d, k) == FoldLeft(LAMBDA acc, h : acc + h.len * BLOCK, 0, SubSeq(d, 1, k - 1))

ZeroHeader == [sig |-> 0, len |-> 0, name |-> NULL, csum_ok |-> TRUE]

\* (struct partition_header *)p_start: the header at offset p of the buffer.
HeaderAt(d, p) ==
    LET k == SelectInSeq([j \in DOMAIN d |-> Off(d, j)], LAMBDA o : o = p)
    IN IF k = 0 THEN ZeroHeader ELSE d[k]

\* Mutant: the loop also reads a header at nvram_end.
LoopCondInclusive(p) == p <= NBYTES

\* while (p_start < nvram_end)
LoopCond(p) == p < NBYTES

\* Mutant: entries whose checksum is wrong are skipped.
AddEntryIfValid(ps, p, h) == IF h.csum_ok THEN Append(ps, p) ELSE ps

\* nvram->parts[nvram->nparts++] = phead
AddEntry(ps, p, h) == Append(ps, p)

\* Mutant: the advance leaves out the header block.
AdvanceDataOnly(h) == h.len * BLOCK - BLOCK

\* p_start += phead->length * NVRAM_BLOCK_SIZE
Advance(h) == h.len * BLOCK

Init ==
    /\ dev \in DevSet
    /\ p_start = 0
    /\ parts = << >>
    /\ warned = {}
    /\ pc = "parse"

\* One iteration of the loop of nvram_parse_partitions.  Entries past
\* MaxParts would be written beyond the array (the code has no check); the
\* model stops adding them, which bounds the state space of a header that
\* does not advance.  No property is about that write.
ParseStep ==
    LET h == HeaderAt(dev, p_start)
    IN /\ pc = "parse"
       /\ LoopCond(p_start)
       /\ parts' = IF Len(parts) < MaxParts THEN AddEntry(parts, p_start, h)
                   ELSE parts
       /\ warned' = IF h.csum_ok THEN warned ELSE warned \cup {p_start}
       /\ p_start' = p_start + Advance(h)
       /\ UNCHANGED <<dev, pc>>

ParseDone ==
    /\ pc = "parse"
    /\ ~LoopCond(p_start)
    /\ pc' = "done"
    /\ UNCHANGED <<dev, p_start, parts, warned>>

Next == ParseStep \/ ParseDone

\* The loop runs without pause until it leaves: nothing else runs.
Spec == Init /\ [][Next]_vars /\ WF_vars(Next)

-----------------------------------------------------------------------------
(* nvram_find_partition(nvram, signature, name, start)                     *)

Matches(h, sig, name) == (sig = 0 \/ sig = h.sig) /\ (name = NULL \/ name = h.name)

\* i = 0, or one past the index of start (nparts + 1 if it is not found)
StartIndex(ps, start) ==
    IF start = NULL THEN 1
    ELSE LET k == SelectInSeq(ps, LAMBDA o : o = start)
         IN IF k = 0 THEN Len(ps) + 2 ELSE k + 1

RECURSIVE FindFrom(_, _, _, _, _)
FindFrom(d, ps, sig, name, i) ==
    IF i > Len(ps) THEN NULL
    ELSE IF Matches(HeaderAt(d, ps[i]), sig, name) THEN ps[i]
    ELSE FindFrom(d, ps, sig, name, i + 1)

\* Mutant: the search resumes at start itself.
FindFromStart(d, ps, sig, name, start) ==
    FindFrom(d, ps, sig, name, IF start = NULL THEN 1
                               ELSE SelectInSeq(ps, LAMBDA o : o = start))

nvram_find_partition(d, ps, sig, name, start) ==
    FindFrom(d, ps, sig, name, StartIndex(ps, start))

-----------------------------------------------------------------------------
(* Properties                                                              *)

TypeOK ==
    /\ p_start \in Nat
    /\ Len(parts) <= MaxParts
    /\ \A k \in DOMAIN parts : parts[k] \in 0..(NBYTES - 1)
    /\ warned \subseteq 0..(NBYTES - 1)
    /\ pc \in {"parse", "done"}

(***************************************************************************)
(* nvram_parse_partitions recovers every partition of the image, in offset *)
(* order, whether or not its checksum is right, and warns about exactly    *)
(* the partitions whose checksum is wrong.                                 *)
(***************************************************************************)
ParseRecoversLayout ==
    pc = "done" =>
        /\ parts = [k \in DOMAIN dev |-> Off(dev, k)]
        /\ warned = {Off(dev, k) : k \in {j \in DOMAIN dev : ~dev[j].csum_ok}}

\* The entries nvram_find_partition returns when each search resumes after
\* the previous hit (at most fuel of them).
RECURSIVE Chain(_, _, _, _, _, _)
Chain(d, ps, sig, name, start, fuel) ==
    LET r == nvram_find_partition(d, ps, sig, name, start)
    IN IF r = NULL \/ fuel = 0 THEN << >>
       ELSE << r >> \o Chain(d, ps, sig, name, r, fuel - 1)

(***************************************************************************)
(* Resuming nvram_find_partition after each hit visits every entry that    *)
(* matches the signature (0: any) and name (NULL: any), each once, in      *)
(* table order, and then returns NULL.                                     *)
(***************************************************************************)
FindResumesInOrder ==
    pc = "done" =>
        \A sig \in {dev[k].sig : k \in DOMAIN dev} \cup {0},
           name \in {dev[k].name : k \in DOMAIN dev} \cup {NULL} :
            Chain(dev, parts, sig, name, NULL, Len(parts) + 1)
                = SelectSeq(parts, LAMBDA o : Matches(HeaderAt(dev, o), sig, name))

(***************************************************************************)
(* nvram_parse_partitions finishes on every image of headers of length 1  *)
(* or more: each pass advances past the whole partition, its header block  *)
(* included, so p_start reaches nvram_end.  (A header of length 0 is the  *)
(* HeadersValidated run's case: the code does not advance past it.)        *)
(***************************************************************************)
ParseTerminates == <>(pc = "done")

(***************************************************************************)
(* Every header nvram_parse_partitions enters in the table was validated   *)
(* (spec.md 4.2): its length is not 0, so the parse advances, and the      *)
(* partition lies within the nbytes of the buffer, so scans of its data    *)
(* stay inside nvram->data.                                                *)
(***************************************************************************)
HeadersValidated ==
    \A k \in DOMAIN parts :
        LET len == HeaderAt(dev, parts[k]).len
        IN len >= 1 /\ parts[k] + len * BLOCK <= NBYTES
=============================================================================
