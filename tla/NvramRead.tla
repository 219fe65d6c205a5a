----------------------------- MODULE NvramRead -----------------------------
(***************************************************************************)
(* nvram_read (nvram.c 387-429): main has malloc'ed nvram.nbytes bytes and *)
(* the loop reads the device into them in chunks of 512, checking the      *)
(* remaining count only after each read.  Then, when nbytes was the        *)
(* DEFAULT_NVRAM_SZ guess, nbytes becomes the count read, and any          *)
(* remaining bytes are zeroed.                                             *)
(*                                                                         *)
(* The model tracks offsets, not contents: the offsets of the buffer the   *)
(* read()s and the memset write.  A chunk is CHUNK bytes (512 scaled down) *)
(* and sizes are in the same unit.                                         *)
(***************************************************************************)
EXTENDS Integers, FiniteSets

CONSTANTS
    CHUNK,             \* the 512 of read(nvram->fd, p, 512)
    DEFAULT_NVRAM_SZ,  \* the size used when the device tree gives none
    NBytesSet,         \* nvram.nbytes as main computed it (st_size or OF size)
    DevSizes,          \* DevSizes[nb]: sizes the device may have for nbytes nb
    ShortReads,        \* TRUE if read() may return fewer bytes than asked
    ReadErrors         \* TRUE if read() may fail with -1

ASSUME CHUNK > 0 /\ DEFAULT_NVRAM_SZ \in NBytesSet

VARIABLES
    alloc,      \* size of the malloc'ed nvram.data
    nbytes,     \* nvram->nbytes
    devsize,    \* size of the device
    pos,        \* the file offset of nvram->fd
    p,          \* p - nvram->data
    remaining,  \* remaining
    len,        \* len, the last read()'s result
    written,    \* offsets of nvram->data written so far
    wild,       \* TRUE once memset was given a negative (huge) size
    pc,         \* "read" | "body" | "after" | "done" | "failed"
    ret         \* nvram_read's return value

vars == <<alloc, nbytes, devsize, pos, p, remaining, len, written, wild, pc, ret>>

MinOf(a, b) == IF a < b THEN a ELSE b

\* The results read(fd, p, CHUNK) may return at file offset pos.
ReadResults ==
    LET avail == devsize - pos
    IN (IF avail = 0 THEN {0}
        ELSE {MinOf(CHUNK, avail)} \cup (IF ShortReads THEN {1} ELSE {}))
       \cup (IF ReadErrors THEN {-1} ELSE {})

\* Mutant: the loop also goes on after read() returns 0.
ReadOkAtEof(n) == n >= 0

\* (len = read(nvram->fd, p, 512)) > 0
ReadOk(n) == n > 0

Init ==
    /\ alloc \in NBytesSet
    /\ nbytes = alloc
    /\ devsize \in DevSizes[alloc]
    /\ pos = 0
    /\ p = 0
    /\ remaining = nbytes
    /\ len = 0
    /\ written = {}
    /\ wild = FALSE
    /\ pc = "read"
    /\ ret = 0

\* The loop condition: one read() into p.
Read ==
    /\ pc = "read"
    /\ \E n \in ReadResults :
         /\ len' = n
         /\ written' = written \cup {p + q : q \in 0..(n - 1)}
         /\ pos' = pos + (IF n > 0 THEN n ELSE 0)
         /\ pc' = IF ReadOk(n) THEN "body" ELSE "after"
    /\ UNCHANGED <<alloc, nbytes, devsize, p, remaining, wild, ret>>

\* The body "if (remaining <= 0) { remaining = 0; break; }" and the
\* increment "p += len, remaining -= len".
LoopBody ==
    /\ pc = "body"
    /\ IF remaining <= 0
       THEN /\ remaining' = 0
            /\ pc' = "after"
            /\ UNCHANGED p
       ELSE /\ p' = p + len
            /\ remaining' = remaining - len
            /\ pc' = "read"
    /\ UNCHANGED <<alloc, nbytes, devsize, pos, len, written, wild, ret>>

\* if (len == -1) return -1
ReadFailed ==
    /\ pc = "after"
    /\ len = -1
    /\ pc' = "failed"
    /\ ret' = -1
    /\ UNCHANGED <<alloc, nbytes, devsize, pos, p, remaining, len, written, wild>>

\* Mutant: the fixup adds the remaining count instead of subtracting it.
FixupAdd(nb, rem) == nb + rem

\* nvram->nbytes = nvram->nbytes - remaining
Fixup(nb, rem) == nb - rem

\* Mutant: the rest of the buffer is not zeroed.
ZeroedNone(q0, rem) == {}

\* memset(p, 0, remaining)
Zeroed(q0, rem) == {q0 + q : q \in 0..(rem - 1)}

\* The DEFAULT_NVRAM_SZ fixup, then "if (remaining) memset(p, 0, remaining)":
\* memset's size_t turns a negative remaining into a huge size.
ReadFinish ==
    /\ pc = "after"
    /\ len # -1
    /\ LET isdef == nbytes = DEFAULT_NVRAM_SZ
           nb == IF isdef THEN Fixup(nbytes, remaining) ELSE nbytes
           rem == IF isdef THEN DEFAULT_NVRAM_SZ - (remaining + nb) ELSE remaining
       IN /\ nbytes' = nb
          /\ remaining' = rem
          /\ written' = written \cup Zeroed(p, rem)
          /\ wild' = (rem < 0)
    /\ pc' = "done"
    /\ ret' = 0
    /\ UNCHANGED <<alloc, devsize, pos, p, len>>

Next == Read \/ LoopBody \/ ReadFailed \/ ReadFinish

\* The loop runs without pause: nothing else runs in the process.
Spec == Init /\ [][Next]_vars /\ WF_vars(Next)

-----------------------------------------------------------------------------
(* Properties                                                              *)

TypeOK ==
    /\ alloc \in NBytesSet
    /\ nbytes \in Int
    /\ pos \in 0..devsize
    /\ remaining \in -CHUNK..alloc
    /\ len \in -1..CHUNK
    /\ pc \in {"read", "body", "after", "done", "failed"}
    /\ ret \in {0, -1}

(***************************************************************************)
(* Every byte read() or memset writes lies inside the malloc'ed buffer of  *)
(* nbytes bytes.  The loop checks remaining only after the read that may   *)
(* already have run past the end.                                          *)
(***************************************************************************)
NoBufferOverrun == written \subseteq 0..(alloc - 1) /\ ~wild

(***************************************************************************)
(* When nvram_read returns 0, the nbytes the parser will walk lie inside   *)
(* the buffer and every one of them was written (read from the device or  *)
(* zeroed), so nvram_parse_partitions reads no uninitialized byte.         *)
(***************************************************************************)
BufferInitialized ==
    pc = "done" => /\ nbytes <= alloc
                   /\ 0..(nbytes - 1) \subseteq written

(***************************************************************************)
(* nvram_read returns: a device that keeps answering read() is read to its *)
(* end or to nbytes.                                                       *)
(***************************************************************************)
ReadTerminates == <>(pc \in {"done", "failed"})
=============================================================================
