---------------------------- MODULE NvramSession ----------------------------
(***************************************************************************)
(* main's sizing of the buffer and its read (nvram.c 1593-1607):           *)
(* get_of_nvram_size runs (OFPath), nvram.nbytes becomes the device's      *)
(* st_size, or the device tree's size when st_size is 0 (a character       *)
(* device such as /dev/nvram), nbytes bytes are malloc'ed and nvram_read   *)
(* (NvramRead) reads the device into them.                                 *)
(***************************************************************************)
EXTENDS Integers

CONSTANTS
    CHUNK, DEFAULT_NVRAM_SZ, NBytesSet, DevSizes, ShortReads, ReadErrors,
    NVRAM_DEFAULT, Machines, Aliases, IOErrors,
    StSizes            \* sbuf.st_size of the opened nvram device

VARIABLES
    alloc, nbytes, devsize, pos, p, remaining, len, written, wild, pc, ret,
    dt, aliased, alias, ofpc, ofpath, resolved, opened, ioerr, size,
    st_size,           \* sbuf.st_size
    phase              \* "size" while get_of_nvram_size runs, then "read"

R == INSTANCE NvramRead
OF == INSTANCE OFPath WITH pc <- ofpc

readvars == <<alloc, nbytes, devsize, pos, p, remaining, len, written, wild, pc, ret>>
ofvars == <<dt, aliased, alias, ofpc, ofpath, resolved, opened, ioerr, size>>
vars == <<readvars, ofvars, st_size, phase>>

\* nvram.nbytes = sbuf.st_size ? sbuf.st_size : of_nvram_size
SessionNBytes(st, of) == IF st # 0 THEN st ELSE of

\* Before the malloc the read's variables hold R!Init's values for a
\* DEFAULT_NVRAM_SZ buffer on an empty device; nothing reads them.
Init ==
    /\ OF!Init
    /\ R!Init /\ alloc = DEFAULT_NVRAM_SZ /\ devsize = 0
    /\ st_size \in StSizes
    /\ phase = "size"

SizeStep ==
    /\ phase = "size"
    /\ OF!Next
    /\ UNCHANGED <<readvars, st_size, phase>>

\* The malloc of nbytes and nvram_read's start as in R!Init.  A regular
\* file (an --nvram-file, st_size > 0) is as large as its st_size.
Alloc ==
    /\ phase = "size" /\ ofpc = "done"
    /\ LET nb == SessionNBytes(st_size, size) IN
       /\ alloc' = nb /\ nbytes' = nb /\ remaining' = nb
       /\ devsize' \in IF st_size # 0 THEN {st_size} ELSE DevSizes[nb]
    /\ pos' = 0 /\ p' = 0 /\ len' = 0 /\ written' = {} /\ wild' = FALSE
    /\ pc' = "read" /\ ret' = 0
    /\ phase' = "read"
    /\ UNCHANGED <<ofvars, st_size>>

ReadStep ==
    /\ phase = "read"
    /\ R!Next
    /\ UNCHANGED <<ofvars, st_size, phase>>

Next == SizeStep \/ Alloc \/ ReadStep

\* Each step runs without pause: nothing else runs in the process.
Spec == Init /\ [][Next]_vars /\ WF_vars(Next)

-----------------------------------------------------------------------------
(* Properties                                                              *)

TypeOK == R!TypeOK /\ OF!TypeOK /\ phase \in {"size", "read"}

(***************************************************************************)
(* get_of_nvram_size returns the device tree's size, or DEFAULT_NVRAM_SZ   *)
(* when the tree gives none or a call failed (OFPath).                     *)
(***************************************************************************)
OFSizeMatchesLookup == OF!OFSizeMatchesLookup

(***************************************************************************)
(* Whatever size the device tree gave, when nvram_read returns 0 every     *)
(* byte of the nbytes the parser walks was read or zeroed (NvramRead).     *)
(***************************************************************************)
BufferInitialized == R!BufferInitialized

(***************************************************************************)
(* The session reaches the end of nvram_read: the path walk and the read   *)
(* loop both end (NvramRead, OFPath).                                      *)
(***************************************************************************)
ReadTerminates == R!ReadTerminates
=============================================================================
