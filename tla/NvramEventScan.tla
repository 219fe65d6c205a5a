---------------------------- MODULE NvramEventScan ----------------------------
(***************************************************************************)
(* dump_eventscanlog (nvram.c 1046-1163) with dump_rtas_event_entry: the   *)
(* decoder of the "ibm,es-logs" partition, a count and a table of 32-bit   *)
(* entry words whose low 16 bits are byte offsets into the partition.      *)
(*                                                                         *)
(* img.p_max is the partition's size in words and img.hdr its first words *)
(* p[0], p[1], ... (the host is big-endian, so ntohl is the identity; a   *)
(* count word is given as the int it becomes).  The log data itself is not *)
(* modelled, only which bytes are handed to the renderer or dumped.       *)
(***************************************************************************)
EXTENDS Integers, Sequences, NvramDump

CONSTANTS
    Images,         \* [p_max, hdr]
    MAX_EVENTLOGS   \* the program limit on entries (100)

VARIABLES
    img,        \* the ibm,es-logs partition
    num_logs,   \* num_logs
    loghdr,     \* loghdr[0..MAX_EVENTLOGS]
    written,    \* the indices of loghdr[] written, in range or not
    lognum,     \* lognum
    read,       \* word indices of p read
    entries,    \* [start, end] of every entry handed on, in order
    dumped,     \* byte offsets read by the renderer or dump_raw_data
    pc,         \* "start" | "hdrs" | "entries" | "done"
    ret         \* dump_eventscanlog's return value

vars == <<img, num_logs, loghdr, written, lognum, read, entries, dumped, pc, ret>>

p_max == img.p_max

\* p[k]
Word(k) == IF k < Len(img.hdr) THEN img.hdr[k + 1] ELSE 0

\* Mutant: the partition clamp leaves room for one entry too many.
PartitionLimitOver(n) == IF n > p_max THEN p_max ELSE n

\* if (num_logs > p_max-1) num_logs = p_max-1
PartitionLimit(n) == IF n > p_max - 1 THEN p_max - 1 ELSE n

\* Mutant: no program limit.
ProgramLimitNone(n) == n

\* if (num_logs > MAX_EVENTLOGS) num_logs = MAX_EVENTLOGS
ProgramLimit(n) == IF n > MAX_EVENTLOGS THEN MAX_EVENTLOGS ELSE n

\* loghdr[num_logs] = p_max * sizeof(uint32_t)
LastOffset == p_max * 4

\* start = hdr & 0xffff
Start(hdr) == hdr % 65536

\* dump_rtas_event_entry reads the len bytes at start when librtasevent is
\* there and parses them (rc 0); otherwise dump_raw_data dumps them.
EntryReads(start, len, rc) ==
    IF rc = 0 THEN (IF len > 0 THEN start..(start + len - 1) ELSE {})
    ELSE DumpReads(start, len)

Init ==
    /\ img \in Images
    /\ num_logs = 0
    /\ loghdr = [k \in 0..MAX_EVENTLOGS |-> 0]
    /\ written = {}
    /\ lognum = 0
    /\ read = {}
    /\ entries = << >>
    /\ dumped = {}
    /\ pc = "start"
    /\ ret = 0

\* if (p_max < 1) { err_msg(...); return -1; }
TooShort ==
    /\ pc = "start"
    /\ p_max < 1
    /\ pc' = "done"
    /\ ret' = -1
    /\ UNCHANGED <<img, num_logs, loghdr, written, lognum, read, entries, dumped>>

\* num_logs = ntohl(*p), then the program and partition clamps.
Count ==
    /\ pc = "start"
    /\ p_max >= 1
    /\ read' = {0}
    /\ num_logs' = PartitionLimit(ProgramLimit(Word(0)))
    /\ lognum' = 0
    /\ pc' = "hdrs"
    /\ UNCHANGED <<img, loghdr, written, entries, dumped, ret>>

\* loghdr[lognum] = ntohl(p[lognum+1])
ReadHdr ==
    /\ pc = "hdrs"
    /\ lognum < num_logs
    /\ loghdr' = [loghdr EXCEPT ![lognum] = Word(lognum + 1)]
    /\ written' = written \cup {lognum}
    /\ read' = read \cup {lognum + 1}
    /\ lognum' = lognum + 1
    /\ UNCHANGED <<img, num_logs, entries, dumped, pc, ret>>

\* The artificial entry that ends the last log, at loghdr[num_logs].  A
\* negative count (a word of 0x80000000 or more) puts it outside the array,
\* on the stack below it; the array itself is then left as it was.
HdrsDone ==
    /\ pc = "hdrs"
    /\ lognum >= num_logs
    /\ loghdr' = IF num_logs \in DOMAIN loghdr
                 THEN [loghdr EXCEPT ![num_logs] = LastOffset] ELSE loghdr
    /\ written' = written \cup {num_logs}
    /\ lognum' = 0
    /\ pc' = "entries"
    /\ UNCHANGED <<img, num_logs, read, entries, dumped, ret>>

\* One log entry: [start, end) from this entry and the next, handed to
\* librtasevent, or dumped raw when it is missing or fails to parse.
Entry ==
    /\ pc = "entries"
    /\ lognum < num_logs
    /\ LET start == Start(loghdr[lognum])
           end == Start(loghdr[lognum + 1])
       IN /\ entries' = Append(entries, [start |-> start, end |-> end])
          /\ \E rc \in {0, 1} : dumped' = dumped \cup EntryReads(start, end - start, rc)
    /\ lognum' = lognum + 1
    /\ UNCHANGED <<img, num_logs, loghdr, written, read, pc, ret>>

EntriesDone ==
    /\ pc = "entries"
    /\ lognum >= num_logs
    /\ pc' = "done"
    /\ ret' = 0
    /\ UNCHANGED <<img, num_logs, loghdr, written, lognum, read, entries, dumped>>

Next == TooShort \/ Count \/ ReadHdr \/ HdrsDone \/ Entry \/ EntriesDone

\* The decoder runs without pause: nothing else runs in the process.
Spec == Init /\ [][Next]_vars /\ WF_vars(Next)

-----------------------------------------------------------------------------
(* Properties                                                              *)

TypeOK ==
    /\ num_logs \in Int /\ num_logs <= MAX_EVENTLOGS
    /\ loghdr \in [0..MAX_EVENTLOGS -> Int]
    /\ pc \in {"start", "hdrs", "entries", "done"}
    /\ ret \in {0, -1}

(***************************************************************************)
(* The program and partition clamps keep the table walk inside the        *)
(* partition: no entry word is read at or past p_max.                      *)
(***************************************************************************)
EventScanHeaderWithinPartition ==
    read \subseteq 0..(p_max - 1)

\* Each entry handed on is read, by the renderer or the raw dump, exactly
\* over its range [start, end) (spec.md 4.6: "a raw hex/ASCII dump of the
\* same range").
EntriesReadExactly ==
    dumped = UNION {entries[k].start..(entries[k].end - 1) : k \in DOMAIN entries}

(***************************************************************************)
(* dump_eventscanlog stays within its memory: it writes loghdr[] only in   *)
(* its bounds, and hands on or dumps only bytes of the partition (spec.md  *)
(* 9: every advance validated before any access on corrupt input).         *)
(***************************************************************************)
EventScanWithinPartition ==
    /\ written \subseteq 0..MAX_EVENTLOGS
    /\ dumped \subseteq 0..(4 * p_max - 1)
=============================================================================
