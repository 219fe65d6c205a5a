----------------------------- MODULE NvramErrLog -----------------------------
(***************************************************************************)
(* dump_errlog (nvram.c 921-1031): the decoder of the "ibm,err-log"        *)
(* partition, a header of 16-bit words followed by register blocks that   *)
(* the header finds by self-relative offsets.                              *)
(*                                                                         *)
(* img is the partition's data as words (the host is big-endian, so ntohs *)
(* is the identity); word k is p[k].  A pointer into the partition is a    *)
(* word index, or NULL.  read holds the word indices the header walk      *)
(* reads, dumped the byte offsets dump_raw_data reads.  Words past p_max   *)
(* read as 0 here; in the program they belong to the next partition.      *)
(***************************************************************************)
EXTENDS Integers, Sequences, NvramDump

CONSTANTS
    Images,     \* partition data: sequences of 16-bit words
    MAX_CPUS,   \* the size of cpu_regs[] less one (declared in nvram.h)
    NULL,
    WildLens    \* what an int may hold after a pointer difference with NULL

VARIABLES
    img,        \* the ibm,err-log partition
    i,          \* the index through the header words
    cpu,        \* the loop counter of both cpu loops
    num_cpus,   \* num_cpus
    sys_regs,   \* sys_regs
    cpu_regs,   \* cpu_regs[0..MAX_CPUS]
    ioctrl_data,\* ioctrl_data
    read,       \* word indices read by the header walk
    dumps,      \* the dumps: [from, to, len], from and to word indices
    dumped,     \* byte offsets read by dump_raw_data
    pc,         \* "start" | "cpus" | "sys" | "dumpcpu" | "done"
    ret         \* dump_errlog's return value

vars == <<img, i, cpu, num_cpus, sys_regs, cpu_regs, ioctrl_data, read,
          dumps, dumped, pc, ret>>

p_max == Len(img)

\* p[k]
Word(k) == IF k < p_max THEN img[k + 1] ELSE 0

\* Mutant: the offset is taken without the range check.
SelfRelUnchecked(k) == Word(k) \div 2 + 1 + k

\* offset = ntohs(p[k])/2+1; offset + k < p_max ? p + offset + k : 0
SelfRel(k) ==
    LET offset == Word(k) \div 2 + 1
    IN IF offset + k < p_max THEN offset + k ELSE NULL

\* a - b for uint16_t pointers, as an int.  With one NULL operand the
\* difference is of addresses far apart, and its int is any of WildLens;
\* NULL - NULL is 0.
PtrDiff(a, b) ==
    CASE a # NULL /\ b # NULL -> {a - b}
      [] a = NULL /\ b = NULL -> {0}
      [] OTHER                -> WildLens

\* dump_raw_data((char *)a, len): NULL is address 0, outside every partition.
DumpFrom(a, len) ==
    IF a = NULL THEN (IF len > 0 THEN {-1} ELSE {}) ELSE DumpReads(2 * a, len)

\* if (len < 4096)	/* reasonable bound */
LenCapped(len) == len < 4096

Dump(a, b, len) ==
    /\ dumps' = Append(dumps, [from |-> a, to |-> b, len |-> len])
    /\ dumped' = dumped \cup DumpFrom(a, len)

Init ==
    /\ img \in Images
    /\ i = 0
    /\ cpu = 0
    /\ num_cpus = 0
    /\ sys_regs = NULL
    /\ cpu_regs = [c \in 0..MAX_CPUS |-> NULL]
    /\ ioctrl_data = NULL
    /\ read = {}
    /\ dumps = << >>
    /\ dumped = {}
    /\ pc = "start"
    /\ ret = 0

\* if (p_max < 4) { err_msg(...); return -1; }
TooShort ==
    /\ pc = "start"
    /\ p_max < 4
    /\ pc' = "done"
    /\ ret' = -1
    /\ UNCHANGED <<img, i, cpu, num_cpus, sys_regs, cpu_regs, ioctrl_data,
                   read, dumps, dumped>>

\* Words 0 to 2: the checkstop count, the system register offset and the
\* number of cpus.
Header ==
    /\ pc = "start"
    /\ p_max >= 4
    /\ read' = {0, 1, 2}
    /\ i' = 2
    /\ sys_regs' = SelfRel(1)
    /\ num_cpus' = Word(2)
    /\ cpu' = 0
    /\ pc' = "cpus"
    /\ UNCHANGED <<img, cpu_regs, ioctrl_data, dumps, dumped, ret>>

\* for (cpu = 0; cpu < num_cpus; cpu++) { i++; if (cpu < MAX_CPUS) ... }
CpuOffset ==
    /\ pc = "cpus"
    /\ cpu < num_cpus
    /\ i' = i + 1
    /\ IF cpu < MAX_CPUS
       THEN /\ cpu_regs' = [cpu_regs EXCEPT ![cpu] = SelfRel(i + 1)]
            /\ read' = read \cup {i + 1}
       ELSE UNCHANGED <<cpu_regs, read>>
    /\ cpu' = cpu + 1
    /\ UNCHANGED <<img, num_cpus, sys_regs, ioctrl_data, dumps, dumped, pc, ret>>

\* The clamp of num_cpus, then the memory and I/O controller counts and
\* offsets (memctrl_data is computed and never used).
HeaderTail ==
    /\ pc = "cpus"
    /\ cpu >= num_cpus
    /\ num_cpus' = IF num_cpus > MAX_CPUS THEN MAX_CPUS ELSE num_cpus
    /\ read' = read \cup {i + 1, i + 2, i + 3, i + 4}
    /\ i' = i + 4
    /\ ioctrl_data' = SelfRel(i + 4)
    /\ pc' = "sys"
    /\ UNCHANGED <<img, cpu, sys_regs, cpu_regs, dumps, dumped, ret>>

\* The system registers, dumped up to the first cpu's block, then the
\* artificial "next cpu" cpu_regs[num_cpus] = ioctrl_data.
DumpSys ==
    /\ pc = "sys"
    /\ IF sys_regs # NULL /\ num_cpus > 0
       THEN \E len \in PtrDiff(cpu_regs[0], sys_regs) :
                Dump(sys_regs, cpu_regs[0], len)
       ELSE UNCHANGED <<dumps, dumped>>
    /\ cpu_regs' = [cpu_regs EXCEPT ![num_cpus] = ioctrl_data]
    /\ cpu' = 0
    /\ pc' = "dumpcpu"
    /\ UNCHANGED <<img, i, num_cpus, sys_regs, ioctrl_data, read, ret>>

\* len = cpu_regs[cpu+1] - cpu_regs[cpu]; if (len < 4096) dump_raw_data(...)
DumpCpu ==
    /\ pc = "dumpcpu"
    /\ cpu < num_cpus
    /\ \E len \in PtrDiff(cpu_regs[cpu + 1], cpu_regs[cpu]) :
           IF LenCapped(len) THEN Dump(cpu_regs[cpu], cpu_regs[cpu + 1], len)
           ELSE UNCHANGED <<dumps, dumped>>
    /\ cpu' = cpu + 1
    /\ UNCHANGED <<img, i, num_cpus, sys_regs, cpu_regs, ioctrl_data, read, pc, ret>>

DumpsDone ==
    /\ pc = "dumpcpu"
    /\ cpu >= num_cpus
    /\ pc' = "done"
    /\ ret' = 0
    /\ UNCHANGED <<img, i, cpu, num_cpus, sys_regs, cpu_regs, ioctrl_data,
                   read, dumps, dumped>>

Next == TooShort \/ Header \/ CpuOffset \/ HeaderTail \/ DumpSys \/ DumpCpu \/ DumpsDone

\* The decoder runs without pause: nothing else runs in the process.
Spec == Init /\ [][Next]_vars /\ WF_vars(Next)

-----------------------------------------------------------------------------
(* Properties                                                              *)

TypeOK ==
    /\ num_cpus \in 0..65535
    /\ \A c \in 0..MAX_CPUS : cpu_regs[c] = NULL \/ cpu_regs[c] \in 0..(p_max - 1)
    /\ pc \in {"start", "cpus", "sys", "dumpcpu", "done"}
    /\ ret \in {0, -1}

(***************************************************************************)
(* dump_errlog reads no word and dumps no byte outside the partition: the  *)
(* header walk stays within p_max, and every register block it dumps lies *)
(* between its start and the partition end (spec.md 4.5: offsets that     *)
(* resolve outside are absent, and corrupt offsets give no unbounded dump; *)
(* spec.md 9: every advance validated before any access).                  *)
(***************************************************************************)
ErrLogReadsWithinPartition ==
    /\ read \subseteq 0..(p_max - 1)
    /\ dumped \subseteq 0..(2 * p_max - 1)

(***************************************************************************)
(* Every block dump_errlog dumps is the whole block: from its start up to  *)
(* the start of the next section, in bytes (spec.md 4.5; the comments at   *)
(* 1009 and 1021 "we dump until the next cpu data").                       *)
(***************************************************************************)
DumpsWholeBlocks ==
    \A k \in DOMAIN dumps :
        dumps[k].to # NULL /\ dumps[k].from # NULL
            => dumps[k].len = 2 * (dumps[k].to - dumps[k].from)
=============================================================================
