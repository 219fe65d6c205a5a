---------------------------- MODULE MCNvramDecoders ----------------------------
(***************************************************************************)
(* main's diagnostic branches (nvram.c 1632-1640) in one invocation, as in *)
(* "nvram --print-vpd --print-err-log --print-event-scan": dump_vpd, then  *)
(* dump_errlog, then dump_eventscanlog, each on its partition of the one   *)
(* buffer, a non-zero return making main's ret -1.  A decoder that does   *)
(* not return keeps the later ones from running.                           *)
(*                                                                         *)
(* The VPD decoder's variables are those of MCNvramVPD; the other two      *)
(* decoders are instances with their variables renamed.                    *)
(***************************************************************************)
EXTENDS MCNvramVPD

VARIABLES
    eimg, ei, ecpu, enum_cpus, esys_regs, ecpu_regs, eioctrl_data, eread,
    edumps, edumped, epc, eret,
    simg, snum_logs, sloghdr, swritten, slognum, sread, sentries, sdumped, spc, sret,
    stage,      \* the branch of main running: "vpd" | "errlog" | "eventscan" | "exit"
    ret         \* main's ret

vpd_vars == <<img, show_all, p, vpd_endp, out, oob, pc>>
err_vars == <<eimg, ei, ecpu, enum_cpus, esys_regs, ecpu_regs, eioctrl_data,
              eread, edumps, edumped, epc, eret>>
es_vars == <<simg, snum_logs, sloghdr, swritten, slognum, sread, sentries, sdumped, spc, sret>>
dec_vars == <<vpd_vars, err_vars, es_vars, stage, ret>>

\* Self-relative offset word at slot k for a block at word t.
Rel(k, t) == 2 * (t - k - 1)

\* Zero words filling a partition up to n words.
Fill(ws, n) == ws \o [k \in 1..(n - Len(ws)) |-> 0]

\* ibm,err-log partitions, with MAX_CPUS 2.  Words 0, 1, 2, then one offset
\* per cpu, then the memory and I/O controller counts and offsets.  A
\* partition of length blocks has p_max = 8 * (length - 1) words (945-947,
\* the 16-byte header counted in length), so every image is a multiple of 8.
MCErrImages ==
    { \* two cpus; system registers at 9, cpus at 11 and 13, I/O at 15
      Fill(<< 512, Rel(1, 9), 2, Rel(3, 11), Rel(4, 13), 1, Rel(6, 14), 1, Rel(8, 15),
              43690, 43690, 4369, 4369, 8738, 8738, 13107, 13107 >>, 24),
      \* no cpus: the system registers are not dumped
      << 0, Rel(1, 7), 0, 0, Rel(4, 7), 0, Rel(6, 7), 43690 >>,
      \* one cpu in one block: the header ends at word 7, the I/O offset
      \* there points past the end
      << 0, Rel(1, 6), 1, Rel(3, 7), 0, 0, 0, 0 >>,
      \* three cpus, one over MAX_CPUS: its offset word is skipped
      Fill(<< 256, Rel(1, 10), 3, Rel(3, 11), Rel(4, 12), 9999, 0, Rel(7, 13), 1, Rel(9, 13),
              43690, 4369, 8738, 13107 >>, 16),
      \* system register and I/O offsets past the partition: absent
      Fill(<< 0, 200, 1, Rel(3, 8), 0, 0, 1, 200, 4369, 4369 >>, 16),
      \* two cpus in one block: the header needs words 0 to 8
      << 0, 0, 2, 0, 0, 0, 0, 0 >>,
      \* a partition of one block, its header only
      << >> }

\* ibm,es-logs partitions, with MAX_EVENTLOGS 4: p_max words, of which the
\* first are the count and the entry words (flags and type in the high half).
\* p_max = 4 * (length - 1) (1118-1120), a multiple of 4.  A count of 7 in
\* 8 words needs the program clamp, one of 5 in 4 words the partition clamp.
MCEsImages ==
    { [p_max |-> 8, hdr |-> << 2, 12, 20 >>],
      [p_max |-> 8, hdr |-> << 7, 8, 3 * 65536 + 10, 12, 14 >>],
      [p_max |-> 4, hdr |-> << 5, 8, 10 >>],
      [p_max |-> 4, hdr |-> << 2, 8, 100 >>],
      [p_max |-> 4, hdr |-> << -1 >>],
      [p_max |-> 4, hdr |-> << 0 >>],
      [p_max |-> 0, hdr |-> << >>] }

ErrLog == INSTANCE NvramErrLog
    WITH Images <- MCErrImages, MAX_CPUS <- 2, NULL <- NONE,
         WildLens <- {-4096, 100, 4096},
         img <- eimg, i <- ei, cpu <- ecpu, num_cpus <- enum_cpus,
         sys_regs <- esys_regs, cpu_regs <- ecpu_regs, ioctrl_data <- eioctrl_data,
         read <- eread, dumps <- edumps, dumped <- edumped, pc <- epc, ret <- eret

EventScan == INSTANCE NvramEventScan
    WITH Images <- MCEsImages, MAX_EVENTLOGS <- 4,
         img <- simg, num_logs <- snum_logs, loghdr <- sloghdr, written <- swritten, lognum <- slognum,
         read <- sread, entries <- sentries, dumped <- sdumped, pc <- spc, ret <- sret

DecInit ==
    /\ Init /\ ErrLog!Init /\ EventScan!Init
    /\ stage = "vpd"
    /\ ret = 0

\* if (print_vpd) if (dump_vpd(...) != 0) ret = -1; and so on.
RunVPD == stage = "vpd" /\ Next /\ UNCHANGED <<err_vars, es_vars, stage, ret>>

VPDReturned ==
    /\ stage = "vpd" /\ pc = "done"
    /\ stage' = "errlog"
    /\ UNCHANGED <<vpd_vars, err_vars, es_vars, ret>>

RunErrLog == stage = "errlog" /\ ErrLog!Next /\ UNCHANGED <<vpd_vars, es_vars, stage, ret>>

ErrLogReturned ==
    /\ stage = "errlog" /\ epc = "done"
    /\ stage' = "eventscan"
    /\ ret' = IF eret # 0 THEN -1 ELSE ret
    /\ UNCHANGED <<vpd_vars, err_vars, es_vars>>

RunEventScan == stage = "eventscan" /\ EventScan!Next /\ UNCHANGED <<vpd_vars, err_vars, stage, ret>>

EventScanReturned ==
    /\ stage = "eventscan" /\ spc = "done"
    /\ stage' = "exit"
    /\ ret' = IF sret # 0 THEN -1 ELSE ret
    /\ UNCHANGED <<vpd_vars, err_vars, es_vars>>

DecNext ==
    \/ RunVPD \/ VPDReturned
    \/ RunErrLog \/ ErrLogReturned
    \/ RunEventScan \/ EventScanReturned

\* main runs the branches one after the other, without pause.
DecSpec == DecInit /\ [][DecNext]_dec_vars /\ WF_dec_vars(DecNext)

-----------------------------------------------------------------------------
(* Properties of the error-log and event-scan decoders, under main.       *)

ErrLogTypeOK == ErrLog!TypeOK

EventScanTypeOK == EventScan!TypeOK

(***************************************************************************)
(* dump_eventscanlog's clamps keep its table walk inside ibm,es-logs.      *)
(***************************************************************************)
EventScanHeaderWithinPartition == EventScan!EventScanHeaderWithinPartition

(***************************************************************************)
(* On a well-formed VPD partition every requested branch runs and main     *)
(* exits: no decoder keeps the ones after it from running.                 *)
(***************************************************************************)
MainExits == (img.fields # NONE) => <>(stage = "exit")

(***************************************************************************)
(* The three decoders touch only their partitions and buffers, whatever    *)
(* the partitions hold: dump_vpd reads no byte at or past p_end,          *)
(* dump_errlog's header walk and register dumps stay inside ibm,err-log,   *)
(* dump_eventscanlog writes loghdr[] in bounds and reads only bytes of     *)
(* ibm,es-logs (spec.md 9: every advance validated before any access).     *)
(***************************************************************************)
DecodersStayInPartitions ==
    /\ VPDWithinPartition
    /\ ErrLog!ErrLogReadsWithinPartition
    /\ EventScan!EventScanWithinPartition

=============================================================================
