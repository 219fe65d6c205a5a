---------------------------- MODULE NvramConfig ----------------------------
(***************************************************************************)
(* Invocations of the nvram command that update and print name=value       *)
(* config variables (nvram.c: main, update_of_config_var, print_of_config, *)
(* nvram_find_partition, nvram_find_fd_partition).                         *)
(*                                                                         *)
(* dev is the NVRAM device: its partitions in order, each a header (sig,   *)
(* len in 16-byte blocks counting the header, name, csum) and its data     *)
(* bytes.  An invocation reads the whole device into mem (nvram_read and   *)
(* nvram_parse_partitions), runs --update-config, then --print-config on   *)
(* mem, and exits.  Every scan of records walks the in-memory buffer from  *)
(* the partition's data onwards, as the C pointers do, so a scan that      *)
(* misses the terminating empty record reads the following partitions'    *)
(* header and data bytes.                                                  *)
(*                                                                         *)
(* Bytes are abstracted to NUL, EQ ('='), "#" (any other byte of a header) *)
(* and the characters of names and values.                                 *)
(***************************************************************************)
EXTENDS Integers, Sequences, SequencesExt, NvramChecksum

CONSTANTS
    BLOCK,         \* NVRAM_BLOCK_SIZE = sizeof(struct partition_header)
    NUL, EQ,       \* the bytes '\0' and '='
    NONE,          \* option not given on the command line
    ALL,           \* --print-config given without a variable
    Layout,        \* headers of the device's partitions: [sig, len, name]
    InitDatas,     \* InitDatas[i]: possible data bytes of partition i
    NameBytes,     \* NameBytes[n]: the 12 name bytes of a header
    NameWords,     \* NameWords[n]: the same bytes as six 16-bit words
    Assignments,   \* --update-config arguments (byte sequences with a '=')
    PNames,        \* -p arguments
    ReadVars,      \* --print-config=<var> arguments
    ShortWrites,   \* byte counts a write() of the partition may return short
    MaxSessions    \* bound on invocations

Parts == 1..Len(Layout)

DataLen(h) == h.len * BLOCK - BLOCK

ASSUME /\ BLOCK = 16
       /\ \A i \in Parts : Layout[i].len >= 1
       /\ \A a \in Assignments : \E q \in DOMAIN a : a[q] = EQ

VARIABLES
    dev,        \* the device
    mem,        \* nvram->data of the running invocation, as partitions
    pc,         \* "idle" | "update" | "print" | "exit": where main is
    req,        \* the invocation's options: [assign, pname, var]
    uret,       \* outcome of the last update_of_config_var
    out,        \* values printed by the last print_of_config
    image,      \* last partition image handed to write(): [csum, data]
    overrun,    \* out-of-bounds accesses seen: "partition" | "store" | "image"
    sessions    \* invocations so far

vars == <<dev, mem, pc, req, uret, out, image, overrun, sessions>>

-----------------------------------------------------------------------------
(* Headers and buffer scanning                                            *)

\* checksum(phead) of a partition record.
HdrChecksum(p) == Checksum(p.sig, p.len, NameWords[p.name])

ByteOf(v) == IF v = 0 THEN NUL ELSE "#"

\* The 16 header bytes as the record scan sees them.
HeaderBytes16(p) ==
    << ByteOf(p.sig), ByteOf(p.csum), ByteOf(p.len \div 256),
       ByteOf(p.len % 256) >> \o NameBytes[p.name]

\* nvram->data from partition i's data to the end of the buffer.
Buffer(m, i) ==
    m[i].data \o FlattenSeq([j \in 1..(Len(m) - i) |->
                                HeaderBytes16(m[i + j]) \o m[i + j].data])

\* strlen: index of the NUL ending the string at s (Len(b)+1 if none).
RECURSIVE StrEnd(_, _)
StrEnd(b, s) == IF s > Len(b) \/ b[s] = NUL THEN s ELSE StrEnd(b, s + 1)

\* The loop "while (*data) data += strlen(data) + 1": the start of every
\* record from s on, then the position of the terminating empty record.
RECURSIVE Walk(_, _)
Walk(b, s) == IF s > Len(b) \/ b[s] = NUL THEN << s >>
              ELSE << s >> \o Walk(b, StrEnd(b, s) + 1)

\* nvram_find_partition(nvram, 0, name, NULL): first partition so named.
FindPartition(m, n) == SelectInSeq(m, LAMBDA p : p.name = n)

\* nvram_find_fd_partition: the device walk by header lengths stops at
\* the first header whose name matches.
FindFdPartition(d, n) == SelectInSeq(d, LAMBDA p : p.name = n)

Zeros(n) == [q \in 1..n |-> NUL]

\* Accesses past the partition (dl bytes) or past the buffer at index q.
OverrunAt(q, dl, b) ==
    (IF q > dl THEN {"partition"} ELSE {}) \cup
    (IF q > Len(b) THEN {"store"} ELSE {})

-----------------------------------------------------------------------------
(* The invocation                                                          *)

Init ==
    /\ \E ds \in [Parts -> UNION {InitDatas[i] : i \in Parts}],
          bad \in [Parts -> BOOLEAN] :
         /\ \A i \in Parts : ds[i] \in InitDatas[i]
         /\ dev = [i \in Parts |->
                     LET h == Layout[i]
                         c == Checksum(h.sig, h.len, NameWords[h.name])
                     IN [sig |-> h.sig, len |-> h.len, name |-> h.name,
                         csum |-> IF bad[i] THEN (c + 1) % 256 ELSE c,
                         data |-> ds[i]]]
    /\ mem = << >>
    /\ pc = "idle"
    /\ req = [assign |-> NONE, pname |-> NONE, var |-> NONE]
    /\ uret = "none"
    /\ out = << >>
    /\ image = NONE
    /\ overrun = {}
    /\ sessions = 0

\* main: parse options, open, nvram_read and nvram_parse_partitions.
\* config_pname defaults to "common", so pname is never NULL.
Invoke ==
    /\ pc = "idle"
    /\ sessions < MaxSessions
    /\ \E a \in Assignments \cup {NONE}, pn \in PNames, v \in ReadVars \cup {NONE} :
         req' = [assign |-> a, pname |-> pn, var |-> v]
    /\ mem' = dev
    /\ pc' = "update"
    /\ out' = << >>
    /\ sessions' = sessions + 1
    /\ UNCHANGED <<dev, uret, image, overrun>>

NoUpdateRequested ==
    /\ pc = "update"
    /\ req.assign = NONE
    /\ pc' = "print"
    /\ UNCHANGED <<dev, mem, req, uret, out, image, overrun, sessions>>

-----------------------------------------------------------------------------
(* update_of_config_var(nvram, req.assign, req.pname)                      *)

\* phead = nvram_find_partition(nvram, 0, pname, NULL)
phead == FindPartition(mem, req.pname)
part_size == mem[phead].len * BLOCK
\* the buffer from the partition's data on; bytes past its end read as NUL
data == Buffer(mem, phead) \o << NUL, NUL >>
\* config_name_len = strstr(config_var, "=") - config_var + 1
config_name_len == SelectInSeq(req.assign, LAMBDA c : c = EQ)
records == Walk(Buffer(mem, phead), 1)

\* Mutant: the compared length leaves out the '='.
NameMatchesNoEq(s) ==
    SubSeq(data, s, s + config_name_len - 2)
        = SubSeq(req.assign, 1, config_name_len - 1)

\* strncmp(data_offset, config_var, config_name_len) == 0
NameMatches(s) ==
    SubSeq(data, s, s + config_name_len - 1)
        = SubSeq(req.assign, 1, config_name_len)

\* index in records of the record found, 0 if none
found == SelectInSeq(Front(records), NameMatches)
match == records[found]
\* the NUL ending the matched record, and the terminating empty record
match_end == StrEnd(Buffer(mem, phead), match)
term == Last(Walk(Buffer(mem, phead), match_end + 1))

\* byte offsets from phead, as the pointer comparisons compute them
new_part_offset == BLOCK + (match - 1) + Len(req.assign) + 1
tail_len == term - match_end

NewData == LET img == SubSeq(data, 1, match - 1) \o req.assign \o << NUL >>
                        \o SubSeq(data, match_end + 1, term)
           IN IF Len(img) >= part_size - BLOCK
              THEN SubSeq(img, 1, part_size - BLOCK)
              ELSE img \o Zeros(part_size - BLOCK - Len(img))

\* Mutant: the first room check is missing.
RoomForVarUnchecked == TRUE

\* !((new_part_offset + strlen(config_var) + 1) >= new_part_end)
RoomForVar == new_part_offset < part_size

\* new_phead->checksum = checksum(new_phead)
NewChecksum == HdrChecksum(mem[phead])

\* memcpy(new_part, phead, data_offset - phead) writes past new_part when
\* the record was found beyond the partition.
PrefixOverrun == IF BLOCK + match - 1 > part_size THEN {"image"} ELSE {}

\* strncpy(new_part_offset, config_var, ...) and the NUL after it write past
\* new_part when the assignment ends beyond the partition.
CopyOverrun == IF new_part_offset > part_size THEN {"image"} ELSE {}

UpdateFail(why) ==
    /\ uret' = why
    /\ pc' = "print"
    /\ UNCHANGED <<dev, mem, req, out, image, sessions>>

UpdateNoPartition ==
    /\ pc = "update"
    /\ req.assign # NONE
    /\ phead = 0
    /\ overrun' = overrun
    /\ UpdateFail("nopart")

\* "The config var does not exist": no variable is ever created.
UpdateNoVar ==
    /\ pc = "update"
    /\ req.assign # NONE
    /\ phead # 0
    /\ found = 0
    /\ overrun' = overrun \cup OverrunAt(Last(records), part_size - BLOCK,
                                         Buffer(mem, phead))
    /\ UpdateFail("novar")

\* (new_part_offset + strlen(config_var) + 1) >= new_part_end
UpdateNoRoom ==
    /\ pc = "update"
    /\ req.assign # NONE
    /\ phead # 0
    /\ found # 0
    /\ ~RoomForVar
    /\ overrun' = overrun \cup PrefixOverrun
                  \cup OverrunAt(match, part_size - BLOCK, Buffer(mem, phead))
    /\ UpdateFail("nospace")

\* The check "data_offset[-1] != '\0' && data_offset[0] != '\0'" (line
\* 1422) cannot hold: the loop before it stops at data_offset[0] == '\0'.
\* (new_part_offset + (data_offset - tmp_offset)) > new_part_end
UpdateNoRoomTail ==
    /\ pc = "update"
    /\ req.assign # NONE
    /\ phead # 0
    /\ found # 0
    /\ RoomForVar
    /\ new_part_offset + tail_len > part_size
    /\ overrun' = overrun \cup PrefixOverrun \cup CopyOverrun
                  \cup OverrunAt(term, part_size - BLOCK, Buffer(mem, phead))
    /\ UpdateFail("nospace")

\* The image is written over the device partition nvram_find_fd_partition
\* finds; write() may return short or -1, and the function returns 0 anyway.
ApplyWrite(p, img, n) ==
    [p EXCEPT !.csum = IF n >= 2 THEN img.csum ELSE @,
              !.data = [q \in 1..Len(@) |->
                          IF BLOCK + q <= n THEN img.data[q] ELSE @[q]]]

UpdateWrite ==
    /\ pc = "update"
    /\ req.assign # NONE
    /\ phead # 0
    /\ found # 0
    /\ RoomForVar
    /\ new_part_offset + tail_len <= part_size
    /\ LET img == [csum |-> NewChecksum, data |-> NewData]
           j == FindFdPartition(dev, mem[phead].name)
       IN /\ j # 0
          /\ \E n \in {part_size} \cup {w \in ShortWrites : w < part_size} :
                dev' = [dev EXCEPT ![j] = ApplyWrite(@, img, n)]
          /\ image' = img
    /\ overrun' = overrun \cup PrefixOverrun \cup CopyOverrun
                  \cup OverrunAt(term, part_size - BLOCK, Buffer(mem, phead))
    /\ uret' = "ok"
    /\ pc' = "print"
    /\ UNCHANGED <<mem, req, out, sessions>>

-----------------------------------------------------------------------------
(* print_of_config(nvram, req.var, req.pname)                              *)

\* name_value_parts[]
name_value_parts == {"common", "ibm,setupcfg", "of-config"}

\* The buffer of partition i, padded with NULs for reads past its end.
Padded(m, i) == Buffer(m, i) \o Zeros(4)

\* Records of partition i whose name is v ("data[varlen] == '=' &&
\* strncmp(config_var, data, varlen) == 0"), and the values printed.
VarRecords(m, i, v) ==
    SelectSeq(Front(Walk(Buffer(m, i), 1)),
              LAMBDA s : /\ Padded(m, i)[s + Len(v)] = EQ
                         /\ SubSeq(Padded(m, i), s, s + Len(v) - 1) = v)

ValuesOf(m, i, v) ==
    LET rs == VarRecords(m, i, v)
    IN [q \in DOMAIN rs |->
          SubSeq(Padded(m, i), rs[q] + Len(v) + 1, StrEnd(Buffer(m, i), rs[q]) - 1)]

\* print_of_config_part: every record of the partition, one per line.
RecordsOf(m, i) ==
    LET w == Front(Walk(Buffer(m, i), 1))
    IN [q \in DOMAIN w |-> SubSeq(Padded(m, i), w[q], StrEnd(Buffer(m, i), w[q]) - 1)]

PrintDone(o, more) ==
    /\ out' = o
    /\ overrun' = overrun \cup more
    /\ pc' = "exit"
    /\ UNCHANGED <<dev, mem, req, uret, image, sessions>>

NoPrintRequested ==
    /\ pc = "print"
    /\ req.var = NONE
    /\ PrintDone(<< >>, {})

\* --print-config without a variable: the whole partition, if it is one of
\* name_value_parts and exists.
PrintPartition ==
    LET i == FindPartition(mem, req.pname)
    IN /\ pc = "print"
       /\ req.var = ALL
       /\ \/ /\ req.pname \in name_value_parts
             /\ i # 0
             /\ PrintDone(RecordsOf(mem, i),
                          OverrunAt(Last(Walk(Buffer(mem, i), 1)),
                                    DataLen(mem[i]), Buffer(mem, i)))
          \/ /\ req.pname \notin name_value_parts \/ i = 0
             /\ PrintDone(<< >>, {})

\* --print-config=var -p pname: any partition name is accepted here.
PrintVar ==
    LET i == FindPartition(mem, req.pname)
    IN /\ pc = "print"
       /\ req.var \notin {NONE, ALL}
       /\ \/ /\ i # 0
             /\ PrintDone(ValuesOf(mem, i, req.var),
                          OverrunAt(Last(Walk(Buffer(mem, i), 1)),
                                    DataLen(mem[i]), Buffer(mem, i)))
          \/ /\ i = 0
             /\ PrintDone(<< >>, {})

\* err_exit: the process frees nvram.data, closes the device and exits.
Exit ==
    /\ pc = "exit"
    /\ pc' = "idle"
    /\ mem' = << >>
    /\ req' = [assign |-> NONE, pname |-> NONE, var |-> NONE]
    /\ out' = << >>
    /\ image' = NONE
    /\ UNCHANGED <<dev, uret, overrun, sessions>>

Next ==
    \/ Invoke
    \/ NoUpdateRequested
    \/ UpdateNoPartition
    \/ UpdateNoVar
    \/ UpdateNoRoom
    \/ UpdateNoRoomTail
    \/ UpdateWrite
    \/ NoPrintRequested
    \/ PrintPartition
    \/ PrintVar
    \/ Exit

Spec == Init /\ [][Next]_vars

-----------------------------------------------------------------------------
(* Properties                                                              *)

TypeOK ==
    /\ Len(dev) = Len(Layout)
    /\ \A i \in Parts : /\ dev[i].csum \in 0..255
                        /\ Len(dev[i].data) = DataLen(Layout[i])
    /\ pc \in {"idle", "update", "print", "exit"}
    /\ uret \in {"none", "ok", "nopart", "novar", "nospace"}
    /\ overrun \subseteq {"partition", "store", "image"}
    /\ sessions \in 0..MaxSessions

\* The record list held in the data bytes of the first partition named n
\* on the device (the abstraction function: records up to the empty one).
RECURSIVE RecordsFrom(_, _)
RecordsFrom(b, s) ==
    IF s > Len(b) \/ b[s] = NUL THEN << >>
    ELSE << SubSeq(b, s, StrEnd(b, s) - 1) >> \o RecordsFrom(b, StrEnd(b, s) + 1)

\* The record lists of every device partition, by index.  The device keeps
\* the names of Layout, so the first partition named n is found there; the
\* index is taken outside RecordsFrom, whose argument TLC re-evaluates at
\* every step of the recursion.
PartRecords(d) == [i \in Parts |-> RecordsFrom(d[i].data, 1)]

Decode(recs, n) == recs[FindPartition(Layout, n)]

PartNames == {Layout[i].name : i \in Parts}

Abstract == INSTANCE ConfigStore WITH
    Parts <- PartNames,
    Cap <- [n \in PartNames |-> DataLen(Layout[FindPartition(Layout, n)])],
    store <- LET recs == PartRecords(dev) IN [n \in PartNames |-> Decode(recs, n)],
    result <- CASE uret \in {"nopart", "novar"} -> "notfound"
              []   OTHER -> uret

(***************************************************************************)
(* update_of_config_var implements the ConfigStore update: the device's    *)
(* record lists change only by replacing the first record named like the  *)
(* assignment, exactly when the new list fits, with the reported result.   *)
(***************************************************************************)
ConfigRefinement == Abstract!Spec

(***************************************************************************)
(* On partitions whose record list ends with the empty record, as the     *)
(* firmware writes them, building the new image never writes past         *)
(* new_part, however long the assignment is: the room checks at 1400 and   *)
(* 1431 come before the copies.  (Lists without the empty record are the  *)
(* corrupt_scan run's case, where the scan itself leaves the partition.)   *)
(***************************************************************************)
NoImageOverflow == "image" \notin overrun

(***************************************************************************)
(* The record scans of update_of_config_var and print_of_config stay       *)
(* inside the partition they were asked about.                             *)
(***************************************************************************)
ScanStaysInPartition == overrun \cap {"partition", "store"} = {}

(***************************************************************************)
(* When update_of_config_var returns 0 the device partition holds the      *)
(* image it built.                                                         *)
(***************************************************************************)
SuccessMeansWritten ==
    (pc = "print" /\ req.assign # NONE /\ uret = "ok")
        => LET j == FindFdPartition(dev, req.pname)
           IN dev[j].data = image.data /\ dev[j].csum = image.csum

(***************************************************************************)
(* What --print-config prints is what the device holds when it prints,     *)
(* also right after an --update-config of the same invocation.             *)
(***************************************************************************)
PrintShowsDevice ==
    [][(pc = "print" /\ req.var \notin {NONE, ALL}
            /\ FindPartition(dev, req.pname) # 0)
         => out' = ValuesOf(dev, FindPartition(dev, req.pname), req.var)]_vars
=============================================================================
