---------------------------- MODULE MCNvramSession ----------------------------
(***************************************************************************)
(* Chunks of 4 bytes stand for 512 and DEFAULT_NVRAM_SZ is 12.  Device     *)
(* trees under /proc/device-tree with the names a PowerMac has, units as   *)
(* digit sequences: pci, pci@1, pci@1,0 (a sibling whose unit has "1" as   *)
(* a prefix), mac-io@2, nvram@3 and the top-level nvram of NVRAM_DEFAULT.  *)
(***************************************************************************)
EXTENDS NvramSession, Sequences, TLC

Name(b, u) == [base |-> b, unit |-> u]
B == [base |-> "#bytes", unit |-> <<>>]

PCI == Name("pci", <<>>)
P1  == Name("pci", <<1>>)
P10 == Name("pci", <<1, 0>>)
MIO == Name("mac-io", <<2>>)
NV  == Name("nvram", <<3>>)
NVD == Name("nvram", <<>>)

MCNvramDefault == <<NVD>>

\* The paths of a node chain under top and the #bytes below it.
Chain(top) == {<<top>>, <<top, MIO>>, <<top, MIO, NV>>, <<top, MIO, NV, B>>}
Prop(l, w) == [len |-> l, word |-> w]

MCMachines == {
    \* one pci@1: every abbreviation resolves
    [tree |-> Chain(P1), props |-> (<<P1, MIO, NV, B>> :> Prop(4, 8))],
    \* pci@1 and pci@1,0: "pci" and "@1" are ambiguous, "@1,0" is not
    [tree |-> Chain(P1) \cup Chain(P10),
     props |-> (<<P1, MIO, NV, B>> :> Prop(4, 8)) @@ (<<P10, MIO, NV, B>> :> Prop(4, 5))],
    \* pci and pci@1: the exact name wins over the abbreviation
    [tree |-> Chain(PCI) \cup Chain(P1),
     props |-> (<<PCI, MIO, NV, B>> :> Prop(4, 5)) @@ (<<P1, MIO, NV, B>> :> Prop(4, 8))],
    \* a node without #bytes
    [tree |-> Chain(P1) \ {<<P1, MIO, NV, B>>}, props |-> <<>>],
    \* NVRAM_DEFAULT with an 8-byte #bytes (its first word is 0) ...
    [tree |-> {<<NVD>>, <<NVD, B>>}, props |-> (<<NVD, B>> :> Prop(8, 0))],
    \* ... and with a 2-byte one
    [tree |-> {<<NVD>>, <<NVD, B>>}, props |-> (<<NVD, B>> :> Prop(2, 0))]}

\* "/pci/@2/nvram", "/@1/mac-io@2/nvram@3", "/@1,0/mac-io/nvram"
MCAliases == {
    <<PCI, Name("", <<2>>), Name("nvram", <<>>)>>,
    <<Name("", <<1>>), MIO, NV>>,
    <<Name("", <<1, 0>>), Name("mac-io", <<>>), Name("nvram", <<>>)>>}

\* /dev/nvram (st_size 0) or an --nvram-file of 8 bytes.
MCStSizes == {0, 8}

MCNBytesSet == {0, 5, 8, 12}

\* Devices no larger than the nbytes main allocated.
MCDevSizes == [nb \in MCNBytesSet |-> {d \in {0, 3, 5, nb} : d <= nb}]
=============================================================================
