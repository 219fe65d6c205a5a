------------------------------- MODULE OFPath -------------------------------
(***************************************************************************)
(* get_of_nvram_size (nvram.c 327-378) with open_of_path (282-315) and     *)
(* resolve_of_node (202-268): the size of nvram from the #bytes property   *)
(* of the device tree under DEVICE_TREE.  It opens NVRAM_DEFAULT/#bytes;   *)
(* failing that it reads the OF path held in the aliases/nvram property,   *)
(* appends "/#bytes" and resolves that path one component at a time, each  *)
(* by stat() of the exact name, else by glob() of its abbreviations.  Any  *)
(* failure gives DEFAULT_NVRAM_SZ.                                         *)
(*                                                                         *)
(* The tree is a set of paths, each a sequence of names (as Graphs.tla     *)
(* writes a path as a sequence of nodes).  A name "base@unit" is a record; *)
(* a unit is a sequence of digits and <<>> stands for a name without '@'.  *)
(* A component "@unit" of an OF path has base "".  The #bytes property     *)
(* file is a leaf named BytesName.                                         *)
(***************************************************************************)
EXTENDS Integers, Sequences, SequencesExt, FiniteSets

CONSTANTS
    DEFAULT_NVRAM_SZ,  \* returned when the device tree gives no size
    NVRAM_DEFAULT,     \* the path of NVRAM_DEFAULT below DEVICE_TREE
    Machines,          \* device trees: [tree, props]
    Aliases,           \* OF paths aliases/nvram may hold
    IOErrors           \* TRUE if stat, fstat, open and read may fail

\* The #bytes property file.
BytesName == [base |-> "#bytes", unit |-> <<>>]

\* NVRAM_DEFAULT "/#bytes"
DefaultPath == Append(NVRAM_DEFAULT, BytesName)

ASSUME /\ \A m \in Machines : \A q \in m.tree :
              q[Len(q)] = BytesName => q \in DOMAIN m.props
       /\ \A a \in Aliases : \A i \in DOMAIN a : a[i].base # "" \/ a[i].unit # <<>>

VARIABLES
    dt,        \* the device tree of this machine
    aliased,   \* TRUE if DEVICE_TREE/aliases/nvram exists
    alias,     \* the OF path that property holds
    pc,        \* "default" | "alias" | "resolve" | "size" | "done"
    ofpath,    \* the components of the OF path not yet resolved
    resolved,  \* resolved_ofpath below DEVICE_TREE, as a sequence of names
    opened,    \* the path the open fd refers to
    ioerr,     \* TRUE once a system call failed
    size       \* get_of_nvram_size's result

ofvars == <<dt, aliased, alias, pc, ofpath, resolved, opened, ioerr, size>>

\* The names of the entries of directory parent.
Children(t, parent) ==
    {q[Len(q)] : q \in {q \in t : Len(q) = Len(parent) + 1
                                  /\ SubSeq(q, 1, Len(parent)) = parent}}

\* glob("%s/*%.*s*"): the names containing "@unit".
UnitGlob(kids, c) == {n \in kids : n.unit # <<>> /\ IsPrefix(c.unit, n.unit)}

\* glob("%s/%.*s@*"): for a component with an '@' the pattern has two and
\* matches nothing.
NameGlob(kids, c) == {n \in kids : c.unit = <<>> /\ n.unit # <<>> /\ n.base = c.base}

\* node[0] == '@' picks the unit glob, else the name glob.
Globbed(t, parent, c) ==
    IF c.base = "" THEN UnitGlob(Children(t, parent), c)
                   ELSE NameGlob(Children(t, parent), c)

\* Mutant: the first path is taken whatever gl_pathc is.
AmbiguousNever(n) == FALSE

\* if (pglob.gl_pathc > 1): "Ambiguous node name"
Ambiguous(n) == n > 1

Init ==
    /\ dt \in Machines
    /\ aliased \in BOOLEAN
    /\ alias \in Aliases
    /\ pc = "default"
    /\ ofpath = <<>>
    /\ resolved = <<>>
    /\ opened = <<>>
    /\ ioerr = FALSE
    /\ size = 0

\* fd = open(NVRAM_DEFAULT "/#bytes", O_RDONLY)
OpenDefault ==
    /\ pc = "default"
    /\ IF DefaultPath \in dt.tree
       THEN /\ pc' = "size"
            /\ opened' = DefaultPath
       ELSE /\ pc' = "alias"
            /\ UNCHANGED opened
    /\ UNCHANGED <<dt, aliased, alias, ofpath, resolved, ioerr, size>>

\* open(NVRAM_ALIAS) and fstat(): on failure return DEFAULT_NVRAM_SZ; else
\* read the path, append "/#bytes" and start open_of_path at DEVICE_TREE.
OpenAlias ==
    /\ pc = "alias"
    /\ \/ /\ ~aliased
          /\ pc' = "done"
          /\ size' = DEFAULT_NVRAM_SZ
          /\ UNCHANGED <<ofpath, ioerr>>
       \/ /\ aliased /\ IOErrors
          /\ pc' = "done"
          /\ size' = DEFAULT_NVRAM_SZ
          /\ ioerr' = TRUE
          /\ UNCHANGED ofpath
       \/ /\ aliased
          /\ pc' = "resolve"
          /\ ofpath' = Append(alias, BytesName)
          /\ UNCHANGED <<size, ioerr>>
    /\ UNCHANGED <<dt, aliased, alias, resolved, opened>>

\* One pass of open_of_path's loop: resolve_of_node(resolved_ofpath, node)
\* and strcat of its result, or break on -1 (fd stays -1 and
\* get_of_nvram_size returns DEFAULT_NVRAM_SZ).
Fail == pc' = "done" /\ size' = DEFAULT_NVRAM_SZ

Take(n) == /\ resolved' = Append(resolved, n)
           /\ ofpath' = Tail(ofpath)

ResolveStat ==
    /\ pc = "resolve" /\ ofpath # <<>>
    /\ LET c == Head(ofpath) IN
       \/ /\ Append(resolved, c) \in dt.tree
          /\ Take(c)
          /\ UNCHANGED <<pc, ioerr, size>>
       \/ /\ IOErrors
          /\ Fail /\ ioerr' = TRUE
          /\ UNCHANGED <<ofpath, resolved>>
    /\ UNCHANGED <<dt, aliased, alias, opened>>

ResolveGlob ==
    /\ pc = "resolve" /\ ofpath # <<>>
    /\ Append(resolved, Head(ofpath)) \notin dt.tree
    /\ LET g == Globbed(dt.tree, resolved, Head(ofpath))
           n == Cardinality(g)
       IN \/ /\ n = 0
             /\ Fail
             /\ UNCHANGED <<ofpath, resolved>>
          \/ /\ n > 0 /\ Ambiguous(n)
             /\ Fail
             /\ UNCHANGED <<ofpath, resolved>>
          \/ /\ n > 0 /\ ~Ambiguous(n)
             /\ Take(CHOOSE x \in g : TRUE)
             /\ UNCHANGED <<pc, size>>
    /\ UNCHANGED <<dt, aliased, alias, opened, ioerr>>

\* The loop ends with the last component: fd = open(resolved_ofpath).
OpenResolved ==
    /\ pc = "resolve" /\ ofpath = <<>>
    /\ \/ /\ pc' = "size"
          /\ opened' = resolved
          /\ UNCHANGED <<ioerr, size>>
       \/ /\ IOErrors
          /\ Fail /\ ioerr' = TRUE
          /\ UNCHANGED opened
    /\ UNCHANGED <<dt, aliased, alias, ofpath, resolved>>

\* len = read(fd, &size, sizeof(size)): the first 4 bytes of the property
\* whatever its length; a shorter read gives DEFAULT_NVRAM_SZ.
ReadSize ==
    /\ pc = "size"
    /\ pc' = "done"
    /\ LET prop == dt.props[opened] IN
       \/ /\ size' = IF prop.len >= 4 THEN prop.word ELSE DEFAULT_NVRAM_SZ
          /\ UNCHANGED ioerr
       \/ /\ IOErrors
          /\ size' = DEFAULT_NVRAM_SZ /\ ioerr' = TRUE
    /\ UNCHANGED <<dt, aliased, alias, ofpath, resolved, opened>>

Next == OpenDefault \/ OpenAlias \/ ResolveStat \/ ResolveGlob
        \/ OpenResolved \/ ReadSize

-----------------------------------------------------------------------------
(* Reference                                                               *)

(***************************************************************************)
(* The path an OF path names in tree t, per the comment at 190-192: at     *)
(* each level the child of exactly that name, else the one child it       *)
(* abbreviates; no path when a level has none or several.                  *)
(***************************************************************************)
RECURSIVE Lookup(_, _, _)
Lookup(t, parent, comps) ==
    IF comps = <<>> THEN {parent}
    ELSE LET c == Head(comps)
             m == IF Append(parent, c) \in t THEN {c} ELSE Globbed(t, parent, c)
         IN IF Cardinality(m) = 1
            THEN Lookup(t, Append(parent, CHOOSE x \in m : TRUE), Tail(comps))
            ELSE {}

\* The size the device tree gives: #bytes of NVRAM_DEFAULT, else of the
\* node the alias names, when that property has at least 4 bytes.
TreeSize ==
    LET found == IF DefaultPath \in dt.tree THEN {DefaultPath}
                 ELSE IF aliased THEN Lookup(dt.tree, <<>>, Append(alias, BytesName))
                 ELSE {}
    IN IF found = {} THEN DEFAULT_NVRAM_SZ
       ELSE LET prop == dt.props[CHOOSE q \in found : TRUE]
            IN IF prop.len >= 4 THEN prop.word ELSE DEFAULT_NVRAM_SZ

-----------------------------------------------------------------------------
(* Properties                                                              *)

TypeOK ==
    /\ pc \in {"default", "alias", "resolve", "size", "done"}
    /\ Len(resolved) + Len(ofpath) <= Len(alias) + 1
    /\ opened \in dt.tree \cup {<<>>}
    /\ size \in Int

(***************************************************************************)
(* get_of_nvram_size returns the size the device tree gives for nvram,     *)
(* and DEFAULT_NVRAM_SZ exactly when it gives none or a call failed: the   *)
(* loop of open_of_path, resolve_of_node's stat-then-glob order and its    *)
(* ambiguity check compute the path Lookup names.                          *)
(***************************************************************************)
OFSizeMatchesLookup ==
    pc = "done" => size = IF ioerr THEN DEFAULT_NVRAM_SZ ELSE TreeSize
=============================================================================
