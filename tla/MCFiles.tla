------------------------------ MODULE MCFiles ------------------------------
(***************************************************************************)
(* The layers of the kernel side by side: booting, spin locks, the round   *)
(* robin of homework 1, the random numbers of homework 3, keyboard and     *)
(* screen, the buffer cache, the inode cache, directories, open files and  *)
(* their offsets; and above them programs: mkfs, the sort of homework      *)
(* 1, the calculator of homework 2, the encoders of homework 4, grep, the  *)
(* parser of the shell and the helpers they share.                         *)
(* A behaviour is one of one layer; the others stay in one of their        *)
(* initial states.                                                         *)
(***************************************************************************)
EXTENDS StoreLayers, Directory, FileTable, Spinlock, RoundRobin, Terminal, Boot,
        Draws, Calculator, Sort, RunLength, Parser, Mkfs, Strings

CONSTANT Layers

(* A call, with its path name *)
Rel(c, s) == [call |-> c, root |-> FALSE, path |-> s, root2 |-> TRUE, path2 |-> <<"b">>]
Abs(c, s) == [Rel(c, s) EXCEPT !.root = TRUE]

(* link("/b", "/a") *)
Renames == [Abs("link", <<"b">>) EXCEPT !.path2 = <<"a">>]

(* No call follows "..": see IlockFindsType. *)
Requests ==
    {Rel("mkdir", <<"a">>), Abs("creat", <<"b">>), Abs("open", <<"b">>), Rel("chdir", <<"a">>),
     Rel("unlink", <<"..">>), Abs("unlink", <<"a">>), Renames}

DotdotRequests ==
    {Rel("mkdir", <<"a">>), Rel("chdir", <<"a">>), Rel("chdir", <<"..">>),
     Abs("unlink", <<"a">>), Abs("unlink", <<"a", "a">>)}

storeVars == <<cacheVars, inodeVars, dirVars, fileVars, ioVars>>
machineVars == <<spinVars, roundVars, terminalVars, bootVars, drawVars>>
homeworkVars == <<calcVars, sortVars, rlVars>>
toolVars == <<parseVars, mkfsVars, grepVars, stringsVars>>

Init ==
    /\ layer \in Layers
    /\ CacheInit /\ InodeInit /\ DirInit /\ FileInit /\ IOInit
    /\ SpinInit /\ DrawInit
    /\ RoundInit /\ watched = IF layer = "roundrobin" THEN NSLOT ELSE InitSlot
    /\ KeysStart
    /\ IF layer = "screen" THEN \E p \in 0..LastRow - 1 : ScreenStart(p) ELSE ScreenStart(0)
    /\ IF layer = "boot" THEN BootInit ELSE BootStart(<<CHOOSE h \in Segments : TRUE>>, 1)
    /\ CalcInit
    /\ IF layer = "sort" THEN SortInit ELSE SortStart(<<>>, FALSE)
    /\ IF layer = "rle" THEN RlInit ELSE RlStart(<<>>)
    /\ IF layer = "parser" THEN ParseInit ELSE ParseStart(<<>>)
    /\ IF layer = "mkfs" THEN MkfsInit ELSE MkfsStart(<<>>)
    /\ IF layer = "grep" THEN GrepInit ELSE GrepStart(<<>>, <<>>, TRUE)
    /\ IF layer = "strings" THEN StringsInit ELSE StringsStart([op |-> "none"])

Store ==
    \/ /\ layer = "cache" /\ CacheNext
       /\ UNCHANGED <<inodeVars, dirVars, fileVars, ioVars>>
    \/ /\ layer = "inodes" /\ InodeNext
       /\ UNCHANGED <<cacheVars, dirVars, fileVars, ioVars>>
    \/ /\ layer = "directories" /\ DirNext
       /\ UNCHANGED <<cacheVars, inodeVars, fileVars, ioVars>>
    \/ /\ layer = "files" /\ FileNext
       /\ UNCHANGED <<cacheVars, inodeVars, dirVars, ioVars>>
    \/ /\ layer = "fileio" /\ IONext
       /\ UNCHANGED <<cacheVars, inodeVars, dirVars, fileVars>>

Machine ==
    \/ layer = "boot" /\ BootNext /\ UNCHANGED <<spinVars, terminalVars, roundVars, drawVars>>
    \/ layer = "locks" /\ SpinNext /\ UNCHANGED <<bootVars, terminalVars, roundVars, drawVars>>
    \/ /\ \/ layer = "keyboard" /\ KeyNext
          \/ layer = "screen" /\ ScreenNext
       /\ UNCHANGED <<bootVars, spinVars, roundVars, drawVars>>
    \/ layer = "roundrobin" /\ RoundNext /\ UNCHANGED <<bootVars, spinVars, terminalVars, drawVars>>
    \/ layer = "draws" /\ DrawNext /\ UNCHANGED <<bootVars, spinVars, terminalVars, roundVars>>

Homework ==
    \/ layer = "calculator" /\ CalcNext /\ UNCHANGED <<sortVars, rlVars>>
    \/ layer = "sort" /\ SortNext /\ UNCHANGED <<calcVars, rlVars>>
    \/ layer = "rle" /\ RlNext /\ UNCHANGED <<calcVars, sortVars>>

Tool ==
    \/ layer = "parser" /\ ParseNext /\ UNCHANGED <<mkfsVars, grepVars, stringsVars>>
    \/ layer = "mkfs" /\ MkfsNext /\ UNCHANGED <<parseVars, grepVars, stringsVars>>
    \/ layer = "grep" /\ GrepNext /\ UNCHANGED <<parseVars, mkfsVars, stringsVars>>

Next ==
    /\ UNCHANGED layer
    /\ \/ Store /\ UNCHANGED <<machineVars, homeworkVars, toolVars>>
       \/ Machine /\ UNCHANGED <<storeVars, homeworkVars, toolVars>>
       \/ Homework /\ UNCHANGED <<storeVars, machineVars, toolVars>>
       \/ Tool /\ UNCHANGED <<storeVars, machineVars, homeworkVars>>

Spec == Init /\ [][Next]_<<layer, storeVars, machineVars, homeworkVars, toolVars>>

(* The types of every layer: the code's ranges of what is in its tables.   *)
TypeOK ==
    /\ layer = "cache" => CacheTypeOK
    /\ layer = "inodes" => InodeTypeOK
    /\ layer = "directories" => DirTypeOK
    /\ layer = "files" => FileTypeOK
    /\ layer = "fileio" => IOTypeOK
    /\ layer = "locks" => SpinTypeOK
    /\ layer = "roundrobin" => RoundTypeOK
    /\ layer \in {"keyboard", "screen"} => TerminalTypeOK
    /\ layer = "boot" => BootTypeOK
    /\ layer = "draws" => DrawTypeOK
    /\ layer = "calculator" => CalcTypeOK
    /\ layer = "sort" => SortTypeOK
    /\ layer = "rle" => RlTypeOK

(* The machine under the kernel: its segments are loaded whole, its CPUs   *)
(* start one by one, each with a stack of its own, the keyboard's flags    *)
(* follow the keys, and the screen shows the end of what was printed.      *)
(* Random numbers go round their table unless draws overlap.               *)
MachineRight ==
    /\ layer = "boot" => KernelLoaded /\ ProcessorsApart
    /\ layer = "keyboard" => KeyboardRight
    /\ layer = "screen" => ScreenRight
    /\ layer = "draws" => DrawsRight

(* What the programs make of any input: sort, the encoders, calculator,    *)
(* parser, mkfs, grep and the helpers under them.  Each part is an answer  *)
(* for every input, also where it is not the one that the user expects:    *)
(* numbers cut by a read(), the sign of a quotient, lines past the buffer; *)
(* for the runs that prle.c joins, for the inputs that go() can merge.     *)
(* Two programs that write through one offset do it one after the other.   *)
ProgramsRight ==
    /\ layer = "sort" => SortRight
    /\ layer = "rle" => RunLengthRight
    /\ layer = "calculator" => CalculatorRight
    /\ layer = "parser" => ParserRight
    /\ layer = "mkfs" => ImageRight
    /\ layer = "grep" => GrepRight
    /\ layer = "strings" => StringsRight
    /\ layer = "fileio" => OffsetsRight

-----------------------------------------------------------------------------
MCTable == <<7, 8, 9>>

(* Commands that nest: what is written of each is parsed.                  *)
Execs == {ExecCmd(<<"cat">>), ExecCmd(<<"cat", "cat">>)}
Nest(A, B) ==
    {RedirCmd(c, "cat", fd) : c \in A, fd \in {0, 1}} \cup {BackCmd(c) : c \in A}
        \cup {PipeCmd(c, d) : c \in A, d \in B} \cup {ListCmd(c, d) : c \in A, d \in B}
Simple == {ExecCmd(<<"cat">>)} \cup Nest({ExecCmd(<<"cat">>)}, {ExecCmd(<<"cat">>)})
MCTrees == Execs \cup Nest(Execs, Execs) \cup Nest(Simple, Simple)

(* Kernels of one segment or two: with bytes that are zeroed, and at       *)
(* places and offsets that are not those of sectors                        *)
MCSegments ==
    {h \in [paddr : 0..4, off : {0, 3}, filesz : 0..3, memsz : 1..3] :
        h.filesz <= h.memsz /\ h.paddr + h.memsz <= 6}

(* Up to three files; the second is long enough for an indirect block.     *)
MCArguments ==
    {<<>>} \cup {<<n>> : n \in 0..7} \cup {<<n, k>> : n \in 0..6, k \in 0..6}
        \cup {<<l, n, k>> : l \in {0, 2, 5}, n \in {1, 6}, k \in {3, 4}}

(* "^" first only, "*" not first                                           *)
MCPatterns ==
    {re \in SeqOf({"a", ".", "*", "^", "$"}, 3) :
        \A i \in DOMAIN re : (re[i] = "^" => i = 1) /\ (re[i] = "*" => i > 1)}
MCTexts == SeqOf({"a", "b", "nl"}, 4)
=============================================================================
