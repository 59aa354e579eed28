------------------------------ MODULE MCStore ------------------------------
(***************************************************************************)
(* What the system stores, on small instances: the redo log, the bytes of  *)
(* a file, user memory and the heap of a program.  A behaviour is one of   *)
(* one part; the others stay in one of their initial states.               *)
(***************************************************************************)
EXTENDS Log, Content, Vm, Umalloc

CONSTANT Parts

VARIABLE part

(* Bound: the pages of memory that the kernel finds                        *)
MCMemory == {6, 8, 13, 16}

AnyProcess == CHOOSE t \in Process : TRUE

LogIdle == UNCHANGED vars
ContentIdle == UNCHANGED contentVars
VmIdle == UNCHANGED vmVars
HeapIdle == UNCHANGED mallocVars

storeVars == <<part, vars, contentVars, vmVars, mallocVars>>

StoreInit ==
    /\ part \in Parts
    /\ Init /\ ContentInit /\ VmInit /\ HeapInit
    /\ part # "log" => \E v \in Val : home = [b \in Block |-> v] /\ logblk = [i \in 1..LOGSIZE |-> v]
    /\ phystop \in (IF part = "vm" THEN MCMemory ELSE {6})
    /\ vpc[AnyProcess] = "user"

StoreNext ==
    /\ UNCHANGED part
    /\ \/ part = "log" /\ Next /\ ContentIdle /\ VmIdle /\ HeapIdle
       \/ part = "content" /\ ContentNext /\ LogIdle /\ VmIdle /\ HeapIdle
       \/ part = "vm" /\ VmNext /\ LogIdle /\ ContentIdle /\ HeapIdle
       \/ part = "heap" /\ MallocNext /\ LogIdle /\ ContentIdle /\ VmIdle

StoreSpec == StoreInit /\ [][StoreNext]_storeVars

StoreTypeOK ==
    /\ part = "log" => TypeOK
    /\ part = "content" => ContentTypeOK
    /\ part = "vm" => VmTypeOK
    /\ part = "heap" => HeapTypeOK

(* ImplementsBytes of Content: a file is a sequence of bytes of its own    *)
FilesAreBytes ==
    Plain!BytesInit /\ [][part = "content" => Plain!BytesNext]_<<FileContent, io, out>>

(* ImplementsSpaces of Vm: each process has memory of its own, also after  *)
(* mappages() failed and its page was lost; and allocuvm(), copyuvm() and  *)
(* setupkvm() lose pages only when none is left (vm.c:122-309).            *)
MemoryIsOwn ==
    Own!SpacesInit /\ [][part = "vm" => Own!SpacesNext]_<<UserSpace, UserSize, Lost>>

(* Log's sets are the only ones that the other parts do not tell apart.    *)
MCSymmetry == Permutations(Proc) \cup Permutations(Block) \cup Permutations(Val)

(* Calls that are turns of filewrite()                                     *)
MCFileBlocks == FileBlocks

(* sbrk(7) and sbrk(-3)                                                    *)
MCIncrements == {7, -3}
=============================================================================
