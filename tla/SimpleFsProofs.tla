--------------------------- MODULE SimpleFsProofs ---------------------------
(***************************************************************************)
(* Proofs about SimpleFs for every device, every set of directories and    *)
(* every outcome of the block callbacks; and that the only directory of a  *)
(* disk that keeps its blocks is a FIFO.                                   *)
(***************************************************************************)
EXTENDS SimpleFs, TLAPS

-----------------------------------------------------------------------------
(* Arithmetic.                                                             *)

(* The number of blocks of a file is a natural number and grows with the   *)
(* file (FS_GetNumberOfBlocksPerFile).                                     *)
LEMMA NumBlocksProperties ==
    ASSUME NEW a \in Nat, NEW b \in Nat, a <= b
    PROVE  /\ NumBlocks(a) \in Nat
           /\ NumBlocks(a) <= NumBlocks(b)
           /\ a # 0 => NumBlocks(a) >= 1
  BY DEF NumBlocks, BLOCK_SIZE

(* The next index of a ring of n slots.                                    *)
LEMMA NextIndex ==
    ASSUME NEW n \in Nat \ {0}, NEW i \in 0 .. n - 1
    PROVE  (i + 1) % n = IF i + 1 = n THEN 0 ELSE i + 1
  <1>1. CASE i + 1 = n
    BY <1>1
  <1>2. CASE i + 1 < n
    BY <1>2
  <1> QED
    BY <1>1, <1>2

(* An offset of at most one turn from an index of a ring of n slots.       *)
LEMMA WrappedIndex ==
    ASSUME NEW n \in Nat \ {0}, NEW i \in Nat, i < 2 * n
    PROVE  i % n = IF i < n THEN i ELSE i - n
  OBVIOUS

(* Slots of w blocks: a block of a lower slot comes before a higher slot.  *)
LEMMA SlotsApart ==
    ASSUME NEW w \in Nat, NEW s \in Nat, NEW t \in Nat, s < t,
           NEW k \in 0 .. w - 1
    PROVE  s * w + k < t * w
  <1>1. (s + 1) * w = s * w + w
    OBVIOUS
  <1>2. \A d \in Nat : d * w >= 0
    OBVIOUS
  <1>3. (t - s - 1) * w >= 0
    BY <1>2
  <1>4. t * w = (s + 1) * w + (t - s - 1) * w
    OBVIOUS
  <1> QED
    BY <1>1, <1>3, <1>4

-----------------------------------------------------------------------------
(* Directories and root blocks.                                            *)

(* The blocks of a slot are counted from 1: the header is one of them.     *)
LEMMA SlotBlocksType ==
    ASSUME NEW dir \in Directory
    PROVE  SlotBlocks(dir) \in Nat /\ SlotBlocks(dir) >= 1
  BY NumBlocksProperties DEF SlotBlocks, Directory

(* The assignments of FS_WriteFile and FS_DeleteOldestFileInDirectory to a *)
(* directory keep its ring well-formed and its place on the device.        *)
LEMMA DirectoryUpdates ==
    ASSUME NEW dir \in Directory, DirectoryWellFormed(dir),
           NEW new \in {AfterWrite(dir), AfterDelete(dir)}
    PROVE  new \in Directory /\ DirectoryWellFormed(new)
  <1>1. /\ (dir.head + 1) % dir.maxFiles \in 0 .. dir.maxFiles - 1
        /\ (dir.tail + 1) % dir.maxFiles \in 0 .. dir.maxFiles - 1
    BY NextIndex DEF Directory, DirectoryWellFormed
  <1>2. CASE new = AfterWrite(dir)
    <2> DEFINE head == (dir.head + 1) % dir.maxFiles
               tail == IF dir.dirFull = 1 THEN (dir.tail + 1) % dir.maxFiles
                                          ELSE dir.tail
               dirFull == IF head = tail THEN 1 ELSE dir.dirFull
    <2>1. new = [dir EXCEPT !.head = head, !.tail = tail, !.dirFull = dirFull]
      BY <1>2 DEF AfterWrite
    <2>2. /\ head \in Nat /\ tail \in Nat
          /\ head \in 0 .. dir.maxFiles - 1
          /\ tail \in 0 .. dir.maxFiles - 1
          /\ dirFull \in {0, 1}
      BY <1>1 DEF Directory, DirectoryWellFormed
    <2>3. dirFull = 1 => head = tail
      BY DEF Directory, DirectoryWellFormed
    <2> HIDE DEF head, tail, dirFull
    <2>4. new \in Directory
      BY <2>1, <2>2, Zenon DEF Directory
    <2>5. /\ new.head = head /\ new.tail = tail /\ new.dirFull = dirFull
          /\ new.maxFiles = dir.maxFiles
          /\ new.maxFileSize = dir.maxFileSize
          /\ new.firstBlock = dir.firstBlock
      BY <2>1 DEF Directory
    <2> QED
      BY <2>2, <2>3, <2>4, <2>5 DEF DirectoryWellFormed, HeaderBlock, SlotBlocks
  <1>3. CASE new = AfterDelete(dir)
    <2> DEFINE tail == (dir.tail + 1) % dir.maxFiles
    <2>1. new = [dir EXCEPT !.dirFull = 0, !.tail = tail]
      BY <1>3 DEF AfterDelete
    <2>2. tail \in Nat /\ tail \in 0 .. dir.maxFiles - 1
      BY <1>1
    <2> HIDE DEF tail
    <2>3. new \in Directory
      BY <2>1, <2>2, Zenon DEF Directory
    <2>4. /\ new.head = dir.head /\ new.tail = tail /\ new.dirFull = 0
          /\ new.maxFiles = dir.maxFiles
          /\ new.maxFileSize = dir.maxFileSize
          /\ new.firstBlock = dir.firstBlock
      BY <2>1 DEF Directory
    <2> QED
      BY <2>2, <2>3, <2>4 DEF DirectoryWellFormed, HeaderBlock, SlotBlocks
  <1> QED
    BY <1>2, <1>3

(* A root block with well-formed directories only.                         *)
RootOK(root) ==
    /\ root \in RootBlock
    /\ \A x \in DOMAIN root.dirs : DirectoryWellFormed(root.dirs[x])

(* A blank root block has no directory, and is well-formed.                *)
LEMMA BlankRoots ==
    /\ RootOK(Blank)
    /\ RootOK([sig |-> TRUE, storageNumBlocks |-> TotalBlocks, dirs |-> <<>>])
  BY DEF RootOK, RootBlock, Blank

(* FS_WriteDirectoryToRoot: replacing one directory.                       *)
LEMMA ReplaceDirectory ==
    ASSUME NEW root, RootOK(root), NEW x \in DOMAIN root.dirs,
           NEW dir \in Directory, DirectoryWellFormed(dir)
    PROVE  RootOK([root EXCEPT !.dirs[x] = dir])
  <1> DEFINE dirs == [root.dirs EXCEPT ![x] = dir]
  <1>1. root.dirs \in Seq(Directory)
    BY DEF RootOK, RootBlock
  <1>2. /\ dirs \in Seq(Directory)
        /\ DOMAIN dirs = DOMAIN root.dirs
    BY <1>1
  <1>3. \A y \in DOMAIN dirs : DirectoryWellFormed(dirs[y])
    BY <1>1, <1>2 DEF RootOK
  <1>4. /\ [root EXCEPT !.dirs[x] = dir] \in RootBlock
        /\ [root EXCEPT !.dirs[x] = dir].dirs = dirs
    BY <1>2 DEF RootOK, RootBlock
  <1> QED
    BY <1>3, <1>4 DEF RootOK

(* FS_AddDirectory: appending one.                                         *)
LEMMA AppendDirectory ==
    ASSUME NEW root, RootOK(root),
           NEW dir \in Directory, DirectoryWellFormed(dir)
    PROVE  RootOK([root EXCEPT !.dirs = Append(@, dir)])
  <1> DEFINE dirs == Append(root.dirs, dir)
  <1>1. root.dirs \in Seq(Directory)
    BY DEF RootOK, RootBlock
  <1>2. dirs \in Seq(Directory)
    BY <1>1
  <1>3. \A y \in DOMAIN dirs : DirectoryWellFormed(dirs[y])
    BY <1>1, <1>2 DEF RootOK
  <1>4. /\ [root EXCEPT !.dirs = Append(@, dir)] \in RootBlock
        /\ [root EXCEPT !.dirs = Append(@, dir)].dirs = dirs
    BY <1>2 DEF RootOK, RootBlock
  <1> QED
    BY <1>3, <1>4 DEF RootOK

-----------------------------------------------------------------------------
(* The inductive invariant: the two root images are well-formed, and a     *)
(* write in progress belongs to a directory that can take it.              *)

OpOK ==
    /\ op \in {Idle} \union WriteOp
    /\ op # Idle => /\ op.dir \in DOMAIN Dirs
                    /\ op.size <= Dirs[op.dir].maxFileSize
                    /\ op.step = "data" => op.next \in 1 .. NumBlocks(op.size)

IInv ==
    /\ disk \in [Blocks -> RootBlock \union FileBlock]
    /\ RootOK(disk[0])
    /\ RootOK(rootBlock)
    /\ init \in BOOLEAN
    /\ mount \in BOOLEAN
    /\ OpOK
    /\ result \in {0, -1}
    /\ fileCount \in Nat

(* A blank disk has the type of a disk and a root block in block 0.        *)
LEMMA BlankDiskOK ==
    /\ BlankDisk \in [Blocks -> RootBlock \union FileBlock]
    /\ RootOK(BlankDisk[0])
  <1>1. 0 \in Blocks
    BY TotalBlocksAssumption DEF Blocks
  <1>2. Blank \in RootBlock /\ [kind |-> "zero"] \in FileBlock
    BY BlankRoots DEF RootOK, FileBlock
  <1> QED
    BY <1>1, <1>2, BlankRoots DEF BlankDisk

(* What every step that rewrites the root block has in common.             *)
LEMMA RootWrite ==
    ASSUME IInv, NEW root, RootOK(root), WriteRootBlock(root)
    PROVE  /\ disk' \in [Blocks -> RootBlock \union FileBlock]
           /\ RootOK(disk'[0])
           /\ rootBlock' = root
           /\ RootOK(rootBlock')
           /\ result' \in {0, -1}
  <1>1. PICK w \in WriteOutcomes :
            /\ rootBlock' = root
            /\ disk' = IF w.done THEN [disk EXCEPT ![0] = root] ELSE disk
            /\ result' = w.result
    BY DEF WriteRootBlock
  <1>2. w.result \in {0, -1}
    BY OutcomesAssumption
  <1>3. 0 \in Blocks
    BY TotalBlocksAssumption DEF Blocks
  <1>4. root \in RootBlock
    BY DEF RootOK
  <1> QED
    BY <1>1, <1>2, <1>3, <1>4 DEF IInv

(* What the writes of a file's blocks have in common: they are not block 0 *)
(* and change nothing else.                                                *)
LEMMA FileWrite ==
    ASSUME IInv, NEW block \in Nat \ {0}, NEW content \in FileBlock,
           NEW nextOp \in WriteOp, WriteFileBlock(block, content, nextOp)
    PROVE  /\ disk' \in [Blocks -> RootBlock \union FileBlock]
           /\ disk'[0] = disk[0]
           /\ \A b \in Blocks \ {block} : disk'[b] = disk[b]
           /\ op' \in WriteOp
           /\ op'.dir = nextOp.dir
           /\ op'.size = nextOp.size
           /\ op'.step = nextOp.step
           /\ op'.next = nextOp.next
           /\ UNCHANGED <<rootBlock, init, mount, result, fileCount>>
  <1>1. PICK w \in WriteOutcomes :
            /\ disk' = IF w.done THEN [disk EXCEPT ![block] = content] ELSE disk
            /\ op' = [nextOp EXCEPT !.failed = @ \/ w.result = -1]
            /\ UNCHANGED <<rootBlock, init, mount, result, fileCount>>
    BY DEF WriteFileBlock
  <1>2. 0 \in Blocks
    BY TotalBlocksAssumption DEF Blocks
  <1>3. PICK failed \in BOOLEAN : op' = [nextOp EXCEPT !.failed = failed]
    <2>1. (nextOp.failed \/ w.result = -1) \in BOOLEAN
      OBVIOUS
    <2> QED
      BY <1>1, <2>1
  <1>4. op' \in WriteOp
    BY <1>3, Zenon DEF WriteOp
  <1>5. /\ op'.dir = nextOp.dir
        /\ op'.size = nextOp.size
        /\ op'.step = nextOp.step
        /\ op'.next = nextOp.next
    BY <1>3 DEF WriteOp
  <1> QED
    BY <1>1, <1>2, <1>4, <1>5 DEF IInv

-----------------------------------------------------------------------------
(* The directory of the write in progress and the place of its head slot.  *)
LEMMA OpDirectory ==
    ASSUME IInv, op # Idle
    PROVE  /\ op \in WriteOp
           /\ op.dir \in DOMAIN Dirs
           /\ Dirs[op.dir] \in Directory
           /\ DirectoryWellFormed(Dirs[op.dir])
           /\ OpHeaderBlock \in Nat \ {0}
  <1> DEFINE dir == Dirs[op.dir]
  <1>1. /\ op \in WriteOp
        /\ op.dir \in DOMAIN Dirs
        /\ dir \in Directory
        /\ DirectoryWellFormed(dir)
    BY DEF IInv, OpOK, RootOK, RootBlock, Dirs
  <1>2. dir.head \in Nat /\ dir.firstBlock \in Nat /\ dir.firstBlock >= 1
    BY <1>1 DEF Directory, DirectoryWellFormed
  <1>3. SlotBlocks(dir) \in Nat
    BY <1>1, SlotBlocksType
  <1>4. dir.head * SlotBlocks(dir) \in Nat
    BY <1>2, <1>3
  <1>5. HeaderBlock(dir, dir.head) \in Nat \ {0}
    BY <1>2, <1>4 DEF HeaderBlock
  <1> QED
    BY <1>1, <1>5 DEF OpHeaderBlock

(* A new directory lies within the device (the tests of FS_AddDirectory).  *)
LEMMA NewDirectory ==
    ASSUME IInv, NEW entry \in DirEntries, ~RefusesDirectory(entry),
           NEW dir,
           dir = [dirName |-> entry.dirName, maxFiles |-> entry.maxFiles,
                  maxFileSize |-> entry.maxFileSize,
                  firstBlock |-> NextBlock(entry),
                  head |-> 0, tail |-> 0, dirFull |-> 0]
    PROVE  dir \in Directory /\ DirectoryWellFormed(dir)
  <1>1. entry \in DirEntry
    BY ClientAssumption
  <1>2. NumBlocks(entry.maxFileSize) \in Nat
    BY <1>1, NumBlocksProperties DEF DirEntry
  <1>3. Len(Dirs) \in Nat
    BY DEF IInv, RootOK, RootBlock, Dirs
  <1>4. Len(Dirs) * NumBlocks(entry.maxFileSize) \in Nat
    BY <1>2, <1>3
  <1>5. NextBlock(entry) \in Nat /\ NextBlock(entry) >= 1
    BY <1>4 DEF NextBlock
  <1>6. dir \in Directory
    BY <1>1, <1>5 DEF Directory, DirEntry
  <1>7. SlotBlocks(dir) = SlotBlocks(entry) /\ SlotBlocks(dir) \in Nat
    BY <1>6, SlotBlocksType DEF SlotBlocks
  <1>8. rootBlock.storageNumBlocks <= TotalBlocks
    BY TotalBlocksAssumption DEF IInv, RootOK, RootBlock
  <1>9. SlotBlocks(entry) * entry.maxFiles + NextBlock(entry)
            <= rootBlock.storageNumBlocks
    <2>1. /\ entry.maxFiles \in Nat
          /\ SlotBlocks(entry) \in Nat
          /\ rootBlock.storageNumBlocks \in Nat
      BY <1>1, <1>7, TotalBlocksAssumption
         DEF DirEntry, IInv, RootOK, RootBlock
    <2>2. SlotBlocks(entry) * entry.maxFiles \in Nat
      BY <2>1
    <2> QED
      BY <1>5, <2>1, <2>2 DEF RefusesDirectory
  <1>10. HeaderBlock(dir, dir.maxFiles)
             = NextBlock(entry) + SlotBlocks(entry) * entry.maxFiles
    <2>1. entry.maxFiles \in Nat /\ SlotBlocks(entry) \in Nat
      BY <1>1, <1>7 DEF DirEntry
    <2> QED
      BY <1>5, <1>7, <2>1 DEF HeaderBlock
  <1>11. HeaderBlock(dir, dir.maxFiles) <= TotalBlocks
    <2>1. /\ entry.maxFiles \in Nat
          /\ SlotBlocks(entry) * entry.maxFiles \in Nat
          /\ rootBlock.storageNumBlocks \in Nat
      BY <1>1, <1>7, TotalBlocksAssumption
         DEF DirEntry, IInv, RootOK, RootBlock
    <2> QED
      BY <1>5, <1>8, <1>9, <1>10, <2>1, TotalBlocksAssumption
  <1> QED
    BY <1>1, <1>5, <1>6, <1>11 DEF DirectoryWellFormed, DirEntry

-----------------------------------------------------------------------------
(* The initial state and every step keep the invariant.                    *)

(* The invariant holds before FS_Init is called.                           *)
LEMMA InvInit == Init => IInv
  <1> SUFFICES ASSUME Init PROVE IInv
    OBVIOUS
  <1>1. OpOK
    BY DEF Init, OpOK
  <1>2. /\ disk = BlankDisk /\ rootBlock = Blank
        /\ init = FALSE /\ mount = FALSE /\ result = 0 /\ fileCount = 0
    BY DEF Init
  <1> QED
    BY <1>1, <1>2, BlankDiskOK, BlankRoots DEF IInv

(* The calls that leave the write in progress alone, for there is none.    *)
LEMMA RootCallsInv ==
    ASSUME IInv, op = Idle, UNCHANGED <<init, mount, op, fileCount>>,
           NEW root, RootOK(root), WriteRootBlock(root)
    PROVE  IInv'
  BY RootWrite DEF IInv, OpOK

(* Every call, every block written and every fault keeps the invariant.    *)
LEMMA InvNext == IInv /\ [Next]_vars => IInv'
  <1> SUFFICES ASSUME IInv, [Next]_vars PROVE IInv'
    OBVIOUS
  <1> USE DEF IInv
  <1>0. 0 \in Blocks
    BY TotalBlocksAssumption DEF Blocks
  <1>1. ASSUME NEW r \in {0, -1}, Return(r) PROVE IInv'
    BY <1>1 DEF Return, OpOK, Dirs
  <1>2. CASE FS_Init
    BY <1>2 DEF FS_Init, OpOK, Dirs
  <1>3. CASE FS_Mount
    <2>1. CASE Return(-1)
      BY <1>1, <2>1
    <2>2. CASE /\ init
               /\ rootBlock' = disk[0]
               /\ mount' \in BOOLEAN
               /\ result' \in {0, -1}
               /\ op = Idle
               /\ UNCHANGED <<disk, init, op, fileCount>>
      BY <2>2 DEF OpOK
    <2> QED
      BY <1>3, <2>1, <2>2 DEF FS_Mount
  <1>4. CASE FS_Format
    BY <1>1, <1>4, RootCallsInv, BlankRoots DEF FS_Format
  <1>5. ASSUME NEW entry \in DirEntries, FS_AddDirectory(entry) PROVE IInv'
    <2>1. CASE Return(-1)
      BY <1>1, <2>1
    <2>2. CASE ~RefusesDirectory(entry) /\ ~Return(-1)
      <3> DEFINE dir == [dirName |-> entry.dirName,
                         maxFiles |-> entry.maxFiles,
                         maxFileSize |-> entry.maxFileSize,
                         firstBlock |-> NextBlock(entry),
                         head |-> 0, tail |-> 0, dirFull |-> 0]
      <3>1. dir \in Directory /\ DirectoryWellFormed(dir)
        BY <2>2, NewDirectory
      <3> HIDE DEF dir
      <3>2. RootOK([rootBlock EXCEPT !.dirs = Append(@, dir)])
        BY <3>1, AppendDirectory
      <3>3. /\ WriteRootBlock([rootBlock EXCEPT !.dirs = Append(@, dir)])
            /\ UNCHANGED <<init, mount, op, fileCount>>
            /\ op = Idle
        BY <1>5, <2>2 DEF FS_AddDirectory, dir
      <3> QED
        BY <3>2, <3>3, RootCallsInv
    <2> QED
      BY <1>5, <2>1, <2>2 DEF FS_AddDirectory
  <1>6. ASSUME NEW name \in Names, FS_DeleteOldestFileInDirectory(name)
        PROVE  IInv'
    <2>1. CASE Return(-1)
      BY <1>1, <2>1
    <2>2. CASE ~Return(-1)
      <3>1. PICK x \in DOMAIN Dirs :
               /\ WriteRootBlock([rootBlock EXCEPT !.dirs[x] = AfterDelete(@)])
               /\ UNCHANGED <<init, mount, op, fileCount>>
        BY <1>6, <2>2 DEF FS_DeleteOldestFileInDirectory
      <3>2. Dirs[x] \in Directory /\ DirectoryWellFormed(Dirs[x])
        BY DEF RootOK, RootBlock, Dirs
      <3>3. /\ AfterDelete(Dirs[x]) \in Directory
            /\ DirectoryWellFormed(AfterDelete(Dirs[x]))
        BY <3>2, DirectoryUpdates
      <3>4. RootOK([rootBlock EXCEPT !.dirs[x] = AfterDelete(@)])
        BY <3>3, ReplaceDirectory DEF Dirs
      <3> QED
        BY <1>6, <3>1, <3>4, RootCallsInv DEF FS_DeleteOldestFileInDirectory
    <2> QED
      BY <2>1, <2>2
  <1>7. ASSUME NEW name \in Names, NEW size \in Sizes,
               FS_WriteFile(name, size)
        PROVE  IInv'
    <2>1. CASE Return(-1)
      BY <1>1, <2>1
    <2>2. CASE ~Return(-1)
      <3>1. PICK x \in DOMAIN Dirs :
               /\ size <= Dirs[x].maxFileSize
               /\ fileCount' = fileCount + 1
               /\ op' = [step |-> IF size = 0 THEN "header" ELSE "data",
                         dir |-> x, file |-> fileCount + 1,
                         size |-> size, next |-> 1, failed |-> FALSE]
               /\ UNCHANGED <<disk, rootBlock, init, mount, result>>
        BY <1>7, <2>2 DEF FS_WriteFile
      <3>2. size \in Nat /\ x \in Nat
        BY ClientAssumption DEF Dirs, RootOK, RootBlock
      <3>3. size # 0 => 1 \in 1 .. NumBlocks(size)
        BY <3>2, NumBlocksProperties
      <3>4. op' \in WriteOp
        BY <3>1, <3>2 DEF WriteOp
      <3> QED
        BY <3>1, <3>2, <3>3, <3>4 DEF OpOK, Dirs
    <2> QED
      BY <2>1, <2>2
  <1>8. CASE WriteData
    <2> DEFINE content == [kind |-> "data", file |-> op.file, index |-> op.next]
               nextOp == IF op.next = NumBlocks(op.size)
                         THEN [op EXCEPT !.step = "header"]
                         ELSE [op EXCEPT !.next = @ + 1]
    <2>1. op # Idle /\ op.step = "data"
      BY <1>8 DEF WriteData, Idle
    <2>2. op \in WriteOp /\ OpHeaderBlock \in Nat \ {0}
      BY <2>1, OpDirectory
    <2>3. OpHeaderBlock + op.next \in Nat \ {0} /\ content \in FileBlock
      BY <2>2 DEF WriteOp, FileBlock
    <2>4. NumBlocks(op.size) \in Nat /\ op.next \in 1 .. NumBlocks(op.size)
      BY <2>1, <2>2, NumBlocksProperties DEF OpOK, WriteOp
    <2>5. /\ nextOp \in WriteOp
          /\ nextOp.dir = op.dir
          /\ nextOp.size = op.size
          /\ nextOp.step = "data" => nextOp.next \in 1 .. NumBlocks(op.size)
      <3>1. CASE op.next = NumBlocks(op.size)
        BY <2>2, <3>1 DEF WriteOp
      <3>2. CASE op.next # NumBlocks(op.size)
        BY <2>2, <2>4, <3>2 DEF WriteOp
      <3> QED
        BY <3>1, <3>2
    <2>6. WriteFileBlock(OpHeaderBlock + op.next, content, nextOp)
      BY <1>8 DEF WriteData
    <2> HIDE DEF content, nextOp
    <2> QED
      BY <2>1, <2>3, <2>5, <2>6, FileWrite DEF OpOK, Dirs
  <1>9. CASE WriteHeader
    <2> DEFINE content == [kind |-> "header", file |-> op.file, size |-> op.size]
               nextOp == [op EXCEPT !.step = "root"]
    <2>1. op # Idle /\ op.step = "header"
      BY <1>9 DEF WriteHeader, Idle
    <2>2. op \in WriteOp /\ OpHeaderBlock \in Nat \ {0}
      BY <2>1, OpDirectory
    <2>3. content \in FileBlock
      BY <2>2 DEF WriteOp, FileBlock
    <2>4. /\ nextOp \in WriteOp
          /\ nextOp.dir = op.dir
          /\ nextOp.size = op.size
          /\ nextOp.step = "root"
      BY <2>2 DEF WriteOp
    <2>5. WriteFileBlock(OpHeaderBlock, content, nextOp)
      BY <1>9 DEF WriteHeader
    <2> HIDE DEF content, nextOp
    <2> QED
      BY <2>1, <2>2, <2>3, <2>4, <2>5, FileWrite DEF OpOK, Dirs
  <1>10. CASE WriteDirectory
    <2>1. op # Idle
      BY <1>10 DEF WriteDirectory, Idle
    <2>2. /\ AfterWrite(Dirs[op.dir]) \in Directory
          /\ DirectoryWellFormed(AfterWrite(Dirs[op.dir]))
      BY <2>1, OpDirectory, DirectoryUpdates
    <2>3. RootOK([rootBlock EXCEPT !.dirs[op.dir] = AfterWrite(@)])
      BY <2>1, <2>2, OpDirectory, ReplaceDirectory DEF Dirs
    <2> QED
      BY <1>10, <2>3, RootWrite DEF WriteDirectory, OpOK
  <1>11. CASE Crash
    BY <1>11, BlankRoots DEF Crash, OpOK
  <1>12. CASE RestartDiskHost
    BY <1>12, BlankDiskOK DEF RestartDiskHost, OpOK, Dirs
  <1>13. CASE UNCHANGED vars
    BY <1>13 DEF vars, OpOK, Dirs
  <1> QED
    BY <1>2, <1>3, <1>4, <1>5, <1>6, <1>7, <1>8, <1>9, <1>10, <1>11, <1>12,
       <1>13 DEF Next

(* TypeOK, for every device, every client and every fault.                 *)
THEOREM TypeCorrect == Spec => []TypeOK
  <1>1. IInv => TypeOK
    BY DEF IInv, TypeOK, RootOK, OpOK
  <1> QED
    BY <1>1, InvInit, InvNext, PTL DEF Spec

(* Both images of the root block stay well-formed, so that a mount after   *)
(* any loss of power finds rings that the file operations can work on.     *)
THEOREM RootBlocksWellFormed == Spec => []DirectoriesWellFormed
  <1>1. IInv => DirectoriesWellFormed
    BY DEF IInv, DirectoriesWellFormed, RootOK
  <1> QED
    BY <1>1, InvInit, InvNext, PTL DEF Spec

-----------------------------------------------------------------------------
(* A write never touches the files that stay.                              *)

(* The head slot is not one that stays in use.                             *)
LEMMA HeadNotInUse ==
    ASSUME NEW dir \in Directory, DirectoryWellFormed(dir),
           NEW slot \in SlotsInUse(dir)
    PROVE  slot \in 0 .. dir.maxFiles - 1 /\ slot # dir.head
  <1> DEFINE n == dir.maxFiles
             h == dir.head
             t == dir.tail
  <1>1. /\ n \in Nat \ {0}
        /\ h \in 0 .. n - 1
        /\ t \in 0 .. n - 1
    BY DEF Directory, DirectoryWellFormed
  <1>2. PICK i \in (IF dir.dirFull = 1 THEN 2 ELSE 1) .. NumberOfFiles(dir) :
            slot = (t + i - 1) % n
    BY DEF SlotsInUse, SlotOf
  <1>3. /\ NumberOfFiles(dir) \in 0 .. n
        /\ dir.dirFull = 1 => h = t
        /\ dir.dirFull # 1 /\ h >= t => NumberOfFiles(dir) = h - t
        /\ dir.dirFull # 1 /\ h < t => NumberOfFiles(dir) = n + h - t
    BY <1>1 DEF NumberOfFiles, DirectoryWellFormed
  <1> HIDE DEF n, h, t
  <1>4. t + i - 1 \in Nat /\ t + i - 1 < 2 * n
    BY <1>1, <1>2, <1>3
  <1>5. slot = IF t + i - 1 < n THEN t + i - 1 ELSE t + i - 1 - n
    <2>1. \A j \in Nat : j < 2 * n => j % n = IF j < n THEN j ELSE j - n
      BY <1>1, WrappedIndex
    <2> QED
      BY <1>1, <1>2, <1>3, <1>4, <2>1
  <1>6. slot \in 0 .. n - 1 /\ slot # h
    BY <1>1, <1>2, <1>3, <1>4, <1>5
  <1> QED
    BY <1>6 DEF n, h

(* Blocks of two slots of a directory differ, and are blocks of the device *)
(* other than the root block.                                              *)
LEMMA SlotBlocksApart ==
    ASSUME NEW dir \in Directory, DirectoryWellFormed(dir),
           NEW s \in 0 .. dir.maxFiles - 1, NEW t \in 0 .. dir.maxFiles - 1,
           s # t,
           NEW k \in 0 .. SlotBlocks(dir) - 1,
           NEW l \in 0 .. SlotBlocks(dir) - 1
    PROVE  /\ HeaderBlock(dir, s) + k \in Blocks \ {0}
           /\ HeaderBlock(dir, s) + k # HeaderBlock(dir, t) + l
  <1> DEFINE w == SlotBlocks(dir)
  <1>1. /\ w \in Nat
        /\ dir.maxFiles \in Nat
        /\ dir.firstBlock \in Nat /\ dir.firstBlock >= 1
        /\ s \in Nat /\ t \in Nat /\ s < dir.maxFiles
    BY SlotBlocksType DEF Directory, DirectoryWellFormed
  <1>2. s * w \in Nat /\ t * w \in Nat /\ dir.maxFiles * w \in Nat
    BY <1>1
  <1>3. s * w + k < dir.maxFiles * w
    BY <1>1, SlotsApart
  <1>4. dir.firstBlock + dir.maxFiles * w <= TotalBlocks
    BY DEF DirectoryWellFormed, HeaderBlock
  <1>5. s * w + k # t * w + l
    <2>1. CASE s < t
      <3>1. s * w + k < t * w
        BY <1>1, <2>1, SlotsApart
      <3> QED
        BY <1>1, <1>2, <3>1
    <2>2. CASE t < s
      <3>1. t * w + l < s * w
        BY <1>1, <2>2, SlotsApart
      <3> QED
        BY <1>1, <1>2, <3>1
    <2> QED
      BY <1>1, <2>1, <2>2
  <1> HIDE DEF w
  <1>6. /\ HeaderBlock(dir, s) = dir.firstBlock + s * w
        /\ HeaderBlock(dir, t) = dir.firstBlock + t * w
    BY DEF HeaderBlock, w
  <1>7. k \in Nat /\ l \in Nat
    BY <1>1 DEF w
  <1> QED
    BY <1>1, <1>2, <1>3, <1>4, <1>5, <1>6, <1>7, TotalBlocksAssumption DEF Blocks

(* One step of a write leaves every slot in use alone.                     *)
LEMMA UntouchedStep ==
    ASSUME IInv, [Next]_vars, op # Idle, disk' # BlankDisk,
           NEW slot \in SlotsInUse(Dirs[op.dir]),
           NEW k \in 0 .. SlotBlocks(Dirs[op.dir]) - 1
    PROVE  LET b == HeaderBlock(Dirs[op.dir], slot) + k
           IN  disk'[b] = disk[b]
  <1> DEFINE dir == Dirs[op.dir]
             b == HeaderBlock(dir, slot) + k
  <1>0. SUFFICES disk'[b] = disk[b]
    OBVIOUS
  <1>1. /\ op \in WriteOp
        /\ dir \in Directory
        /\ DirectoryWellFormed(dir)
        /\ OpHeaderBlock \in Nat \ {0}
    BY OpDirectory
  <1>2. /\ slot \in 0 .. dir.maxFiles - 1 /\ slot # dir.head
        /\ dir.head \in 0 .. dir.maxFiles - 1
    BY <1>1, HeadNotInUse DEF DirectoryWellFormed
  <1>3. \A l \in 0 .. SlotBlocks(dir) - 1 :
           b \in Blocks \ {0} /\ b # OpHeaderBlock + l
    BY <1>1, <1>2, SlotBlocksApart DEF OpHeaderBlock
  <1>4. SlotBlocks(dir) \in Nat /\ SlotBlocks(dir) >= 1
    BY <1>1, SlotBlocksType
  <1> HIDE DEF dir
  <1>5. b \in Blocks \ {0} /\ b # OpHeaderBlock
    BY <1>1, <1>3, <1>4
  <1> HIDE DEF b
  <1>6. CASE WriteData
    <2> DEFINE content == [kind |-> "data", file |-> op.file, index |-> op.next]
               nextOp == IF op.next = NumBlocks(op.size)
                         THEN [op EXCEPT !.step = "header"]
                         ELSE [op EXCEPT !.next = @ + 1]
    <2>1. /\ op.size \in Nat /\ dir.maxFileSize \in Nat
          /\ op.size <= dir.maxFileSize
          /\ op.next \in 1 .. NumBlocks(op.size)
      BY <1>1, <1>6 DEF IInv, OpOK, WriteData, WriteOp, Directory, dir
    <2>2. /\ op.next \in 0 .. SlotBlocks(dir) - 1
          /\ op.next \in Nat
      BY <2>1, NumBlocksProperties DEF SlotBlocks
    <2>3. \E w \in WriteOutcomes :
             disk' = IF w.done THEN [disk EXCEPT ![OpHeaderBlock + op.next] = content]
                               ELSE disk
      BY <1>6 DEF WriteData, WriteFileBlock
    <2>4. b # OpHeaderBlock + op.next
      BY <1>3, <2>2
    <2> HIDE DEF content, nextOp
    <2> QED
      BY <1>5, <2>3, <2>4 DEF IInv
  <1>7. CASE WriteHeader
    BY <1>5, <1>7 DEF WriteHeader, WriteFileBlock, IInv
  <1>8. CASE WriteDirectory
    BY <1>5, <1>8 DEF WriteDirectory, WriteRootBlock, IInv
  <1>9. CASE Crash \/ UNCHANGED vars
    BY <1>9 DEF Crash, vars
  <1>10. CASE RestartDiskHost
    BY <1>10 DEF RestartDiskHost
  <1>11. CASE \/ FS_Init \/ FS_Mount \/ FS_Format
              \/ \E entry \in DirEntries : FS_AddDirectory(entry)
              \/ \E name \in Names : FS_DeleteOldestFileInDirectory(name)
              \/ \E name \in Names, size \in Sizes : FS_WriteFile(name, size)
    BY <1>11 DEF FS_Init, FS_Mount, FS_Format, FS_AddDirectory,
                 FS_DeleteOldestFileInDirectory, FS_WriteFile
  <1> QED
    BY <1>6, <1>7, <1>8, <1>9, <1>10, <1>11 DEF Next

(* FS_WriteFile never damages a file that its directory keeps, whatever    *)
(* becomes of its blocks.                                                  *)
THEOREM FilesKeptUntouched == Spec => LiveFilesUntouched
  <1>1. IInv /\ [Next]_vars =>
           [op # Idle /\ disk' # BlankDisk =>
               \A slot \in SlotsInUse(Dirs[op.dir]),
                  k \in 0 .. SlotBlocks(Dirs[op.dir]) - 1 :
                     LET b == HeaderBlock(Dirs[op.dir], slot) + k
                     IN  disk'[b] = disk[b]]_vars
    BY UntouchedStep
  <1> QED
    BY <1>1, InvInit, InvNext, PTL DEF Spec, LiveFilesUntouched

-----------------------------------------------------------------------------
(* The directory is a FIFO.                                                *)

(* What a disk d holds in a slot, and in the first directory (FileAt and   *)
(* Stored for any disk).                                                   *)
FileIn(d, dir, slot) ==
    LET at == HeaderBlock(dir, slot)
        header == d[at]
    IN  IF /\ header.kind = "header"
           /\ \A i \in 1 .. NumBlocks(header.size) :
                 d[at + i] = [kind |-> "data", file |-> header.file,
                              index |-> i]
        THEN header.file
        ELSE Torn

FilesIn(d, dir) ==
    [i \in 1 .. NumberOfFiles(dir) |-> FileIn(d, dir, SlotOf(dir, i))]

(* The two are the operators of the model on the disk of a state.          *)
LEMMA StoredIsIn ==
    /\ Stored = IF disk[0].dirs = <<>> THEN <<>>
                ELSE FilesIn(disk, disk[0].dirs[1])
    /\ Stored' = IF disk'[0].dirs = <<>> THEN <<>>
                 ELSE FilesIn(disk', disk'[0].dirs[1])
  BY DEF Stored, FilesOf, FileAt, FilesIn, FileIn

(* The slots of a ring, from the oldest file to the newest.                *)
LEMMA RingSlots ==
    ASSUME NEW dir \in Directory, DirectoryWellFormed(dir)
    PROVE  /\ NumberOfFiles(dir) \in 0 .. dir.maxFiles
           /\ (NumberOfFiles(dir) = dir.maxFiles) <=> (dir.dirFull = 1)
           /\ \A i \in 1 .. dir.maxFiles :
                 /\ SlotOf(dir, i) \in 0 .. dir.maxFiles - 1
                 /\ SlotOf(dir, i) = IF dir.tail + i - 1 < dir.maxFiles
                                     THEN dir.tail + i - 1
                                     ELSE dir.tail + i - 1 - dir.maxFiles
  <1> DEFINE n == dir.maxFiles
             t == dir.tail
  <1>1. /\ n \in Nat \ {0}
        /\ dir.head \in 0 .. n - 1
        /\ t \in 0 .. n - 1
        /\ dir.dirFull \in {0, 1}
    BY DEF Directory, DirectoryWellFormed
  <1>2. /\ NumberOfFiles(dir) \in 0 .. n
        /\ (NumberOfFiles(dir) = n) <=> (dir.dirFull = 1)
    BY <1>1 DEF NumberOfFiles
  <1> HIDE DEF n, t
  <1>3. ASSUME NEW i \in 1 .. n
        PROVE  (t + i - 1) % n = IF t + i - 1 < n THEN t + i - 1 ELSE t + i - 1 - n
    <2>1. PICK j \in Nat : j = t + i - 1
      BY <1>1
    <2>2. j < 2 * n
      BY <1>1, <2>1
    <2>3. j % n = IF j < n THEN j ELSE j - n
      BY <1>1, <2>2, WrappedIndex
    <2> QED
      BY <1>1, <2>1, <2>3
  <1>4. \A i \in 1 .. n :
           (IF t + i - 1 < n THEN t + i - 1 ELSE t + i - 1 - n) \in 0 .. n - 1
    BY <1>1
  <1>5. \A i \in 1 .. n : SlotOf(dir, i) = (t + i - 1) % n
    BY DEF SlotOf, n, t
  <1>6. \A i \in 1 .. n :
           SlotOf(dir, i) = IF t + i - 1 < n THEN t + i - 1 ELSE t + i - 1 - n
    BY <1>3, <1>5
  <1>7. \A i \in 1 .. n : SlotOf(dir, i) \in 0 .. n - 1
    BY <1>4, <1>6
  <1> QED
    BY <1>2, <1>6, <1>7 DEF n, t

(* FS_WriteDirectoryToRoot puts the head slot behind the others; in a full *)
(* ring it was the first.                                                  *)
LEMMA RingAfterWrite ==
    ASSUME NEW dir \in Directory, DirectoryWellFormed(dir),
           NEW new, new = AfterWrite(dir),
           NEW n, n = NumberOfFiles(dir)
    PROVE  /\ n < dir.maxFiles =>
                 /\ NumberOfFiles(new) = n + 1
                 /\ \A i \in 1 .. n : SlotOf(new, i) = SlotOf(dir, i)
                 /\ SlotOf(new, n + 1) = dir.head
           /\ n = dir.maxFiles =>
                 /\ NumberOfFiles(new) = n
                 /\ \A i \in 1 .. n - 1 : SlotOf(new, i) = SlotOf(dir, i + 1)
                 /\ SlotOf(new, n) = dir.head
                 /\ SlotOf(dir, 1) = dir.head
  <1>1. /\ new \in Directory
        /\ DirectoryWellFormed(new)
    BY DirectoryUpdates
  <1>2. /\ dir.maxFiles \in Nat \ {0}
        /\ dir.head \in 0 .. dir.maxFiles - 1
        /\ dir.tail \in 0 .. dir.maxFiles - 1
        /\ dir.dirFull \in {0, 1}
        /\ dir.dirFull = 1 => dir.head = dir.tail
    BY DEF Directory, DirectoryWellFormed
  <1>3. /\ new.maxFiles = dir.maxFiles
        /\ new.head = IF dir.head + 1 = dir.maxFiles THEN 0 ELSE dir.head + 1
        /\ new.tail = IF dir.dirFull = 1
                      THEN IF dir.tail + 1 = dir.maxFiles THEN 0 ELSE dir.tail + 1
                      ELSE dir.tail
        /\ new.dirFull = IF new.head = new.tail THEN 1 ELSE dir.dirFull
    <2>1. /\ (dir.head + 1) % dir.maxFiles
                 = IF dir.head + 1 = dir.maxFiles THEN 0 ELSE dir.head + 1
          /\ (dir.tail + 1) % dir.maxFiles
                 = IF dir.tail + 1 = dir.maxFiles THEN 0 ELSE dir.tail + 1
      BY <1>2, NextIndex
    <2> QED
      BY <2>1 DEF AfterWrite, Directory
  <1>4. /\ n \in 0 .. dir.maxFiles
        /\ (n = dir.maxFiles) <=> (dir.dirFull = 1)
        /\ \A i \in 1 .. dir.maxFiles :
              /\ SlotOf(dir, i) = IF dir.tail + i - 1 < dir.maxFiles
                                  THEN dir.tail + i - 1
                                  ELSE dir.tail + i - 1 - dir.maxFiles
              /\ SlotOf(new, i) = IF new.tail + i - 1 < dir.maxFiles
                                  THEN new.tail + i - 1
                                  ELSE new.tail + i - 1 - dir.maxFiles
    BY <1>1, <1>3, RingSlots
  <1>5. CASE n < dir.maxFiles
    <2>1. n = IF dir.head >= dir.tail THEN dir.head - dir.tail
              ELSE dir.maxFiles + dir.head - dir.tail
      BY <1>2, <1>4, <1>5 DEF NumberOfFiles
    <2>2. NumberOfFiles(new) = n + 1
      BY <1>2, <1>3, <1>4, <1>5, <2>1 DEF NumberOfFiles
    <2>3. \A i \in 1 .. n : SlotOf(new, i) = SlotOf(dir, i)
      BY <1>2, <1>3, <1>4, <1>5
    <2>4. SlotOf(new, n + 1) = dir.head
      BY <1>2, <1>3, <1>4, <1>5, <2>1
    <2> QED
      BY <1>2, <1>5, <2>2, <2>3, <2>4
  <1>6. CASE n = dir.maxFiles
    <2>1. NumberOfFiles(new) = n
      BY <1>2, <1>3, <1>4, <1>6 DEF NumberOfFiles
    <2>2. ASSUME NEW i \in 1 .. n - 1
          PROVE  SlotOf(new, i) = SlotOf(dir, i + 1)
      <3>1. i \in 1 .. dir.maxFiles /\ i + 1 \in 1 .. dir.maxFiles
        BY <1>2, <1>6
      <3>2. (i + 1) - 1 = i
        BY <3>1
      <3> QED
        BY <1>2, <1>3, <1>4, <1>6, <3>1, <3>2
    <2>3. SlotOf(new, n) = dir.head /\ SlotOf(dir, 1) = dir.head
      BY <1>2, <1>3, <1>4, <1>6
    <2> QED
      BY <1>2, <1>6, <2>1, <2>2, <2>3
  <1> QED
    BY <1>2, <1>4, <1>5, <1>6

(* FS_DeleteOldestFileInDirectory takes the first slot away.               *)
LEMMA RingAfterDelete ==
    ASSUME NEW dir \in Directory, DirectoryWellFormed(dir),
           NumberOfFiles(dir) # 0,
           NEW new, new = AfterDelete(dir)
    PROVE  /\ NumberOfFiles(new) = NumberOfFiles(dir) - 1
           /\ \A i \in 1 .. NumberOfFiles(dir) - 1 :
                 SlotOf(new, i) = SlotOf(dir, i + 1)
  <1>1. /\ new \in Directory
        /\ DirectoryWellFormed(new)
    BY DirectoryUpdates
  <1>2. /\ dir.maxFiles \in Nat \ {0}
        /\ dir.head \in 0 .. dir.maxFiles - 1
        /\ dir.tail \in 0 .. dir.maxFiles - 1
        /\ dir.dirFull \in {0, 1}
        /\ dir.dirFull = 1 => dir.head = dir.tail
    BY DEF Directory, DirectoryWellFormed
  <1>3. /\ new.maxFiles = dir.maxFiles
        /\ new.head = dir.head
        /\ new.tail = IF dir.tail + 1 = dir.maxFiles THEN 0 ELSE dir.tail + 1
        /\ new.dirFull = 0
    <2>1. (dir.tail + 1) % dir.maxFiles
              = IF dir.tail + 1 = dir.maxFiles THEN 0 ELSE dir.tail + 1
      BY <1>2, NextIndex
    <2> QED
      BY <2>1 DEF AfterDelete, Directory
  <1>4. /\ NumberOfFiles(dir) \in 0 .. dir.maxFiles
        /\ \A i \in 1 .. dir.maxFiles :
              /\ SlotOf(dir, i) = IF dir.tail + i - 1 < dir.maxFiles
                                  THEN dir.tail + i - 1
                                  ELSE dir.tail + i - 1 - dir.maxFiles
              /\ SlotOf(new, i) = IF new.tail + i - 1 < dir.maxFiles
                                  THEN new.tail + i - 1
                                  ELSE new.tail + i - 1 - dir.maxFiles
    BY <1>1, <1>3, RingSlots
  <1>5. NumberOfFiles(new) = NumberOfFiles(dir) - 1
    BY <1>2, <1>3 DEF NumberOfFiles
  <1>6. \A i \in 1 .. NumberOfFiles(dir) - 1 : SlotOf(new, i) = SlotOf(dir, i + 1)
    BY <1>2, <1>3, <1>4
  <1> QED
    BY <1>5, <1>6

(* The blocks of a slot are blocks of the device, and not the root block.  *)
LEMMA SlotOnDevice ==
    ASSUME NEW dir \in Directory, DirectoryWellFormed(dir),
           NEW slot \in 0 .. dir.maxFiles - 1,
           NEW k \in 0 .. SlotBlocks(dir) - 1
    PROVE  /\ HeaderBlock(dir, slot) \in Blocks \ {0}
           /\ HeaderBlock(dir, slot) + k \in Blocks \ {0}
  <1> DEFINE w == SlotBlocks(dir)
  <1>1. /\ w \in Nat /\ w >= 1
        /\ dir.maxFiles \in Nat
        /\ dir.firstBlock \in Nat /\ dir.firstBlock >= 1
        /\ slot \in Nat /\ slot < dir.maxFiles
    BY SlotBlocksType DEF Directory, DirectoryWellFormed
  <1>2. slot * w \in Nat /\ dir.maxFiles * w \in Nat
    BY <1>1
  <1>3. slot * w + k < dir.maxFiles * w
    BY <1>1, SlotsApart
  <1>4. dir.firstBlock + dir.maxFiles * w <= TotalBlocks
    BY DEF DirectoryWellFormed, HeaderBlock
  <1> HIDE DEF w
  <1>5. HeaderBlock(dir, slot) = dir.firstBlock + slot * w
    BY DEF HeaderBlock, w
  <1>6. k \in Nat
    BY <1>1 DEF w
  <1> QED
    BY <1>1, <1>2, <1>3, <1>4, <1>5, <1>6, TotalBlocksAssumption DEF Blocks

-----------------------------------------------------------------------------
(* Reading a slot.                                                         *)

(* A header that fits: the file it announces ends within the slot.         *)
HeaderFits(block, dir) ==
    block.kind = "header" => block.size \in Nat /\ block.size <= dir.maxFileSize

(* What is found in a slot depends on the blocks of the slot only.         *)
LEMMA SameSlot ==
    ASSUME NEW dir \in Directory, NEW slot \in Nat, NEW d, NEW e,
           HeaderFits(d[HeaderBlock(dir, slot)], dir),
           \A k \in 0 .. SlotBlocks(dir) - 1 :
              e[HeaderBlock(dir, slot) + k] = d[HeaderBlock(dir, slot) + k]
    PROVE  FileIn(e, dir, slot) = FileIn(d, dir, slot)
  <1> DEFINE at == HeaderBlock(dir, slot)
  <1>1. at \in Nat
    <2>1. /\ SlotBlocks(dir) \in Nat
          /\ dir.firstBlock \in Nat
      BY SlotBlocksType DEF Directory
    <2>2. slot * SlotBlocks(dir) \in Nat
      BY <2>1
    <2> QED
      BY <2>1, <2>2 DEF HeaderBlock
  <1>2. SlotBlocks(dir) \in Nat /\ SlotBlocks(dir) >= 1
    BY SlotBlocksType
  <1>3. \A k \in 0 .. SlotBlocks(dir) - 1 : e[at + k] = d[at + k]
    OBVIOUS
  <1> HIDE DEF at
  <1>4. e[at] = d[at]
    BY <1>1, <1>2, <1>3
  <1>5. CASE d[at].kind # "header"
    BY <1>4, <1>5 DEF FileIn, at
  <1>6. CASE d[at].kind = "header"
    <2>1. NumBlocks(d[at].size) \in Nat
          /\ NumBlocks(d[at].size) <= SlotBlocks(dir) - 1
      <3>1. dir.maxFileSize \in Nat
        BY DEF Directory
      <3>2. d[at].size \in Nat /\ d[at].size <= dir.maxFileSize
        BY <1>6 DEF HeaderFits, at
      <3>3. /\ NumBlocks(d[at].size) \in Nat
            /\ NumBlocks(dir.maxFileSize) \in Nat
            /\ NumBlocks(d[at].size) <= NumBlocks(dir.maxFileSize)
        BY <3>1, <3>2, NumBlocksProperties
      <3> QED
        BY <3>3 DEF SlotBlocks
    <2>2. \A i \in 1 .. NumBlocks(d[at].size) : e[at + i] = d[at + i]
      BY <1>2, <1>3, <2>1
    <2> QED
      BY <1>4, <2>2 DEF FileIn, at
  <1> QED
    BY <1>5, <1>6

(* So does what is found in all slots in use of a directory.               *)
LEMMA SameSlots ==
    ASSUME NEW dir \in Directory, DirectoryWellFormed(dir), NEW d, NEW e,
           \A b \in Blocks \ {0} : HeaderFits(d[b], dir) /\ e[b] = d[b]
    PROVE  \A slot \in 0 .. dir.maxFiles - 1 :
              FileIn(e, dir, slot) = FileIn(d, dir, slot)
  <1> SUFFICES ASSUME NEW slot \in 0 .. dir.maxFiles - 1
               PROVE  FileIn(e, dir, slot) = FileIn(d, dir, slot)
    OBVIOUS
  <1>1. \A k \in 0 .. SlotBlocks(dir) - 1 :
           HeaderBlock(dir, slot) + k \in Blocks \ {0}
    BY SlotOnDevice
  <1>2. HeaderBlock(dir, slot) \in Blocks \ {0}
    <2>1. 0 \in 0 .. SlotBlocks(dir) - 1
      BY SlotBlocksType
    <2> QED
      BY <2>1, SlotOnDevice
  <1>3. slot \in Nat
    BY DEF Directory
  <1> QED
    BY <1>1, <1>2, <1>3, SameSlot

(* A file found in a slot is the one of its header, or none.               *)
LEMMA FileInSlot ==
    ASSUME NEW dir, NEW slot, NEW d
    PROVE  \/ FileIn(d, dir, slot) = Torn
           \/ /\ d[HeaderBlock(dir, slot)].kind = "header"
              /\ FileIn(d, dir, slot) = d[HeaderBlock(dir, slot)].file
  BY DEF FileIn

-----------------------------------------------------------------------------
(* The invariant of a disk that keeps its blocks, for one directory.       *)

(* The next mount finds no directory, or the one that was asked for, right *)
(* behind the root block.                                                  *)
OneDirectoryOnDisk ==
    /\ Len(disk[0].dirs) <= 1
    /\ \A x \in DOMAIN disk[0].dirs :
          /\ disk[0].dirs[x].dirName = TheEntry.dirName
          /\ disk[0].dirs[x].maxFiles = TheEntry.maxFiles
          /\ disk[0].dirs[x].maxFileSize = TheEntry.maxFileSize
          /\ disk[0].dirs[x].firstBlock = 1

(* Every other block belongs to a file that was begun, and no file is      *)
(* larger than the directory takes.                                        *)
FileBlockOK(block) ==
    /\ block \in FileBlock
    /\ block.kind # "zero" => block.file \in 1 .. fileCount
    /\ block.kind = "header" => block.size <= TheEntry.maxFileSize

FileBlocksOK == \A b \in Blocks \ {0} : FileBlockOK(disk[b])

(* Block number k of the slot that is being written, as far as it is.      *)
BlocksWritten ==
    IF op.step = "data" THEN op.next - 1 ELSE NumBlocks(op.size)

(* The write in progress: the newest file has blocks in its own slot only, *)
(* the data blocks before next are written, and the header once they all   *)
(* are.                                                                    *)
WriteInProgress ==
    op # Idle =>
        /\ mount
        /\ op.file = fileCount
        /\ fileCount >= 1
        /\ \A b \in Blocks \ {0} :
              disk[b].kind # "zero" /\ disk[b].file = op.file =>
                 b - OpHeaderBlock \in 0 .. SlotBlocks(Dirs[op.dir]) - 1
        /\ \A i \in 1 .. BlocksWritten :
              disk[OpHeaderBlock + i]
                 = [kind |-> "data", file |-> op.file, index |-> i]
        /\ IF op.step = "root"
           THEN disk[OpHeaderBlock]
                   = [kind |-> "header", file |-> op.file, size |-> op.size]
           ELSE disk[OpHeaderBlock].kind = "header" =>
                   disk[OpHeaderBlock].file # op.file

FifoInv ==
    /\ IInv
    /\ CacheMatchesMedia
    /\ OneDirectoryOnDisk
    /\ FileBlocksOK
    /\ WriteInProgress

(* What the disk assumptions leave of a block write.                       *)
LEMMA KeptRootWrite ==
    ASSUME IInv, DiskKeepsBlocks, NEW root, WriteRootBlock(root)
    PROVE  /\ rootBlock' = root
           /\ disk' = [disk EXCEPT ![0] = root]
           /\ disk'[0] = root
           /\ \A b \in Blocks \ {0} : disk'[b] = disk[b]
  BY TotalBlocksAssumption DEF WriteRootBlock, DiskKeepsBlocks, IInv, Blocks

(* ... and of the write of a block of a file.                              *)
LEMMA KeptFileWrite ==
    ASSUME IInv, DiskKeepsBlocks, NEW block \in Blocks \ {0},
           NEW content \in FileBlock, NEW nextOp \in WriteOp,
           WriteFileBlock(block, content, nextOp)
    PROVE  /\ disk'[block] = content
           /\ \A b \in Blocks \ {block} : disk'[b] = disk[b]
           /\ op' \in WriteOp
           /\ op'.step = nextOp.step
           /\ op'.dir = nextOp.dir
           /\ op'.file = nextOp.file
           /\ op'.size = nextOp.size
           /\ op'.next = nextOp.next
           /\ UNCHANGED <<rootBlock, init, mount, result, fileCount>>
  <1>1. PICK w \in WriteOutcomes :
            /\ disk' = IF w.done THEN [disk EXCEPT ![block] = content] ELSE disk
            /\ op' = [nextOp EXCEPT !.failed = @ \/ w.result = -1]
            /\ UNCHANGED <<rootBlock, init, mount, result, fileCount>>
    BY DEF WriteFileBlock
  <1>2. w.done
    BY DEF DiskKeepsBlocks
  <1>3. PICK failed \in BOOLEAN : op' = [nextOp EXCEPT !.failed = failed]
    <2>1. (nextOp.failed \/ w.result = -1) \in BOOLEAN
      OBVIOUS
    <2> QED
      BY <1>1, <2>1
  <1>4. op' \in WriteOp
    BY <1>3, Zenon DEF WriteOp
  <1>5. /\ op'.dir = nextOp.dir
        /\ op'.file = nextOp.file
        /\ op'.size = nextOp.size
        /\ op'.step = nextOp.step
        /\ op'.next = nextOp.next
    BY <1>3 DEF WriteOp
  <1>6. disk' = [disk EXCEPT ![block] = content]
    BY <1>1, <1>2
  <1>7. /\ disk'[block] = content
        /\ \A b \in Blocks \ {block} : disk'[b] = disk[b]
    BY <1>6 DEF IInv
  <1> QED
    BY <1>1, <1>4, <1>5, <1>7

(* The blocks that WriteData and WriteHeader write and what else they do.  *)
LEMMA DataWritten ==
    ASSUME IInv, DiskKeepsBlocks, WriteData
    PROVE  /\ op \in WriteOp /\ op # Idle /\ op.step = "data"
           /\ op.next \in 1 .. NumBlocks(op.size)
           /\ NumBlocks(op.size) \in 0 .. SlotBlocks(Dirs[op.dir]) - 1
           /\ OpHeaderBlock + op.next \in Blocks \ {0}
           /\ disk'[OpHeaderBlock + op.next]
                 = [kind |-> "data", file |-> op.file, index |-> op.next]
           /\ \A b \in Blocks \ {OpHeaderBlock + op.next} : disk'[b] = disk[b]
           /\ op' \in WriteOp
           /\ op'.dir = op.dir /\ op'.file = op.file /\ op'.size = op.size
           /\ \/ /\ op.next = NumBlocks(op.size)
                 /\ op'.step = "header"
                 /\ op'.next = op.next
              \/ /\ op.next # NumBlocks(op.size)
                 /\ op'.step = "data"
                 /\ op'.next = op.next + 1
           /\ UNCHANGED <<rootBlock, init, mount, result, fileCount>>
  <1> DEFINE content == [kind |-> "data", file |-> op.file, index |-> op.next]
             nextOp == IF op.next = NumBlocks(op.size)
                       THEN [op EXCEPT !.step = "header"]
                       ELSE [op EXCEPT !.next = @ + 1]
             dir == Dirs[op.dir]
  <1>1. op # Idle /\ op.step = "data"
    BY DEF WriteData, Idle
  <1>2. /\ op \in WriteOp
        /\ dir \in Directory
        /\ DirectoryWellFormed(dir)
    BY <1>1, OpDirectory
  <1>3. /\ op.size \in Nat /\ dir.maxFileSize \in Nat
        /\ op.size <= dir.maxFileSize
        /\ op.next \in 1 .. NumBlocks(op.size)
    BY <1>1, <1>2 DEF IInv, OpOK, WriteOp, Directory
  <1>4. /\ NumBlocks(op.size) \in 0 .. SlotBlocks(dir) - 1
        /\ op.next \in 0 .. SlotBlocks(dir) - 1
    <2>1. /\ NumBlocks(op.size) \in Nat
          /\ NumBlocks(dir.maxFileSize) \in Nat
          /\ NumBlocks(op.size) <= NumBlocks(dir.maxFileSize)
      BY <1>3, NumBlocksProperties
    <2> QED
      BY <1>3, <2>1 DEF SlotBlocks
  <1>5. OpHeaderBlock + op.next \in Blocks \ {0}
    BY <1>2, <1>4, SlotOnDevice DEF OpHeaderBlock, DirectoryWellFormed
  <1>6. content \in FileBlock
    BY <1>2 DEF WriteOp, FileBlock
  <1>7. /\ nextOp \in WriteOp
        /\ nextOp.dir = op.dir /\ nextOp.file = op.file /\ nextOp.size = op.size
        /\ \/ /\ op.next = NumBlocks(op.size)
              /\ nextOp.step = "header"
              /\ nextOp.next = op.next
           \/ /\ op.next # NumBlocks(op.size)
              /\ nextOp.step = "data"
              /\ nextOp.next = op.next + 1
    <2>1. CASE op.next = NumBlocks(op.size)
      BY <1>2, <2>1 DEF WriteOp
    <2>2. CASE op.next # NumBlocks(op.size)
      BY <1>1, <1>2, <1>3, <2>2 DEF WriteOp
    <2> QED
      BY <2>1, <2>2
  <1>8. WriteFileBlock(OpHeaderBlock + op.next, content, nextOp)
    BY DEF WriteData
  <1> HIDE DEF nextOp
  <1> QED
    BY <1>1, <1>2, <1>3, <1>4, <1>5, <1>6, <1>7, <1>8, KeptFileWrite

(* The same of the header block.                                           *)
LEMMA HeaderWritten ==
    ASSUME IInv, DiskKeepsBlocks, WriteHeader
    PROVE  /\ op \in WriteOp /\ op # Idle /\ op.step = "header"
           /\ NumBlocks(op.size) \in 0 .. SlotBlocks(Dirs[op.dir]) - 1
           /\ op.size <= Dirs[op.dir].maxFileSize
           /\ OpHeaderBlock \in Blocks \ {0}
           /\ disk'[OpHeaderBlock]
                 = [kind |-> "header", file |-> op.file, size |-> op.size]
           /\ \A b \in Blocks \ {OpHeaderBlock} : disk'[b] = disk[b]
           /\ op' \in WriteOp
           /\ op'.dir = op.dir /\ op'.file = op.file /\ op'.size = op.size
           /\ op'.step = "root"
           /\ UNCHANGED <<rootBlock, init, mount, result, fileCount>>
  <1> DEFINE content == [kind |-> "header", file |-> op.file, size |-> op.size]
             nextOp == [op EXCEPT !.step = "root"]
             dir == Dirs[op.dir]
  <1>1. op # Idle /\ op.step = "header"
    BY DEF WriteHeader, Idle
  <1>2. /\ op \in WriteOp
        /\ dir \in Directory
        /\ DirectoryWellFormed(dir)
    BY <1>1, OpDirectory
  <1>3. /\ op.size \in Nat /\ dir.maxFileSize \in Nat
        /\ op.size <= dir.maxFileSize
    BY <1>1, <1>2 DEF IInv, OpOK, WriteOp, Directory
  <1>4. NumBlocks(op.size) \in 0 .. SlotBlocks(dir) - 1
    <2>1. /\ NumBlocks(op.size) \in Nat
          /\ NumBlocks(dir.maxFileSize) \in Nat
          /\ NumBlocks(op.size) <= NumBlocks(dir.maxFileSize)
      BY <1>3, NumBlocksProperties
    <2> QED
      BY <1>3, <2>1 DEF SlotBlocks
  <1>5. OpHeaderBlock \in Blocks \ {0}
    <2>1. 0 \in 0 .. SlotBlocks(dir) - 1
      BY <1>2, SlotBlocksType
    <2> QED
      BY <1>2, <2>1, SlotOnDevice DEF OpHeaderBlock, DirectoryWellFormed
  <1>6. content \in FileBlock
    BY <1>2 DEF WriteOp, FileBlock
  <1>7. /\ nextOp \in WriteOp
        /\ nextOp.dir = op.dir /\ nextOp.file = op.file /\ nextOp.size = op.size
        /\ nextOp.step = "root"
    BY <1>2 DEF WriteOp
  <1>8. WriteFileBlock(OpHeaderBlock, content, nextOp)
    BY DEF WriteHeader
  <1> HIDE DEF nextOp
  <1> QED
    BY <1>1, <1>2, <1>3, <1>4, <1>5, <1>6, <1>7, <1>8, KeptFileWrite

-----------------------------------------------------------------------------
(* What the steps of Next other than those of a write in progress do to    *)
(* the disk.                                                               *)

Quiet ==
    /\ UNCHANGED <<disk, fileCount>>
    /\ op' = Idle \/ UNCHANGED <<op, rootBlock, mount>>

RootCall(root) ==
    /\ op = Idle
    /\ WriteRootBlock(root)
    /\ UNCHANGED <<mount, op, fileCount>>

Formatted == [sig |-> TRUE, storageNumBlocks |-> TotalBlocks, dirs |-> <<>>]

NewRing(entry) ==
    [dirName |-> entry.dirName, maxFiles |-> entry.maxFiles,
     maxFileSize |-> entry.maxFileSize, firstBlock |-> 1,
     head |-> 0, tail |-> 0, dirFull |-> 0]

DirectoryAdded ==
    /\ mount
    /\ Dirs = <<>>
    /\ RootCall([rootBlock EXCEPT !.dirs = <<NewRing(TheEntry)>>])

OldestDeleted ==
    /\ mount
    /\ Len(Dirs) = 1
    /\ NumberOfFiles(Dirs[1]) # 0
    /\ RootCall([rootBlock EXCEPT !.dirs[1] = AfterDelete(@)])

WriteBegun ==
    /\ op = Idle
    /\ mount
    /\ Len(Dirs) = 1
    /\ fileCount' = fileCount + 1
    /\ \E size \in Sizes :
          /\ size <= Dirs[1].maxFileSize
          /\ op' = [step |-> IF size = 0 THEN "header" ELSE "data",
                    dir |-> 1, file |-> fileCount + 1,
                    size |-> size, next |-> 1, failed |-> FALSE]
    /\ UNCHANGED <<disk, rootBlock, init, mount>>

(* The directory of the mounted root block, when there is one.             *)
LEMMA TheDirectory ==
    ASSUME IInv, OneDirectoryOnDisk, rootBlock = disk[0], NEW x \in DOMAIN Dirs
    PROVE  /\ x = 1 /\ Len(Dirs) = 1
           /\ Dirs[1] \in Directory
           /\ DirectoryWellFormed(Dirs[1])
           /\ Dirs[1].dirName = TheEntry.dirName
           /\ Dirs[1].maxFiles = TheEntry.maxFiles
           /\ Dirs[1].maxFileSize = TheEntry.maxFileSize
           /\ Dirs[1].firstBlock = 1
  <1>1. Dirs \in Seq(Directory) /\ Len(Dirs) <= 1
    BY DEF IInv, RootOK, RootBlock, Dirs, OneDirectoryOnDisk
  <1>2. x = 1 /\ Len(Dirs) = 1
    <2>1. PICK n \in Nat : n = Len(Dirs) /\ DOMAIN Dirs = 1 .. n
      BY <1>1
    <2> QED
      BY <1>1, <2>1
  <1>3. /\ Dirs[1] \in Directory
        /\ DirectoryWellFormed(Dirs[1])
    BY <1>1, <1>2 DEF IInv, RootOK, Dirs
  <1>4. /\ Dirs[1].dirName = TheEntry.dirName
        /\ Dirs[1].maxFiles = TheEntry.maxFiles
        /\ Dirs[1].maxFileSize = TheEntry.maxFileSize
        /\ Dirs[1].firstBlock = 1
    BY <1>1, <1>2 DEF OneDirectoryOnDisk, Dirs
  <1> QED
    BY <1>2, <1>3, <1>4

(* The calls of a client of one directory. FS_AddDirectory refuses or adds *)
(* the directory to an empty root block: a second one would have the name  *)
(* of the first.                                                           *)
LEMMA AddDirectoryKind ==
    ASSUME OneDirectoryAsked, IInv, CacheMatchesMedia, OneDirectoryOnDisk,
           NEW entry \in DirEntries, FS_AddDirectory(entry)
    PROVE  Return(-1) \/ DirectoryAdded
  <1>1. CASE Return(-1)
    BY <1>1
  <1>2. CASE ~Return(-1)
    <2>1. /\ op = Idle
          /\ ~RefusesDirectory(entry)
          /\ WriteRootBlock([rootBlock EXCEPT !.dirs = Append(@,
                [dirName |-> entry.dirName, maxFiles |-> entry.maxFiles,
                 maxFileSize |-> entry.maxFileSize,
                 firstBlock |-> NextBlock(entry),
                 head |-> 0, tail |-> 0, dirFull |-> 0])])
          /\ UNCHANGED <<init, mount, op, fileCount>>
      BY <1>2 DEF FS_AddDirectory
    <2>2. entry = TheEntry /\ entry \in DirEntry
      BY ClientAssumption DEF OneDirectoryAsked
    <2>3. /\ mount /\ rootBlock = disk[0]
          /\ FS_IsFileSystemReady
          /\ ~FS_GetDirectoryByName(entry.dirName)
      BY <2>1 DEF RefusesDirectory, FS_IsFileSystemReady, CacheMatchesMedia
    <2>4. Dirs = <<>>
      <3>1. SUFFICES ASSUME Dirs # <<>> PROVE FALSE
        OBVIOUS
      <3>2. Dirs \in Seq(Directory)
        BY DEF IInv, RootOK, RootBlock, Dirs
      <3>3. 1 \in DOMAIN Dirs
        BY <3>1, <3>2
      <3>4. Dirs[1].dirName = entry.dirName
        BY <2>2, <2>3, <3>3, TheDirectory
      <3>5. Matches(entry.dirName, Dirs[1])
        BY <2>2, <3>4, PrefixOfAssumption DEF Matches, DirEntry
      <3> QED
        BY <2>3, <3>3, <3>5 DEF FS_GetDirectoryByName
    <2>5. NextBlock(entry) = 1
      <3>1. NumBlocks(entry.maxFileSize) \in Nat
        BY <2>2, NumBlocksProperties DEF DirEntry
      <3> QED
        BY <2>4, <3>1 DEF NextBlock
    <2>6. WriteRootBlock([rootBlock EXCEPT !.dirs = <<NewRing(TheEntry)>>])
      <3>1. Append(rootBlock.dirs, NewRing(TheEntry)) = <<NewRing(TheEntry)>>
        BY <2>4 DEF Dirs
      <3>2. [rootBlock EXCEPT !.dirs = Append(@, NewRing(TheEntry))]
               = [rootBlock EXCEPT !.dirs = <<NewRing(TheEntry)>>]
        BY <3>1
      <3>3. WriteRootBlock([rootBlock EXCEPT !.dirs = Append(@, NewRing(TheEntry))])
        BY <2>1, <2>2, <2>5 DEF NewRing
      <3> QED
        BY <3>2, <3>3
    <2> QED
      BY <2>1, <2>3, <2>4, <2>6 DEF DirectoryAdded, RootCall
  <1> QED
    BY <1>1, <1>2

(* FS_DeleteOldestFileInDirectory deletes, unless there is nothing to      *)
(* delete.                                                                 *)
LEMMA DeleteOldestKind ==
    ASSUME IInv, CacheMatchesMedia, OneDirectoryOnDisk,
           NEW name \in Names, FS_DeleteOldestFileInDirectory(name)
    PROVE  \/ /\ Return(-1)
              /\ ~(init /\ mount /\ Len(Dirs) = 1 /\ NumberOfFiles(Dirs[1]) # 0)
           \/ OldestDeleted
  <1> DEFINE Deletes(x) ==
               /\ WriteRootBlock([rootBlock EXCEPT !.dirs[x] = AfterDelete(@)])
               /\ UNCHANGED <<init, mount, op, fileCount>>
  <1>1. \/ (~FS_IsFileSystemReady \/ Dirs = <<>>) /\ Return(-1)
        \/ \E x \in DOMAIN Dirs :
              \/ NumberOfFiles(Dirs[x]) = 0 /\ Return(-1)
              \/ /\ FS_IsFileSystemReady
                 /\ NumberOfFiles(Dirs[x]) # 0
                 /\ Deletes(x)
    BY DEF FS_DeleteOldestFileInDirectory, FS_GetDirectoryFromName
  <1>2. op = Idle
    BY DEF FS_DeleteOldestFileInDirectory
  <1> HIDE DEF Deletes
  <1>3. CASE (~FS_IsFileSystemReady \/ Dirs = <<>>) /\ Return(-1)
    BY <1>3 DEF FS_IsFileSystemReady
  <1>4. ASSUME NEW x \in DOMAIN Dirs, NumberOfFiles(Dirs[x]) = 0, Return(-1)
        PROVE  ~(init /\ mount /\ Len(Dirs) = 1 /\ NumberOfFiles(Dirs[1]) # 0)
    BY <1>4, TheDirectory DEF CacheMatchesMedia
  <1>5. ASSUME NEW x \in DOMAIN Dirs, FS_IsFileSystemReady,
               NumberOfFiles(Dirs[x]) # 0, Deletes(x)
        PROVE  OldestDeleted
    <2>1. mount
      BY <1>5 DEF FS_IsFileSystemReady
    <2>2. x = 1 /\ Len(Dirs) = 1
      BY <2>1, TheDirectory DEF CacheMatchesMedia
    <2> QED
      BY <1>2, <1>5, <2>1, <2>2 DEF OldestDeleted, RootCall, Deletes
  <1> QED
    BY <1>1, <1>3, <1>4, <1>5

(* FS_WriteFile refuses or begins to write.                                *)
LEMMA WriteFileKind ==
    ASSUME IInv, CacheMatchesMedia, OneDirectoryOnDisk,
           NEW name \in Names, NEW size \in Sizes, FS_WriteFile(name, size)
    PROVE  Return(-1) \/ WriteBegun
  <1>1. CASE Return(-1)
    BY <1>1
  <1>2. CASE ~Return(-1)
    <2>1. PICK x \in DOMAIN Dirs :
             /\ mount
             /\ size <= Dirs[x].maxFileSize
             /\ fileCount' = fileCount + 1
             /\ op' = [step |-> IF size = 0 THEN "header" ELSE "data",
                       dir |-> x, file |-> fileCount + 1,
                       size |-> size, next |-> 1, failed |-> FALSE]
             /\ UNCHANGED <<disk, rootBlock, init, mount, result>>
      BY <1>2 DEF FS_WriteFile, FS_GetDirectoryFromName,
                        FS_IsFileSystemReady
    <2>2. x = 1 /\ Len(Dirs) = 1
      BY <2>1, TheDirectory DEF CacheMatchesMedia
    <2> QED
      BY <2>1, <2>2 DEF WriteBegun, FS_WriteFile
  <1> QED
    BY <1>1, <1>2

(* Every step of the file system is one of these.                         *)
LEMMA StepKinds ==
    ASSUME DiskKeepsBlocks, OneDirectoryAsked,
           IInv, CacheMatchesMedia, OneDirectoryOnDisk, [Next]_vars
    PROVE  \/ Quiet \/ RootCall(Formatted) \/ DirectoryAdded \/ OldestDeleted
           \/ WriteBegun \/ WriteData \/ WriteHeader \/ WriteDirectory
  <1>1. \A r : Return(r) => Quiet
    BY DEF Return, Quiet
  <1>2. CASE FS_Init
    BY <1>2 DEF FS_Init, Quiet
  <1>3. CASE FS_Mount
    BY <1>1, <1>3 DEF FS_Mount, Quiet
  <1>4. CASE FS_Format
    BY <1>1, <1>4 DEF FS_Format, RootCall, Formatted
  <1>5. ASSUME NEW entry \in DirEntries, FS_AddDirectory(entry)
        PROVE  Quiet \/ DirectoryAdded
    BY <1>1, <1>5, AddDirectoryKind
  <1>6. ASSUME NEW name \in Names, FS_DeleteOldestFileInDirectory(name)
        PROVE  Quiet \/ OldestDeleted
    BY <1>1, <1>6, DeleteOldestKind
  <1>7. ASSUME NEW name \in Names, NEW size \in Sizes,
               FS_WriteFile(name, size)
        PROVE  Quiet \/ WriteBegun
    BY <1>1, <1>7, WriteFileKind
  <1>8. CASE Crash
    BY <1>8 DEF Crash, Quiet
  <1>9. CASE RestartDiskHost
    BY <1>9 DEF RestartDiskHost, DiskKeepsBlocks
  <1>10. CASE UNCHANGED vars
    BY <1>10 DEF vars, Quiet
  <1> QED
    BY <1>2, <1>3, <1>4, <1>5, <1>6, <1>7, <1>8, <1>9, <1>10 DEF Next

(* The cache of a mounted file system stays the block on the disk.         *)
LEMMA CacheNext ==
    ASSUME DiskKeepsBlocks, IInv, CacheMatchesMedia, [Next]_vars
    PROVE  CacheMatchesMedia'
  <1>0. 0 \in Blocks
    BY TotalBlocksAssumption DEF Blocks
  <1>1. ASSUME NEW root, WriteRootBlock(root) PROVE CacheMatchesMedia'
    BY <1>1, KeptRootWrite DEF CacheMatchesMedia
  <1>2. ASSUME NEW r, Return(r) PROVE CacheMatchesMedia'
    BY <1>2 DEF Return, CacheMatchesMedia
  <1>3. CASE FS_Init
    BY <1>3 DEF FS_Init, CacheMatchesMedia
  <1>4. CASE FS_Mount
    BY <1>2, <1>4 DEF FS_Mount, CacheMatchesMedia
  <1>5. CASE FS_Format
    BY <1>1, <1>2, <1>5 DEF FS_Format
  <1>6. CASE \E entry \in DirEntries : FS_AddDirectory(entry)
    BY <1>1, <1>2, <1>6 DEF FS_AddDirectory
  <1>7. CASE \E name \in Names : FS_DeleteOldestFileInDirectory(name)
    BY <1>1, <1>2, <1>7 DEF FS_DeleteOldestFileInDirectory
  <1>8. CASE \E name \in Names, size \in Sizes : FS_WriteFile(name, size)
    BY <1>2, <1>8 DEF FS_WriteFile, CacheMatchesMedia
  <1>9. CASE WriteData
    BY <1>0, <1>9, DataWritten DEF CacheMatchesMedia
  <1>10. CASE WriteHeader
    BY <1>0, <1>10, HeaderWritten DEF CacheMatchesMedia
  <1>11. CASE WriteDirectory
    BY <1>1, <1>11 DEF WriteDirectory
  <1>12. CASE Crash
    BY <1>12 DEF Crash, CacheMatchesMedia
  <1>13. CASE RestartDiskHost
    BY <1>13 DEF RestartDiskHost, DiskKeepsBlocks
  <1>14. CASE UNCHANGED vars
    BY <1>14 DEF vars, CacheMatchesMedia
  <1> QED
    BY <1>3, <1>4, <1>5, <1>6, <1>7, <1>8, <1>9, <1>10, <1>11, <1>12, <1>13,
       <1>14 DEF Next

(* Queries are answered from what the next mount would find, for any       *)
(* directories: the disk keeps its blocks, and answers and reads may fail. *)
THEOREM CacheIsOnDisk ==
    ASSUME DiskKeepsBlocks PROVE Spec => []CacheMatchesMedia
  <1>1. Init => CacheMatchesMedia
    BY DEF Init, CacheMatchesMedia
  <1>2. IInv /\ CacheMatchesMedia /\ [Next]_vars => CacheMatchesMedia'
    BY CacheNext
  <1> QED
    BY <1>1, <1>2, InvInit, InvNext, PTL DEF Spec

(* The ring operations leave a directory where it is.                      *)
LEMMA SamePlace ==
    ASSUME NEW dir \in Directory, NEW new \in {AfterWrite(dir), AfterDelete(dir)}
    PROVE  /\ new.dirName = dir.dirName
           /\ new.maxFiles = dir.maxFiles
           /\ new.maxFileSize = dir.maxFileSize
           /\ new.firstBlock = dir.firstBlock
           /\ SlotBlocks(new) = SlotBlocks(dir)
           /\ \A d, slot : FileIn(d, new, slot) = FileIn(d, dir, slot)
  <1>1. /\ new.dirName = dir.dirName
        /\ new.maxFiles = dir.maxFiles
        /\ new.maxFileSize = dir.maxFileSize
        /\ new.firstBlock = dir.firstBlock
    BY DEF AfterWrite, AfterDelete, Directory
  <1>2. SlotBlocks(new) = SlotBlocks(dir)
    BY <1>1 DEF SlotBlocks
  <1>3. \A slot : HeaderBlock(new, slot) = HeaderBlock(dir, slot)
    BY <1>1, <1>2 DEF HeaderBlock
  <1>4. \A d, slot : FileIn(d, new, slot) = FileIn(d, dir, slot)
    BY <1>3 DEF FileIn
  <1> QED
    BY <1>1, <1>2, <1>4

(* A write in progress is one to the directory on the disk.                *)
LEMMA OpOnDisk ==
    ASSUME FifoInv, op # Idle
    PROVE  /\ op \in WriteOp
           /\ op.dir = 1 /\ Len(Dirs) = 1
           /\ mount /\ rootBlock = disk[0]
           /\ Dirs[1] \in Directory
           /\ DirectoryWellFormed(Dirs[1])
           /\ Dirs[1].maxFiles = TheEntry.maxFiles
           /\ Dirs[1].maxFileSize = TheEntry.maxFileSize
           /\ OpHeaderBlock = HeaderBlock(Dirs[1], Dirs[1].head)
           /\ Dirs[1].head \in 0 .. Dirs[1].maxFiles - 1
           /\ OpHeaderBlock \in Nat
           /\ SlotBlocks(Dirs[1]) \in Nat
  <1>1. mount /\ rootBlock = disk[0]
    BY DEF FifoInv, WriteInProgress, CacheMatchesMedia
  <1>2. op \in WriteOp /\ op.dir \in DOMAIN Dirs /\ OpHeaderBlock \in Nat
    BY OpDirectory DEF FifoInv
  <1>3. op.dir = 1 /\ Len(Dirs) = 1
    BY <1>1, <1>2, TheDirectory DEF FifoInv
  <1> QED
    BY <1>1, <1>2, <1>3, TheDirectory, SlotBlocksType
       DEF FifoInv, OpHeaderBlock, DirectoryWellFormed

(* The writes that replace the root block put the one directory there.     *)
LEMMA OneDirectoryNext ==
    ASSUME DiskKeepsBlocks, OneDirectoryAsked, FifoInv, [Next]_vars
    PROVE  OneDirectoryOnDisk'
  <1> USE DEF FifoInv
  <1>0. 0 \in Blocks
    BY TotalBlocksAssumption DEF Blocks
  <1>1. CASE disk'[0] = disk[0]
    BY <1>1 DEF OneDirectoryOnDisk
  <1>2. CASE RootCall(Formatted)
    BY <1>2, KeptRootWrite DEF RootCall, Formatted, OneDirectoryOnDisk
  <1>3. CASE DirectoryAdded
    <2>1. disk'[0] = [rootBlock EXCEPT !.dirs = <<NewRing(TheEntry)>>]
      BY <1>3, KeptRootWrite DEF DirectoryAdded, RootCall
    <2>2. disk'[0].dirs = <<NewRing(TheEntry)>>
      BY <2>1 DEF IInv, RootOK, RootBlock
    <2> QED
      BY <2>2 DEF OneDirectoryOnDisk, NewRing
  <1>4. ASSUME NEW new, rootBlock = disk[0], Len(Dirs) = 1,
               new \in {AfterWrite(Dirs[1]), AfterDelete(Dirs[1])},
               WriteRootBlock([rootBlock EXCEPT !.dirs[1] = new])
        PROVE  OneDirectoryOnDisk'
    <2>1. disk'[0] = [rootBlock EXCEPT !.dirs[1] = new]
      BY <1>4, KeptRootWrite
    <2>2. /\ Dirs \in Seq(Directory)
          /\ disk'[0].dirs = [Dirs EXCEPT ![1] = new]
      BY <2>1 DEF IInv, RootOK, RootBlock, Dirs
    <2>3. 1 \in DOMAIN Dirs /\ DOMAIN Dirs = {1}
      BY <1>4, <2>2
    <2>4. /\ Len(disk'[0].dirs) = 1
          /\ DOMAIN disk'[0].dirs = {1}
          /\ disk'[0].dirs[1] = new
      BY <1>4, <2>2, <2>3
    <2>5. /\ new.dirName = TheEntry.dirName
          /\ new.maxFiles = TheEntry.maxFiles
          /\ new.maxFileSize = TheEntry.maxFileSize
          /\ new.firstBlock = 1
      BY <1>4, <2>3, TheDirectory, SamePlace
    <2> QED
      BY <2>4, <2>5 DEF OneDirectoryOnDisk
  <1>5. CASE OldestDeleted
    BY <1>4, <1>5 DEF OldestDeleted, RootCall, CacheMatchesMedia, Dirs
  <1>6. CASE WriteDirectory
    <2>1. op # Idle
      BY <1>6 DEF WriteDirectory, Idle
    <2> QED
      BY <1>4, <1>6, <2>1, OpOnDisk DEF WriteDirectory, Dirs
  <1>7. CASE WriteData
    BY <1>0, <1>1, <1>7, DataWritten
  <1>8. CASE WriteHeader
    BY <1>0, <1>1, <1>8, HeaderWritten
  <1>9. CASE Quiet \/ WriteBegun
    BY <1>1, <1>9 DEF Quiet, WriteBegun
  <1> QED
    BY <1>2, <1>3, <1>5, <1>6, <1>7, <1>8, <1>9, StepKinds

(* No block is written but with the newest file.                           *)
LEMMA FileBlocksNext ==
    ASSUME DiskKeepsBlocks, OneDirectoryAsked, FifoInv, [Next]_vars
    PROVE  FileBlocksOK'
  <1> USE DEF FifoInv
  <1>0. fileCount \in Nat
    BY DEF IInv
  <1>1. CASE /\ \A b \in Blocks \ {0} : disk'[b] = disk[b]
             /\ fileCount' \in {fileCount, fileCount + 1}
    <2>1. \A block : FileBlockOK(block) => FileBlockOK(block)'
      BY <1>0, <1>1 DEF FileBlockOK
    <2>2. SUFFICES ASSUME NEW b \in Blocks \ {0}
                   PROVE  FileBlockOK(disk[b])'
      BY DEF FileBlocksOK
    <2> QED
      BY <1>0, <1>1 DEF FileBlocksOK, FileBlockOK
  <1>2. ASSUME NEW root, WriteRootBlock(root), UNCHANGED fileCount
        PROVE  FileBlocksOK'
    BY <1>1, <1>2, KeptRootWrite
  <1>3. ASSUME NEW at \in Blocks \ {0},
               \A b \in Blocks \ {at} : disk'[b] = disk[b],
               FileBlockOK(disk'[at])
        PROVE  UNCHANGED fileCount => FileBlocksOK'
    BY <1>3 DEF FileBlocksOK, FileBlockOK
  <1>4. CASE WriteData
    <2>1. op.file = fileCount /\ fileCount >= 1 /\ op.next \in Nat
      BY <1>4, DataWritten DEF WriteInProgress, WriteOp
    <2>2. FileBlockOK([kind |-> "data", file |-> op.file, index |-> op.next])
      BY <1>0, <2>1 DEF FileBlockOK, FileBlock
    <2> QED
      BY <1>3, <1>4, <2>2, DataWritten
  <1>5. CASE WriteHeader
    <2>1. op \in WriteOp /\ op # Idle /\ op.size <= Dirs[op.dir].maxFileSize
      BY <1>5, HeaderWritten
    <2>2. /\ op.file = fileCount /\ fileCount >= 1
          /\ op.size \in Nat /\ op.size <= TheEntry.maxFileSize
      BY <2>1, OpOnDisk DEF WriteInProgress, WriteOp
    <2>3. FileBlockOK([kind |-> "header", file |-> op.file, size |-> op.size])
      BY <1>0, <2>2 DEF FileBlockOK, FileBlock
    <2> QED
      BY <1>3, <1>5, <2>3, HeaderWritten
  <1>6. CASE RootCall(Formatted) \/ DirectoryAdded \/ OldestDeleted
    BY <1>2, <1>6 DEF RootCall, DirectoryAdded, OldestDeleted
  <1>7. CASE WriteDirectory
    BY <1>2, <1>7 DEF WriteDirectory
  <1>8. CASE Quiet \/ WriteBegun
    BY <1>1, <1>8 DEF Quiet, WriteBegun
  <1> QED
    BY <1>4, <1>5, <1>6, <1>7, <1>8, StepKinds

(* FS_WriteFile works through its slot, and nothing disturbs it but a      *)
(* crash.                                                                  *)
LEMMA WriteInProgressNext ==
    ASSUME DiskKeepsBlocks, OneDirectoryAsked, FifoInv, [Next]_vars
    PROVE  WriteInProgress'
  <1> USE DEF FifoInv
  <1>0. fileCount \in Nat
    BY DEF IInv
  <1>1. CASE op' = Idle
    BY <1>1 DEF WriteInProgress
  <1>2. CASE Quiet
    <2>1. CASE UNCHANGED <<disk, fileCount, op, rootBlock, mount>>
      BY <2>1 DEF WriteInProgress, OpHeaderBlock, Dirs, BlocksWritten
    <2> QED
      BY <1>1, <1>2, <2>1 DEF Quiet
  <1>3. CASE RootCall(Formatted) \/ DirectoryAdded \/ OldestDeleted
    BY <1>1, <1>3 DEF RootCall, DirectoryAdded, OldestDeleted
  <1>4. CASE WriteBegun
    <2>1. /\ mount' /\ UNCHANGED <<disk, rootBlock>>
          /\ op'.file = fileCount' /\ fileCount' = fileCount + 1
          /\ op'.step \in {"data", "header"}
          /\ op'.step = "header" => op'.size = 0
          /\ op'.next = 1
          /\ op'.dir = 1 /\ Len(Dirs) = 1
      BY <1>4 DEF WriteBegun
    <2>2. \A b \in Blocks \ {0} : disk[b].kind # "zero" => disk[b].file # op'.file
      BY <1>0, <2>1 DEF FileBlocksOK, FileBlockOK
    <2>3. BlocksWritten' = 0
      BY <2>1 DEF BlocksWritten, NumBlocks, BLOCK_SIZE
    <2>4. OpHeaderBlock' \in Blocks \ {0}
      <3>1. 1 \in DOMAIN Dirs
        BY <2>1 DEF IInv, RootOK, RootBlock, Dirs
      <3>2. Dirs[1] \in Directory /\ DirectoryWellFormed(Dirs[1])
        BY <3>1 DEF IInv, RootOK, RootBlock, Dirs
      <3>3. 0 \in 0 .. SlotBlocks(Dirs[1]) - 1
        BY <3>2, SlotBlocksType
      <3>4. HeaderBlock(Dirs[1], Dirs[1].head) \in Blocks \ {0}
        BY <3>2, <3>3, SlotOnDevice DEF DirectoryWellFormed
      <3> QED
        BY <2>1, <3>4 DEF OpHeaderBlock, Dirs
    <2> QED
      BY <1>0, <2>1, <2>2, <2>3, <2>4 DEF WriteInProgress
  <1>5. CASE WriteData
    <2> DEFINE H == OpHeaderBlock
               dir == Dirs[op.dir]
    <2>1. /\ op \in WriteOp /\ op # Idle /\ op.step = "data"
          /\ op.next \in 1 .. NumBlocks(op.size)
          /\ NumBlocks(op.size) \in 0 .. SlotBlocks(dir) - 1
          /\ H + op.next \in Blocks \ {0}
          /\ disk'[H + op.next]
                = [kind |-> "data", file |-> op.file, index |-> op.next]
          /\ \A b \in Blocks \ {H + op.next} : disk'[b] = disk[b]
          /\ op' \in WriteOp
          /\ op'.dir = op.dir /\ op'.file = op.file /\ op'.size = op.size
          /\ \/ /\ op.next = NumBlocks(op.size)
                /\ op'.step = "header"
                /\ op'.next = op.next
             \/ /\ op.next # NumBlocks(op.size)
                /\ op'.step = "data"
                /\ op'.next = op.next + 1
          /\ UNCHANGED <<rootBlock, init, mount, result, fileCount>>
      BY <1>5, DataWritten
    <2>2. /\ OpHeaderBlock' = H /\ Dirs'[op'.dir] = dir
          /\ mount' /\ op'.file = fileCount' /\ fileCount' >= 1
      BY <2>1 DEF WriteInProgress, OpHeaderBlock, Dirs
    <2>3. BlocksWritten = op.next - 1 /\ BlocksWritten' = op.next
      BY <2>1 DEF BlocksWritten
    <2>4. H \in Nat /\ H \in Blocks /\ SlotBlocks(dir) \in Nat
      BY <2>1, OpOnDisk, SlotOnDevice, SlotBlocksType
    <2> HIDE DEF H, dir
    <2>5. ASSUME NEW b \in Blocks \ {0},
                 disk'[b].kind # "zero", disk'[b].file = op'.file
          PROVE  b - H \in 0 .. SlotBlocks(dir) - 1
      <3>1. CASE b = H + op.next
        BY <2>1, <2>4, <3>1
      <3>2. CASE b # H + op.next
        <4>1. disk'[b] = disk[b]
          BY <2>1, <3>2
        <4> QED
          BY <2>1, <2>5, <4>1 DEF WriteInProgress, H, dir
      <3> QED
        BY <3>1, <3>2
    <2>6. ASSUME NEW i \in 1 .. op.next
          PROVE  disk'[H + i] = [kind |-> "data", file |-> op'.file, index |-> i]
      <3>1. CASE i = op.next
        BY <2>1, <3>1
      <3>2. CASE i # op.next
        <4>1. /\ i \in 1 .. op.next - 1
              /\ H + i \in Blocks /\ H + i # H + op.next
          BY <2>1, <2>4, <3>2, TotalBlocksAssumption DEF Blocks
        <4>2. disk[H + i] = [kind |-> "data", file |-> op.file, index |-> i]
          BY <2>1, <2>3, <4>1 DEF WriteInProgress, H
        <4> QED
          BY <2>1, <4>1, <4>2
      <3> QED
        BY <3>1, <3>2
    <2>7. /\ op'.step # "root"
          /\ disk'[H].kind = "header" => disk'[H].file # op'.file
      <3>1. disk'[H] = disk[H]
        BY <2>1, <2>4
      <3>2. disk[H].kind = "header" => disk[H].file # op.file
        BY <2>1 DEF WriteInProgress, H
      <3> QED
        BY <2>1, <3>1, <3>2
    <2> QED
      BY <2>2, <2>3, <2>5, <2>6, <2>7 DEF WriteInProgress
  <1>6. CASE WriteHeader
    <2> DEFINE H == OpHeaderBlock
               dir == Dirs[op.dir]
    <2>1. /\ op \in WriteOp /\ op # Idle /\ op.step = "header"
          /\ NumBlocks(op.size) \in 0 .. SlotBlocks(dir) - 1
          /\ H \in Blocks \ {0}
          /\ disk'[H] = [kind |-> "header", file |-> op.file, size |-> op.size]
          /\ \A b \in Blocks \ {H} : disk'[b] = disk[b]
          /\ op' \in WriteOp
          /\ op'.dir = op.dir /\ op'.file = op.file /\ op'.size = op.size
          /\ op'.step = "root"
          /\ UNCHANGED <<rootBlock, init, mount, result, fileCount>>
      BY <1>6, HeaderWritten
    <2>2. /\ OpHeaderBlock' = H /\ Dirs'[op'.dir] = dir
          /\ mount' /\ op'.file = fileCount' /\ fileCount' >= 1
      BY <2>1 DEF WriteInProgress, OpHeaderBlock, Dirs
    <2>3. BlocksWritten = NumBlocks(op.size) /\ BlocksWritten' = NumBlocks(op.size)
      BY <2>1 DEF BlocksWritten
    <2>4. H \in Nat /\ SlotBlocks(dir) \in Nat /\ SlotBlocks(dir) >= 1
      BY <2>1, OpOnDisk, SlotBlocksType
    <2>5. \A i \in 1 .. NumBlocks(op.size) : H + i \in Blocks
      <3>1. /\ dir \in Directory /\ DirectoryWellFormed(dir)
            /\ dir.head \in 0 .. dir.maxFiles - 1
            /\ H = HeaderBlock(dir, dir.head)
        BY <2>1, OpOnDisk
      <3>2. \A k \in 0 .. SlotBlocks(dir) - 1 : HeaderBlock(dir, dir.head) + k \in Blocks
        BY <3>1, SlotOnDevice
      <3> HIDE DEF H, dir
      <3> QED
        BY <2>1, <2>4, <3>1, <3>2
    <2> HIDE DEF H, dir
    <2>6. ASSUME NEW b \in Blocks \ {0},
                 disk'[b].kind # "zero", disk'[b].file = op'.file
          PROVE  b - H \in 0 .. SlotBlocks(dir) - 1
      <3>1. CASE b = H
        BY <2>4, <3>1
      <3>2. CASE b # H
        <4>1. disk'[b] = disk[b]
          BY <2>1, <3>2
        <4> QED
          BY <2>1, <2>6, <4>1 DEF WriteInProgress, H, dir
      <3> QED
        BY <3>1, <3>2
    <2>7. ASSUME NEW i \in 1 .. NumBlocks(op.size)
          PROVE  disk'[H + i] = [kind |-> "data", file |-> op'.file, index |-> i]
      <3>1. H + i \in Blocks /\ H + i # H
        BY <2>1, <2>4, <2>5
      <3>2. disk[H + i] = [kind |-> "data", file |-> op.file, index |-> i]
        BY <2>1, <2>3 DEF WriteInProgress, H
      <3> QED
        BY <2>1, <3>1, <3>2
    <2> QED
      BY <2>1, <2>2, <2>3, <2>6, <2>7 DEF WriteInProgress
  <1>7. CASE WriteDirectory
    BY <1>1, <1>7 DEF WriteDirectory
  <1> QED
    BY <1>2, <1>3, <1>4, <1>5, <1>6, <1>7, StepKinds

(* The invariant holds on a blank disk.                                    *)
LEMMA FifoInvInit == Init => FifoInv
  <1> SUFFICES ASSUME Init PROVE FifoInv
    OBVIOUS
  <1>1. /\ disk = BlankDisk /\ mount = FALSE /\ op = Idle
    BY DEF Init
  <1>2. 0 \in Blocks /\ disk[0] = Blank
    BY <1>1, TotalBlocksAssumption DEF Blocks, BlankDisk
  <1>3. OneDirectoryOnDisk
    BY <1>2 DEF OneDirectoryOnDisk, Blank
  <1>4. FileBlocksOK
    BY <1>1 DEF FileBlocksOK, FileBlockOK, BlankDisk, FileBlock
  <1> QED
    BY <1>1, <1>3, <1>4, InvInit DEF FifoInv, CacheMatchesMedia, WriteInProgress

(* Every step keeps it.                                                    *)
LEMMA FifoInvNext ==
    ASSUME DiskKeepsBlocks, OneDirectoryAsked, FifoInv, [Next]_vars
    PROVE  FifoInv'
  BY InvNext, CacheNext, OneDirectoryNext, FileBlocksNext, WriteInProgressNext
     DEF FifoInv

(* A function on 1 .. n is a sequence of length n.                         *)
LEMMA FunctionIsSequence ==
    ASSUME NEW S, NEW n \in Nat, NEW f \in [1 .. n -> S]
    PROVE  f \in Seq(S) /\ Len(f) = n
  OBVIOUS

(* The files of a directory are a sequence, of the numbers given so far.   *)
LEMMA FilesInType ==
    ASSUME FifoInv, NEW dir \in Directory, DirectoryWellFormed(dir)
    PROVE  /\ FilesIn(disk, dir) \in Seq(0 .. fileCount)
           /\ Len(FilesIn(disk, dir)) = NumberOfFiles(dir)
           /\ NumberOfFiles(dir) \in Nat
           /\ \A i \in 1 .. NumberOfFiles(dir) :
                 FilesIn(disk, dir)[i] = FileIn(disk, dir, SlotOf(dir, i))
  <1>1. NumberOfFiles(dir) \in 0 .. dir.maxFiles /\ dir.maxFiles \in Nat
    BY RingSlots DEF Directory
  <1>2. ASSUME NEW slot \in 0 .. dir.maxFiles - 1
        PROVE  FileIn(disk, dir, slot) \in 0 .. fileCount
    <2>1. HeaderBlock(dir, slot) \in Blocks \ {0}
      <3>1. 0 \in 0 .. SlotBlocks(dir) - 1
        BY SlotBlocksType
      <3> QED
        BY <3>1, SlotOnDevice
    <2>2. fileCount \in Nat
      BY DEF FifoInv, IInv
    <2>3. \/ FileIn(disk, dir, slot) = Torn
          \/ FileIn(disk, dir, slot) \in 1 .. fileCount
      BY <2>1, FileInSlot DEF FifoInv, FileBlocksOK, FileBlockOK
    <2> QED
      BY <2>2, <2>3 DEF Torn
  <1>3. \A i \in 1 .. NumberOfFiles(dir) :
           FileIn(disk, dir, SlotOf(dir, i)) \in 0 .. fileCount
    <2>1. \A i \in 1 .. NumberOfFiles(dir) : i \in 1 .. dir.maxFiles
      BY <1>1
    <2> QED
      BY <1>2, <2>1, RingSlots
  <1>4. FilesIn(disk, dir) \in [1 .. NumberOfFiles(dir) -> 0 .. fileCount]
    BY <1>3 DEF FilesIn
  <1>5. \A i \in 1 .. NumberOfFiles(dir) :
           FilesIn(disk, dir)[i] = FileIn(disk, dir, SlotOf(dir, i))
    BY DEF FilesIn
  <1>6. /\ FilesIn(disk, dir) \in Seq(0 .. fileCount)
        /\ Len(FilesIn(disk, dir)) = NumberOfFiles(dir)
    <2>1. NumberOfFiles(dir) \in Nat
      BY <1>1
    <2> QED
      BY <1>4, <2>1, FunctionIsSequence, Zenon
  <1> QED
    BY <1>1, <1>5, <1>6

(* Block 0 lists the directory, whether it is mounted or not.              *)
LEMMA DirectoryOnDisk ==
    ASSUME FifoInv, disk[0].dirs # <<>>
    PROVE  /\ disk[0].dirs[1] \in Directory
           /\ DirectoryWellFormed(disk[0].dirs[1])
           /\ disk[0].dirs[1].maxFiles = TheEntry.maxFiles
           /\ disk[0].dirs[1].maxFileSize = TheEntry.maxFileSize
           /\ Stored = FilesIn(disk, disk[0].dirs[1])
  <1>1. disk[0].dirs \in Seq(Directory)
    BY DEF FifoInv, IInv, RootOK, RootBlock
  <1>2. 1 \in DOMAIN disk[0].dirs
    BY <1>1
  <1> QED
    BY <1>1, <1>2, StoredIsIn DEF FifoInv, IInv, RootOK, OneDirectoryOnDisk

(* Whatever is on the disk is a sequence of files that were begun.         *)
LEMMA StoredType ==
    ASSUME FifoInv
    PROVE  Stored \in Seq(0 .. fileCount)
  <1>1. CASE disk[0].dirs = <<>>
    BY <1>1 DEF Stored
  <1>2. CASE disk[0].dirs # <<>>
    BY <1>2, DirectoryOnDisk, FilesInType
  <1> QED
    BY <1>1, <1>2

(* All headers on the disk fit the directory.                              *)
LEMMA HeadersFit ==
    ASSUME FifoInv, NEW dir, dir.maxFileSize = TheEntry.maxFileSize
    PROVE  \A b \in Blocks \ {0} : HeaderFits(disk[b], dir)
  BY DEF FifoInv, FileBlocksOK, FileBlockOK, FileBlock, HeaderFits

(* The first slot of a full ring is the head slot, no other one in use is. *)
LEMMA HeadSlot ==
    ASSUME NEW dir \in Directory, DirectoryWellFormed(dir)
    PROVE  /\ NumberOfFiles(dir) < dir.maxFiles =>
                 \A i \in 1 .. NumberOfFiles(dir) : SlotOf(dir, i) # dir.head
           /\ NumberOfFiles(dir) = dir.maxFiles =>
                 /\ SlotOf(dir, 1) = dir.head
                 /\ \A i \in 2 .. dir.maxFiles : SlotOf(dir, i) # dir.head
  <1>1. /\ NumberOfFiles(dir) \in 0 .. dir.maxFiles
        /\ (NumberOfFiles(dir) = dir.maxFiles) <=> (dir.dirFull = 1)
        /\ dir.maxFiles \in Nat
    BY RingSlots DEF Directory
  <1>2. \A slot \in SlotsInUse(dir) : slot # dir.head
    BY HeadNotInUse
  <1>3. CASE NumberOfFiles(dir) < dir.maxFiles
    <2>1. dir.dirFull # 1
      BY <1>1, <1>3
    <2>2. \A i \in 1 .. NumberOfFiles(dir) : SlotOf(dir, i) \in SlotsInUse(dir)
      BY <2>1 DEF SlotsInUse
    <2> QED
      BY <1>1, <1>2, <1>3, <2>2
  <1>4. CASE NumberOfFiles(dir) = dir.maxFiles
    <2>1. dir.dirFull = 1
      BY <1>1, <1>4
    <2>2. \A i \in 2 .. dir.maxFiles : SlotOf(dir, i) \in SlotsInUse(dir)
      BY <1>4, <2>1 DEF SlotsInUse
    <2>3. SlotOf(dir, 1) = dir.head
      BY <1>4, RingAfterWrite
    <2> QED
      BY <1>1, <1>2, <1>4, <2>2, <2>3
  <1> QED
    BY <1>1, <1>3, <1>4

(* The slots but the head slot hold no block of the newest file.           *)
LEMMA NewestInHeadSlot ==
    ASSUME FifoInv, op # Idle,
           NEW slot \in 0 .. Dirs[1].maxFiles - 1, slot # Dirs[1].head
    PROVE  FileIn(disk, Dirs[1], slot) # fileCount
  <1> DEFINE dir == Dirs[1]
             at == HeaderBlock(dir, slot)
  <1>1. /\ dir \in Directory /\ DirectoryWellFormed(dir)
        /\ op.dir = 1
        /\ OpHeaderBlock = HeaderBlock(dir, dir.head)
        /\ dir.head \in 0 .. dir.maxFiles - 1
        /\ SlotBlocks(dir) \in Nat /\ SlotBlocks(dir) >= 1
    BY OpOnDisk, SlotBlocksType
  <1>2. /\ at \in Blocks \ {0}
        /\ \A k \in 0 .. SlotBlocks(dir) - 1 : at # OpHeaderBlock + k
    <2>1. 0 \in 0 .. SlotBlocks(dir) - 1
      BY <1>1
    <2>2. /\ at + 0 \in Blocks \ {0}
          /\ \A k \in 0 .. SlotBlocks(dir) - 1 : at + 0 # OpHeaderBlock + k
      BY <1>1, <2>1, SlotBlocksApart
    <2>3. at \in Blocks \ {0}
      BY <2>1, <1>1, SlotOnDevice
    <2>4. at + 0 = at
      BY <2>3 DEF Blocks
    <2> QED
      BY <2>2, <2>3, <2>4
  <1>3. OpHeaderBlock \in Nat /\ at \in Nat
    BY <1>2, OpOnDisk DEF Blocks
  <1> HIDE DEF at, dir
  <1>4. at - OpHeaderBlock \notin 0 .. SlotBlocks(dir) - 1
    BY <1>1, <1>2, <1>3
  <1>5. disk[at].kind = "header" => disk[at].file # fileCount
    BY <1>1, <1>2, <1>4 DEF FifoInv, WriteInProgress, dir
  <1>6. fileCount >= 1
    BY DEF FifoInv, WriteInProgress
  <1>7. \/ FileIn(disk, dir, slot) = Torn
        \/ /\ disk[at].kind = "header"
           /\ FileIn(disk, dir, slot) = disk[at].file
    BY FileInSlot DEF at
  <1>8. FileIn(disk, dir, slot) # fileCount
    BY <1>5, <1>6, <1>7 DEF Torn, FifoInv, IInv
  <1> QED
    BY <1>8 DEF dir

(* A step within the head slot changes what is stored at the first place   *)
(* of a full directory at most.                                            *)
LEMMA HeadSlotStep ==
    ASSUME FifoInv, op # Idle, UNCHANGED rootBlock,
           disk'[0] = disk[0],
           \A b \in Blocks \ {0} :
              b - OpHeaderBlock \notin 0 .. SlotBlocks(Dirs[1]) - 1 =>
                 disk'[b] = disk[b]
    PROVE  LET dir == Dirs[1]
           IN  /\ NumberOfFiles(dir) < dir.maxFiles => Stored' = Stored
               /\ NumberOfFiles(dir) = dir.maxFiles =>
                     /\ Stored' = [Stored EXCEPT
                                      ![1] = FileIn(disk', dir, dir.head)]
                     /\ Stored[1] = FileIn(disk, dir, dir.head)
  <1> DEFINE dir == Dirs[1]
  <1>1. /\ dir \in Directory /\ DirectoryWellFormed(dir)
        /\ dir.maxFileSize = TheEntry.maxFileSize
        /\ rootBlock = disk[0] /\ Len(Dirs) = 1
        /\ OpHeaderBlock = HeaderBlock(dir, dir.head)
        /\ dir.head \in 0 .. dir.maxFiles - 1
        /\ OpHeaderBlock \in Nat
        /\ SlotBlocks(dir) \in Nat /\ SlotBlocks(dir) >= 1
        /\ dir.maxFiles \in Nat \ {0}
    BY OpOnDisk, SlotBlocksType DEF Directory
  <1>2. /\ Stored = FilesIn(disk, dir)
        /\ Stored' = FilesIn(disk', dir)
    <2>1. Dirs # <<>>
      <3>1. op.dir \in DOMAIN Dirs
        BY OpDirectory DEF FifoInv
      <3> QED
        BY <3>1
    <2> QED
      BY <1>1, <2>1, StoredIsIn DEF Dirs
  <1>3. ASSUME NEW slot \in 0 .. dir.maxFiles - 1, slot # dir.head
        PROVE  FileIn(disk', dir, slot) = FileIn(disk, dir, slot)
    <2> DEFINE at == HeaderBlock(dir, slot)
    <2>1. \A k \in 0 .. SlotBlocks(dir) - 1 :
             /\ at + k \in Blocks \ {0}
             /\ \A l \in 0 .. SlotBlocks(dir) - 1 : at + k # OpHeaderBlock + l
      BY <1>1, <1>3, SlotBlocksApart
    <2>2. \A k \in 0 .. SlotBlocks(dir) - 1 :
             (at + k) - OpHeaderBlock \notin 0 .. SlotBlocks(dir) - 1
      <3> HIDE DEF at, dir
      <3> SUFFICES ASSUME NEW k \in 0 .. SlotBlocks(dir) - 1,
                          (at + k) - OpHeaderBlock \in 0 .. SlotBlocks(dir) - 1
                   PROVE  FALSE
        OBVIOUS
      <3>1. PICK l \in 0 .. SlotBlocks(dir) - 1 : l = (at + k) - OpHeaderBlock
        OBVIOUS
      <3>2. at + k \in Nat /\ at + k # OpHeaderBlock + l
        BY <2>1 DEF Blocks
      <3> QED
        BY <1>1, <3>1, <3>2
    <2>3. \A k \in 0 .. SlotBlocks(dir) - 1 : disk'[at + k] = disk[at + k]
      BY <2>1, <2>2
    <2>4. slot \in Nat /\ HeaderBlock(dir, slot) \in Blocks \ {0}
      <3>1. 0 \in 0 .. SlotBlocks(dir) - 1
        BY <1>1
      <3> QED
        BY <1>1, <3>1, SlotOnDevice
    <2>5. HeaderFits(disk[at], dir)
      BY <1>1, <2>4, HeadersFit
    <2> QED
      BY <1>1, <2>3, <2>4, <2>5, SameSlot
  <1>4. \A i \in 1 .. dir.maxFiles : SlotOf(dir, i) \in 0 .. dir.maxFiles - 1
    BY <1>1, RingSlots
  <1>5. NumberOfFiles(dir) \in 0 .. dir.maxFiles
    BY <1>1, RingSlots
  <1> HIDE DEF dir
  <1>6. CASE NumberOfFiles(dir) < dir.maxFiles
    <2>1. \A i \in 1 .. NumberOfFiles(dir) :
             FileIn(disk', dir, SlotOf(dir, i)) = FileIn(disk, dir, SlotOf(dir, i))
      <3>1. \A i \in 1 .. NumberOfFiles(dir) :
               i \in 1 .. dir.maxFiles /\ SlotOf(dir, i) # dir.head
        BY <1>1, <1>5, <1>6, HeadSlot
      <3> QED
        BY <1>3, <1>4, <3>1
    <2>2. Stored' = Stored
      BY <1>2, <2>1 DEF FilesIn
    <2> QED
      BY <1>1, <1>6, <2>2 DEF dir
  <1>7. CASE NumberOfFiles(dir) = dir.maxFiles
    <2>1. SlotOf(dir, 1) = dir.head
      BY <1>1, <1>7, HeadSlot
    <2>2. \A i \in 2 .. dir.maxFiles :
             FileIn(disk', dir, SlotOf(dir, i)) = FileIn(disk, dir, SlotOf(dir, i))
      <3>1. \A i \in 2 .. dir.maxFiles :
               i \in 1 .. dir.maxFiles /\ SlotOf(dir, i) # dir.head
        BY <1>1, <1>7, HeadSlot
      <3> QED
        BY <1>3, <1>4, <3>1
    <2>3. /\ Stored = [i \in 1 .. dir.maxFiles |-> FileIn(disk, dir, SlotOf(dir, i))]
          /\ Stored' = [i \in 1 .. dir.maxFiles |-> FileIn(disk', dir, SlotOf(dir, i))]
      BY <1>2, <1>7 DEF FilesIn
    <2>4. 1 \in 1 .. dir.maxFiles /\ \A i \in 1 .. dir.maxFiles : i = 1 \/ i \in 2 .. dir.maxFiles
      BY <1>1
    <2>5. Stored' = [Stored EXCEPT ![1] = FileIn(disk', dir, dir.head)]
      BY <2>1, <2>2, <2>3, <2>4
    <2>6. Stored[1] = FileIn(disk, dir, dir.head)
      BY <2>1, <2>3, <2>4
    <2> QED
      BY <1>1, <1>7, <2>5, <2>6 DEF dir
  <1> QED
    BY <1>1, <1>5, <1>6, <1>7 DEF dir

-----------------------------------------------------------------------------
(* Each step is a step of FifoStore, or changes nothing of it.             *)

(* A data block ends what the oldest file of a full ring was, if its       *)
(* header announces that block.                                            *)
LEMMA DataInSlot ==
    ASSUME DiskKeepsBlocks, FifoInv, WriteData
    PROVE  LET dir == Dirs[1]
           IN  FileIn(disk', dir, dir.head)
                  \in {FileIn(disk, dir, dir.head), Torn}
  <1> DEFINE dir == Dirs[1]
             H == OpHeaderBlock
  <1> USE DEF FifoInv
  <1>1. /\ op \in WriteOp /\ op # Idle /\ op.step = "data"
        /\ op.next \in 1 .. NumBlocks(op.size)
        /\ H + op.next \in Blocks \ {0}
        /\ disk'[H + op.next]
              = [kind |-> "data", file |-> op.file, index |-> op.next]
        /\ \A b \in Blocks \ {H + op.next} : disk'[b] = disk[b]
    BY DataWritten
  <1>2. /\ dir \in Directory /\ DirectoryWellFormed(dir)
        /\ dir.maxFileSize = TheEntry.maxFileSize
        /\ H = HeaderBlock(dir, dir.head)
        /\ dir.head \in 0 .. dir.maxFiles - 1
        /\ H \in Nat
        /\ SlotBlocks(dir) \in Nat /\ SlotBlocks(dir) >= 1
    BY <1>1, OpOnDisk, SlotBlocksType
  <1>3. H \in Blocks \ {0} /\ H # H + op.next /\ op.next \in Nat
    <2>1. 0 \in 0 .. SlotBlocks(dir) - 1
      BY <1>2
    <2> QED
      BY <1>1, <1>2, <2>1, SlotOnDevice
  <1>4. disk'[H] = disk[H]
    BY <1>1, <1>3
  <1>5. disk[H].kind = "header" => disk[H].file # op.file
    BY <1>1 DEF WriteInProgress
  <1>6. CASE disk[H].kind # "header"
    BY <1>2, <1>4, <1>6 DEF FileIn
  <1>7. CASE disk[H].kind = "header"
    <2> DEFINE n == NumBlocks(disk[H].size)
    <2>1. n \in Nat /\ n <= SlotBlocks(dir) - 1
      <3>1. disk[H].size \in Nat /\ disk[H].size <= dir.maxFileSize
        BY <1>2, <1>3, <1>7, HeadersFit DEF HeaderFits
      <3>2. dir.maxFileSize \in Nat
        BY <1>2 DEF Directory
      <3>3. /\ n \in Nat /\ NumBlocks(dir.maxFileSize) \in Nat
            /\ n <= NumBlocks(dir.maxFileSize)
        BY <3>1, <3>2, NumBlocksProperties
      <3> QED
        BY <3>3 DEF SlotBlocks
    <2> HIDE DEF n
    <2>2. CASE op.next <= n
      <3>1. op.next \in 1 .. n
        BY <1>1, <1>3, <2>1, <2>2
      <3>2. disk'[H + op.next]
               # [kind |-> "data", file |-> disk[H].file, index |-> op.next]
        BY <1>1, <1>5, <1>7
      <3>3. FileIn(disk', dir, dir.head) = Torn
        BY <1>2, <1>4, <3>1, <3>2 DEF FileIn, n
      <3> QED
        BY <3>3
    <2>3. CASE ~(op.next <= n)
      <3>1. \A i \in 1 .. n : disk'[H + i] = disk[H + i]
        <4> SUFFICES ASSUME NEW i \in 1 .. n PROVE disk'[H + i] = disk[H + i]
          OBVIOUS
        <4>1. i \in 0 .. SlotBlocks(dir) - 1
          BY <1>2, <2>1
        <4>2. H + i \in Blocks
          BY <1>2, <4>1, SlotOnDevice
        <4>3. H + i # H + op.next
          BY <1>2, <1>3, <2>1, <2>3
        <4> QED
          BY <1>1, <4>2, <4>3
      <3>2. FileIn(disk', dir, dir.head) = FileIn(disk, dir, dir.head)
        BY <1>2, <1>4, <3>1 DEF FileIn, n
      <3> QED
        BY <3>2
    <2> QED
      BY <2>2, <2>3
  <1> QED
    BY <1>6, <1>7

(* With its header block the newest file is whole.                         *)
LEMMA NewestInSlot ==
    ASSUME NEW d, NEW dir, NEW slot, NEW file, NEW size,
           d[HeaderBlock(dir, slot)]
              = [kind |-> "header", file |-> file, size |-> size],
           \A i \in 1 .. NumBlocks(size) :
              d[HeaderBlock(dir, slot) + i]
                 = [kind |-> "data", file |-> file, index |-> i]
    PROVE  FileIn(d, dir, slot) = file
  BY DEF FileIn

(* The place of the oldest file of a full store is given up, or nothing    *)
(* happens.                                                                *)
LEMMA HeadSlotRefines ==
    ASSUME FifoInv, op # Idle, UNCHANGED <<rootBlock, fileCount>>,
           disk'[0] = disk[0],
           \A b \in Blocks \ {0} :
              b - OpHeaderBlock \notin 0 .. SlotBlocks(Dirs[1]) - 1 =>
                 disk'[b] = disk[b],
           FileIn(disk', Dirs[1], Dirs[1].head)
              \in {FileIn(disk, Dirs[1], Dirs[1].head), Torn, fileCount}
    PROVE  Fifo!GiveUpOldest \/ UNCHANGED <<Stored, fileCount>>
  <1> DEFINE dir == Dirs[1]
  <1>1. /\ dir \in Directory /\ DirectoryWellFormed(dir)
        /\ dir.maxFiles = TheEntry.maxFiles
        /\ dir.maxFiles \in Nat \ {0}
        /\ rootBlock = disk[0] /\ Dirs # <<>>
    <2>1. op.dir \in DOMAIN Dirs
      BY OpDirectory DEF FifoInv
    <2>2. Dirs # <<>>
      BY <2>1
    <2>3. dir \in Directory
      BY OpOnDisk
    <2>4. dir.maxFiles \in Nat \ {0}
      BY <2>3 DEF Directory
    <2> QED
      BY <2>2, <2>3, <2>4, OpOnDisk
  <1>2. /\ Stored = FilesIn(disk, dir)
        /\ Stored \in Seq(0 .. fileCount)
        /\ Len(Stored) = NumberOfFiles(dir)
        /\ \A i \in 1 .. NumberOfFiles(dir) :
              Stored[i] = FileIn(disk, dir, SlotOf(dir, i))
    BY <1>1, DirectoryOnDisk, FilesInType DEF Dirs
  <1>3. NumberOfFiles(dir) \in 0 .. dir.maxFiles
    BY <1>1, RingSlots
  <1>4. /\ NumberOfFiles(dir) < dir.maxFiles => Stored' = Stored
        /\ NumberOfFiles(dir) = dir.maxFiles =>
              /\ Stored' = [Stored EXCEPT ![1] = FileIn(disk', dir, dir.head)]
              /\ Stored[1] = FileIn(disk, dir, dir.head)
    BY HeadSlotStep
  <1>5. CASE NumberOfFiles(dir) < dir.maxFiles
    BY <1>4, <1>5
  <1>6. CASE NumberOfFiles(dir) = dir.maxFiles
    <2>1. CASE FileIn(disk', dir, dir.head) = Stored[1]
      <3>1. Stored' = [Stored EXCEPT ![1] = Stored[1]]
        BY <1>4, <1>6, <2>1
      <3>2. Stored' = Stored
        BY <1>2, <3>1
      <3> QED
        BY <3>2
    <2>2. CASE FileIn(disk', dir, dir.head) \in {Torn, fileCount}
      <3>1. Fifo!Pending
        <4>1. \A i \in 2 .. dir.maxFiles :
                 /\ SlotOf(dir, i) # dir.head
                 /\ SlotOf(dir, i) \in 0 .. dir.maxFiles - 1
          BY <1>1, <1>6, HeadSlot, RingSlots
        <4>2. \A i \in 2 .. dir.maxFiles :
                 FileIn(disk, dir, SlotOf(dir, i)) # fileCount
          BY <4>1, NewestInHeadSlot
        <4>3. \A i \in 2 .. dir.maxFiles : Stored[i] # fileCount
          BY <1>1, <1>2, <1>6, <4>2
        <4> QED
          BY <1>2, <1>6, <4>3 DEF Fifo!Pending
      <3>2. Len(Stored) = TheEntry.maxFiles
        BY <1>1, <1>2, <1>6
      <3>3. \E file \in {Torn, fileCount} : Stored' = [Stored EXCEPT ![1] = file]
        BY <1>4, <1>6, <2>2
      <3> QED
        BY <3>1, <3>2, <3>3 DEF Fifo!GiveUpOldest
    <2> QED
      BY <1>4, <1>6, <2>1, <2>2
  <1> QED
    BY <1>1, <1>3, <1>5, <1>6

(* A data block, in the terms of FifoStore.                                *)
LEMMA WriteDataRefines ==
    ASSUME DiskKeepsBlocks, FifoInv, WriteData
    PROVE  Fifo!GiveUpOldest \/ UNCHANGED <<Stored, fileCount>>
  <1> DEFINE H == OpHeaderBlock
  <1> USE DEF FifoInv
  <1>1. /\ op # Idle /\ op.step = "data"
        /\ op.next \in 1 .. NumBlocks(op.size)
        /\ NumBlocks(op.size) \in 0 .. SlotBlocks(Dirs[op.dir]) - 1
        /\ H + op.next \in Blocks \ {0}
        /\ \A b \in Blocks \ {H + op.next} : disk'[b] = disk[b]
        /\ UNCHANGED <<rootBlock, fileCount>>
    BY DataWritten
  <1>2. op.dir = 1 /\ H \in Nat /\ SlotBlocks(Dirs[1]) \in Nat
    BY <1>1, OpOnDisk
  <1>3. disk'[0] = disk[0]
    BY <1>1, TotalBlocksAssumption DEF Blocks
  <1> HIDE DEF H
  <1>4. \A b \in Blocks \ {0} :
           b - H \notin 0 .. SlotBlocks(Dirs[1]) - 1 => disk'[b] = disk[b]
    <2>1. (H + op.next) - H \in 0 .. SlotBlocks(Dirs[1]) - 1
      BY <1>1, <1>2
    <2> QED
      BY <1>1, <2>1
  <1>5. FileIn(disk', Dirs[1], Dirs[1].head)
           \in {FileIn(disk, Dirs[1], Dirs[1].head), Torn, fileCount}
    BY DataInSlot
  <1> QED
    BY <1>1, <1>3, <1>4, <1>5, HeadSlotRefines DEF H

(* The header block, in the terms of FifoStore.                            *)
LEMMA WriteHeaderRefines ==
    ASSUME DiskKeepsBlocks, FifoInv, WriteHeader
    PROVE  Fifo!GiveUpOldest \/ UNCHANGED <<Stored, fileCount>>
  <1> DEFINE H == OpHeaderBlock
  <1>1. /\ op # Idle /\ op.step = "header"
        /\ NumBlocks(op.size) \in 0 .. SlotBlocks(Dirs[op.dir]) - 1
        /\ H \in Blocks \ {0}
        /\ disk'[H] = [kind |-> "header", file |-> op.file, size |-> op.size]
        /\ \A b \in Blocks \ {H} : disk'[b] = disk[b]
        /\ UNCHANGED <<rootBlock, fileCount>>
    BY HeaderWritten DEF FifoInv
  <1>2. /\ op.dir = 1 /\ H \in Nat
        /\ SlotBlocks(Dirs[1]) \in Nat /\ SlotBlocks(Dirs[1]) >= 1
        /\ H = HeaderBlock(Dirs[1], Dirs[1].head)
        /\ Dirs[1] \in Directory /\ DirectoryWellFormed(Dirs[1])
        /\ Dirs[1].head \in 0 .. Dirs[1].maxFiles - 1
        /\ op.file = fileCount
    BY <1>1, OpOnDisk, SlotBlocksType DEF FifoInv, WriteInProgress
  <1>3. disk'[0] = disk[0]
    BY <1>1, TotalBlocksAssumption DEF Blocks
  <1>4. \A i \in 1 .. NumBlocks(op.size) : disk'[H + i] = disk[H + i]
    <2> SUFFICES ASSUME NEW i \in 1 .. NumBlocks(op.size)
                 PROVE  disk'[H + i] = disk[H + i]
      OBVIOUS
    <2>1. H + i \in Blocks
      BY <1>1, <1>2, SlotOnDevice
    <2> HIDE DEF H
    <2>2. H + i # H
      BY <1>2
    <2> QED
      BY <1>1, <2>1, <2>2
  <1>5. \A i \in 1 .. NumBlocks(op.size) :
           disk[H + i] = [kind |-> "data", file |-> op.file, index |-> i]
    BY <1>1 DEF FifoInv, WriteInProgress, BlocksWritten
  <1> HIDE DEF H
  <1>6. FileIn(disk', Dirs[1], Dirs[1].head) = fileCount
    BY <1>1, <1>2, <1>4, <1>5, NewestInSlot
  <1>7. \A b \in Blocks \ {0} :
           b - H \notin 0 .. SlotBlocks(Dirs[1]) - 1 => disk'[b] = disk[b]
    BY <1>1, <1>2
  <1> QED
    BY <1>1, <1>3, <1>6, <1>7, HeadSlotRefines DEF H

(* A sequence as a function.                                               *)
LEMMA SequenceIsFunction ==
    ASSUME NEW S, NEW n \in Nat
    PROVE  \A s \in Seq(S) : Len(s) = n => s = [i \in 1 .. n |-> s[i]]
  <1> SUFFICES ASSUME NEW s \in Seq(S), Len(s) = n
               PROVE  s = [i \in 1 .. n |-> s[i]]
    OBVIOUS
  <1>1. s \in [1 .. n -> S]
    OBVIOUS
  <1> QED
    BY <1>1

(* Append as a function.                                                   *)
LEMMA AppendIs ==
    ASSUME NEW S, NEW s \in Seq(S), NEW x \in S, NEW n \in Nat, Len(s) = n
    PROVE  Append(s, x) = [i \in 1 .. n + 1 |-> IF i = n + 1 THEN x ELSE s[i]]
  <1>1. Append(s, x) \in Seq(S) /\ Len(Append(s, x)) = n + 1
    OBVIOUS
  <1>2. \A i \in 1 .. n + 1 : Append(s, x)[i] = IF i = n + 1 THEN x ELSE s[i]
    OBVIOUS
  <1>3. n + 1 \in Nat
    OBVIOUS
  <1>4. Append(s, x) = [i \in 1 .. n + 1 |-> Append(s, x)[i]]
    BY <1>1, <1>3, SequenceIsFunction, Zenon
  <1> QED
    BY <1>2, <1>4, Zenon

(* Tail as a function.                                                     *)
LEMMA TailIs ==
    ASSUME NEW S, NEW s \in Seq(S), NEW n \in Nat, Len(s) = n, n # 0
    PROVE  Tail(s) = [i \in 1 .. n - 1 |-> s[i + 1]]
  <1>1. Tail(s) \in Seq(S) /\ Len(Tail(s)) = n - 1
    OBVIOUS
  <1>2. \A i \in 1 .. n - 1 : Tail(s)[i] = s[i + 1]
    OBVIOUS
  <1>3. n - 1 \in Nat
    OBVIOUS
  <1>4. Tail(s) = [i \in 1 .. n - 1 |-> Tail(s)[i]]
    BY <1>1, <1>3, SequenceIsFunction, Zenon
  <1> QED
    BY <1>2, <1>4, Zenon

(* Writing the root block with a new ring changes which slots are files,   *)
(* not what is in them.                                                    *)
LEMMA RingStored ==
    ASSUME DiskKeepsBlocks, FifoInv, mount, Len(Dirs) = 1,
           NEW new \in {AfterWrite(Dirs[1]), AfterDelete(Dirs[1])},
           WriteRootBlock([rootBlock EXCEPT !.dirs[1] = new])
    PROVE  Stored' = [i \in 1 .. NumberOfFiles(new) |->
                         FileIn(disk, Dirs[1], SlotOf(new, i))]
  <1> DEFINE dir == Dirs[1]
  <1> USE DEF FifoInv
  <1>1. rootBlock = disk[0] /\ Dirs \in Seq(Directory)
    BY DEF CacheMatchesMedia, IInv, RootOK, RootBlock, Dirs
  <1>2. 1 \in DOMAIN Dirs
    BY <1>1
  <1>3. /\ dir \in Directory /\ DirectoryWellFormed(dir)
        /\ dir.maxFiles \in Nat \ {0}
        /\ dir.maxFileSize = TheEntry.maxFileSize
    BY <1>1, <1>2, TheDirectory DEF Directory
  <1>4. /\ disk'[0] = [rootBlock EXCEPT !.dirs[1] = new]
        /\ \A b \in Blocks \ {0} : disk'[b] = disk[b]
    BY KeptRootWrite
  <1>5. disk'[0].dirs = [Dirs EXCEPT ![1] = new]
    BY <1>4 DEF IInv, RootOK, RootBlock, Dirs
  <1>6. disk'[0].dirs # <<>> /\ disk'[0].dirs[1] = new
    BY <1>1, <1>2, <1>5
  <1>7. Stored' = FilesIn(disk', new)
    BY <1>6, StoredIsIn
  <1>8. /\ new \in Directory /\ DirectoryWellFormed(new)
        /\ new.maxFiles = dir.maxFiles
    BY <1>3, DirectoryUpdates, SamePlace
  <1>9. \A i \in 1 .. NumberOfFiles(new) : SlotOf(new, i) \in 0 .. dir.maxFiles - 1
    <2>1. /\ NumberOfFiles(new) \in 0 .. new.maxFiles
          /\ \A i \in 1 .. new.maxFiles : SlotOf(new, i) \in 0 .. new.maxFiles - 1
      BY <1>8, RingSlots
    <2> QED
      BY <1>3, <1>8, <2>1
  <1>10. \A slot \in 0 .. dir.maxFiles - 1 :
            FileIn(disk', dir, slot) = FileIn(disk, dir, slot)
    BY <1>3, <1>4, HeadersFit, SameSlots
  <1>11. \A slot : FileIn(disk', new, slot) = FileIn(disk', dir, slot)
    BY <1>3, SamePlace
  <1>12. \A i \in 1 .. NumberOfFiles(new) :
            FileIn(disk', new, SlotOf(new, i)) = FileIn(disk, dir, SlotOf(new, i))
    BY <1>9, <1>10, <1>11
  <1> QED
    BY <1>7, <1>12 DEF FilesIn

(* What is stored in a mounted directory.                                  *)
LEMMA MountedStored ==
    ASSUME FifoInv, mount, Len(Dirs) = 1
    PROVE  LET dir == Dirs[1]
           IN  /\ dir \in Directory /\ DirectoryWellFormed(dir)
               /\ dir.maxFiles = TheEntry.maxFiles
               /\ dir.maxFiles \in Nat \ {0}
               /\ NumberOfFiles(dir) \in 0 .. dir.maxFiles
               /\ Stored \in Seq(0 .. fileCount)
               /\ Len(Stored) = NumberOfFiles(dir)
               /\ \A i \in 1 .. NumberOfFiles(dir) :
                     Stored[i] = FileIn(disk, dir, SlotOf(dir, i))
  <1> DEFINE dir == Dirs[1]
  <1>1. rootBlock = disk[0] /\ Dirs \in Seq(Directory)
    BY DEF FifoInv, CacheMatchesMedia, IInv, RootOK, RootBlock, Dirs
  <1>2. 1 \in DOMAIN Dirs /\ Dirs # <<>>
    <2>1. PICK n \in Nat : n = Len(Dirs) /\ DOMAIN Dirs = 1 .. n
      BY <1>1
    <2> QED
      BY <2>1
  <1>3. /\ dir \in Directory /\ DirectoryWellFormed(dir)
        /\ dir.maxFiles = TheEntry.maxFiles
    BY <1>1, <1>2, TheDirectory DEF FifoInv
  <1>4. dir.maxFiles \in Nat \ {0}
    BY <1>3 DEF Directory
  <1>5. NumberOfFiles(dir) \in 0 .. dir.maxFiles
    BY <1>3, RingSlots
  <1>6. Stored = FilesIn(disk, dir)
    BY <1>1, <1>2, StoredIsIn DEF Dirs
  <1> QED
    BY <1>3, <1>4, <1>5, <1>6, FilesInType

(* FS_DeleteOldestFileInDirectory takes the oldest file from the store.    *)
LEMMA StoredAfterDelete ==
    ASSUME DiskKeepsBlocks, FifoInv, OldestDeleted
    PROVE  Stored # <<>> /\ Stored' = Tail(Stored)
  <1> DEFINE dir == Dirs[1]
             new == AfterDelete(dir)
             n == NumberOfFiles(dir)
  <1>1. /\ mount /\ Len(Dirs) = 1 /\ n # 0
        /\ WriteRootBlock([rootBlock EXCEPT !.dirs[1] = new])
    BY DEF OldestDeleted, RootCall, Dirs
  <1>2. /\ dir \in Directory /\ DirectoryWellFormed(dir)
        /\ n \in Nat
        /\ Stored \in Seq(0 .. fileCount)
        /\ Len(Stored) = n
        /\ \A i \in 1 .. n : Stored[i] = FileIn(disk, dir, SlotOf(dir, i))
    BY <1>1, MountedStored
  <1>3. /\ NumberOfFiles(new) = n - 1
        /\ \A i \in 1 .. n - 1 : SlotOf(new, i) = SlotOf(dir, i + 1)
    BY <1>1, <1>2, RingAfterDelete
  <1>4. Stored' = [i \in 1 .. NumberOfFiles(new) |->
                      FileIn(disk, dir, SlotOf(new, i))]
    BY <1>1, RingStored
  <1> HIDE DEF dir, new, n
  <1>5. Stored' = [i \in 1 .. n - 1 |-> Stored[i + 1]]
    <2>1. \A i \in 1 .. n - 1 : i + 1 \in 1 .. n
      BY <1>2
    <2>2. \A i \in 1 .. n - 1 : FileIn(disk, dir, SlotOf(new, i)) = Stored[i + 1]
      BY <1>2, <1>3, <2>1
    <2> QED
      BY <1>3, <1>4, <2>2
  <1>6. Stored # <<>>
    BY <1>1, <1>2
  <1>7. n \in Nat /\ n # 0
    BY <1>1, <1>2 DEF n
  <1> QED
    BY <1>2, <1>5, <1>6, <1>7, TailIs, Zenon

(* The write of the root block that ends FS_WriteFile: the file is the     *)
(* newest, in a full directory in place of the oldest.                     *)
LEMMA StoredAfterWrite ==
    ASSUME DiskKeepsBlocks, FifoInv, WriteDirectory
    PROVE  /\ Stored \in Seq(0 .. fileCount)
           /\ op.file = fileCount
           /\ Len(Stored) <= TheEntry.maxFiles
           /\ \A i \in 2 .. Len(Stored) : Stored[i] # fileCount
           /\ \/ /\ Len(Stored) < TheEntry.maxFiles
                 /\ Stored # <<>> => Head(Stored) # fileCount
                 /\ Stored' = Append(Stored, fileCount)
              \/ /\ Len(Stored) = TheEntry.maxFiles
                 /\ Stored # <<>> /\ Head(Stored) = fileCount
                 /\ Stored' = Append(Tail(Stored), fileCount)
  <1> DEFINE dir == Dirs[1]
             new == AfterWrite(dir)
             n == NumberOfFiles(dir)
  <1>1. op # Idle /\ op.step = "root"
    BY DEF WriteDirectory, Idle
  <1>2. /\ mount /\ Len(Dirs) = 1 /\ op.dir = 1
        /\ OpHeaderBlock = HeaderBlock(dir, dir.head)
        /\ dir.head \in 0 .. dir.maxFiles - 1
        /\ WriteRootBlock([rootBlock EXCEPT !.dirs[1] = new])
    BY <1>1, OpOnDisk DEF WriteDirectory, Dirs
  <1>3. /\ dir \in Directory /\ DirectoryWellFormed(dir)
        /\ dir.maxFiles = TheEntry.maxFiles
        /\ dir.maxFiles \in Nat \ {0}
        /\ n \in 0 .. dir.maxFiles
        /\ Stored \in Seq(0 .. fileCount)
        /\ Len(Stored) = n
        /\ \A i \in 1 .. n : Stored[i] = FileIn(disk, dir, SlotOf(dir, i))
    BY <1>2, MountedStored
  <1>4. /\ op.file = fileCount
        /\ FileIn(disk, dir, dir.head) = fileCount
    <2>1. /\ op.file = fileCount
          /\ disk[OpHeaderBlock]
                = [kind |-> "header", file |-> op.file, size |-> op.size]
          /\ \A i \in 1 .. NumBlocks(op.size) :
                disk[OpHeaderBlock + i]
                   = [kind |-> "data", file |-> op.file, index |-> i]
      BY <1>1 DEF FifoInv, WriteInProgress, BlocksWritten
    <2> QED
      BY <1>2, <2>1, NewestInSlot
  <1>5. Stored' = [i \in 1 .. NumberOfFiles(new) |->
                      FileIn(disk, dir, SlotOf(new, i))]
    BY <1>2, RingStored
  <1>6. \A slot \in 0 .. dir.maxFiles - 1 :
           slot # dir.head => FileIn(disk, dir, slot) # fileCount
    BY <1>1, NewestInHeadSlot
  <1>7. \A i \in 1 .. dir.maxFiles : SlotOf(dir, i) \in 0 .. dir.maxFiles - 1
    BY <1>3, RingSlots
  <1> HIDE DEF dir, new, n
  <1>8. CASE n < dir.maxFiles
    <2>1. /\ NumberOfFiles(new) = n + 1
          /\ \A i \in 1 .. n : SlotOf(new, i) = SlotOf(dir, i)
          /\ SlotOf(new, n + 1) = dir.head
      BY <1>3, <1>8, RingAfterWrite DEF new, n
    <2>2. \A i \in 1 .. n : SlotOf(dir, i) # dir.head
      BY <1>3, <1>8, HeadSlot DEF n
    <2>3. \A i \in 1 .. n : Stored[i] # fileCount
      <3>1. \A i \in 1 .. n : i \in 1 .. dir.maxFiles
        BY <1>3
      <3> QED
        BY <1>3, <1>6, <1>7, <2>2, <3>1
    <2>4. Stored' = [i \in 1 .. n + 1 |-> IF i = n + 1 THEN fileCount ELSE Stored[i]]
      <3>1. \A i \in 1 .. n + 1 : i = n + 1 \/ i \in 1 .. n
        BY <1>3
      <3>2. \A i \in 1 .. n + 1 :
               FileIn(disk, dir, SlotOf(new, i))
                  = IF i = n + 1 THEN fileCount ELSE Stored[i]
        BY <1>3, <1>4, <2>1, <3>1
      <3> QED
        BY <1>5, <2>1, <3>2
    <2>5. Stored' = Append(Stored, fileCount)
      <3>1. n \in Nat /\ fileCount \in 0 .. fileCount
        BY <1>3 DEF FifoInv, IInv
      <3>2. Append(Stored, fileCount)
               = [i \in 1 .. n + 1 |-> IF i = n + 1 THEN fileCount ELSE Stored[i]]
        BY <1>3, <3>1, AppendIs
      <3> QED
        BY <2>4, <3>2, Zenon
    <2>6. Stored # <<>> => Head(Stored) # fileCount
      BY <1>3, <2>3
    <2> QED
      BY <1>3, <1>4, <1>8, <2>3, <2>5, <2>6
  <1>9. CASE n = dir.maxFiles
    <2>1. /\ NumberOfFiles(new) = n
          /\ \A i \in 1 .. n - 1 : SlotOf(new, i) = SlotOf(dir, i + 1)
          /\ SlotOf(new, n) = dir.head
          /\ SlotOf(dir, 1) = dir.head
      BY <1>3, <1>9, RingAfterWrite DEF new, n
    <2>2. \A i \in 2 .. n : SlotOf(dir, i) # dir.head
      BY <1>3, <1>9, HeadSlot DEF n
    <2>3. \A i \in 2 .. n : Stored[i] # fileCount
      <3>1. \A i \in 2 .. n : i \in 1 .. n
        BY <1>3
      <3> QED
        BY <1>3, <1>6, <1>7, <1>9, <2>2, <3>1
    <2>4. Stored # <<>> /\ Head(Stored) = fileCount
      BY <1>3, <1>4, <1>9, <2>1
    <2>5. Stored' = [i \in 1 .. n |-> IF i = n THEN fileCount ELSE Stored[i + 1]]
      <3>1. \A i \in 1 .. n : i = n \/ (i \in 1 .. n - 1 /\ i + 1 \in 1 .. n)
        BY <1>3
      <3>2. \A i \in 1 .. n :
               FileIn(disk, dir, SlotOf(new, i))
                  = IF i = n THEN fileCount ELSE Stored[i + 1]
        BY <1>3, <1>4, <2>1, <3>1
      <3> QED
        BY <1>5, <2>1, <3>2
    <2>6. /\ Tail(Stored) \in Seq(0 .. fileCount)
          /\ Len(Tail(Stored)) = n - 1
          /\ \A i \in 1 .. n - 1 : Tail(Stored)[i] = Stored[i + 1]
      BY <1>3, <2>4
    <2>7. Stored' = Append(Tail(Stored), fileCount)
      <3>1. PICK m \in Nat : n = m + 1
        BY <1>3, <1>9
      <3>2. PICK t \in Seq(0 .. fileCount) : t = Tail(Stored)
        BY <2>6
      <3>3. /\ Len(t) = m
            /\ fileCount \in 0 .. fileCount
            /\ \A i \in 1 .. n : i # n => t[i] = Stored[i + 1]
        BY <2>6, <3>1, <3>2 DEF FifoInv, IInv
      <3>4. Append(t, fileCount)
               = [i \in 1 .. m + 1 |-> IF i = m + 1 THEN fileCount ELSE t[i]]
        BY <3>3, AppendIs
      <3> QED
        BY <2>5, <3>1, <3>2, <3>3, <3>4, Zenon
    <2> QED
      BY <1>3, <1>4, <1>9, <2>3, <2>4, <2>7
  <1> QED
    BY <1>3, <1>8, <1>9

(* A new directory is empty.                                               *)
LEMMA StoredAfterAdd ==
    ASSUME DiskKeepsBlocks, FifoInv, DirectoryAdded
    PROVE  Stored = <<>> /\ Stored' = <<>>
  <1>1. Stored = <<>>
    BY DEF DirectoryAdded, FifoInv, CacheMatchesMedia, Dirs, Stored
  <1>2. disk'[0] = [rootBlock EXCEPT !.dirs = <<NewRing(TheEntry)>>]
    BY KeptRootWrite DEF DirectoryAdded, RootCall, FifoInv
  <1>3. disk'[0].dirs = <<NewRing(TheEntry)>>
    BY <1>2 DEF FifoInv, IInv, RootOK, RootBlock
  <1>4. disk'[0].dirs # <<>> /\ disk'[0].dirs[1] = NewRing(TheEntry)
    BY <1>3
  <1>5. NumberOfFiles(NewRing(TheEntry)) = 0
    BY DEF NumberOfFiles, NewRing
  <1>6. FilesIn(disk', NewRing(TheEntry)) = <<>>
    BY <1>5 DEF FilesIn
  <1> QED
    BY <1>1, <1>4, <1>6, StoredIsIn

(* FS_Format leaves nothing.                                               *)
LEMMA StoredAfterFormat ==
    ASSUME DiskKeepsBlocks, FifoInv, RootCall(Formatted)
    PROVE  Stored' = <<>>
  <1>1. disk'[0].dirs = <<>>
    BY KeptRootWrite DEF RootCall, Formatted, FifoInv
  <1> QED
    BY <1>1, StoredIsIn

(* Every step.                                                             *)
LEMMA FifoStep ==
    ASSUME DiskKeepsBlocks, OneDirectoryAsked, FifoInv, [Next]_vars
    PROVE  [Fifo!Next]_(Fifo!vars)
  <1>1. CASE Quiet
    BY <1>1, StoredIsIn DEF Quiet, Fifo!vars
  <1>2. CASE RootCall(Formatted)
    BY <1>2, StoredAfterFormat DEF RootCall, Fifo!Clear, Fifo!Next
  <1>3. CASE DirectoryAdded
    BY <1>3, StoredAfterAdd DEF DirectoryAdded, RootCall, Fifo!vars
  <1>4. CASE OldestDeleted
    BY <1>4, StoredAfterDelete DEF OldestDeleted, RootCall, Fifo!Drop, Fifo!Next
  <1>5. CASE WriteBegun
    BY <1>5, StoredIsIn DEF WriteBegun, Fifo!Begin, Fifo!Next
  <1>6. CASE WriteData
    BY <1>6, WriteDataRefines DEF Fifo!Next, Fifo!vars
  <1>7. CASE WriteHeader
    BY <1>7, WriteHeaderRefines DEF Fifo!Next, Fifo!vars
  <1>8. CASE WriteDirectory
    BY <1>8, StoredAfterWrite
       DEF WriteDirectory, Fifo!Add, Fifo!Reuse, Fifo!Pending, Fifo!Next
  <1> QED
    BY <1>1, <1>2, <1>3, <1>4, <1>5, <1>6, <1>7, <1>8, StepKinds DEF FifoInv

(* The directory of a disk that keeps its blocks is a bounded FIFO, over   *)
(* every loss of power.                                                    *)
THEOREM DirectoryIsFifo ==
    ASSUME DiskKeepsBlocks, OneDirectoryAsked
    PROVE  Spec => FifoSpec
  <1>1. Init => Fifo!Init
    <2>1. Init => disk[0] = Blank
      BY TotalBlocksAssumption DEF Init, BlankDisk, Blocks
    <2> QED
      BY <2>1 DEF Init, Fifo!Init, Stored, Blank
  <1>2. FifoInv /\ [Next]_vars => FifoInv'
    BY FifoInvNext
  <1>3. FifoInv /\ [Next]_vars => [Fifo!Next]_(Fifo!vars)
    BY FifoStep
  <1> QED
    BY <1>1, <1>2, <1>3, FifoInvInit, PTL DEF Spec, FifoSpec, Fifo!Spec

(* A call of FS_WriteFile that returned has stored its file.               *)
THEOREM ReturnedIsStored ==
    ASSUME DiskKeepsBlocks, OneDirectoryAsked
    PROVE  Spec => ReturnedWriteIsStored
  <1>1. FifoInv /\ [Next]_vars => FifoInv'
    BY FifoInvNext
  <1>2. FifoInv /\ [Next]_vars =>
           [op.step = "root" /\ op' = Idle /\ mount' =>
               Stored' # <<>> /\ Stored'[Len(Stored')] = op.file]_vars
    <2> SUFFICES ASSUME FifoInv, [Next]_vars,
                        op.step = "root", op' = Idle, mount'
                 PROVE  Stored' # <<>> /\ Stored'[Len(Stored')] = op.file
      OBVIOUS
    <2>1. CASE WriteDirectory
      <3>1. /\ Stored \in Seq(0 .. fileCount)
            /\ op.file = fileCount
            /\ fileCount \in Nat
            /\ \/ Stored' = Append(Stored, fileCount)
               \/ Stored # <<>> /\ Stored' = Append(Tail(Stored), fileCount)
        BY <2>1, StoredAfterWrite DEF FifoInv, IInv
      <3> QED
        BY <3>1
    <2>2. CASE ~WriteDirectory
      <3>1. op # Idle
        BY DEF Idle
      <3> QED
        BY <2>2, <3>1 DEF Next, FS_Init, FS_Mount, FS_Format, FS_AddDirectory,
              FS_DeleteOldestFileInDirectory, FS_WriteFile, WriteData,
              WriteHeader, Crash, RestartDiskHost, DiskKeepsBlocks, vars
    <2> QED
      BY <2>1, <2>2
  <1> QED
    BY <1>1, <1>2, FifoInvInit, PTL DEF Spec, ReturnedWriteIsStored

=============================================================================
