------------------------------ MODULE SimpleFs ------------------------------
(***************************************************************************)
(* The simple file system of SimpleFileSystem_RemoteDisk: directories that *)
(* are circular FIFOs of files on a device of 512-byte blocks, reached      *)
(* through two callbacks that read and write one block.                    *)
(*                                                                         *)
(* Block 0 is the root block: a signature, the number of blocks, and the   *)
(* directories with their ring indices. sfs.c works on a copy of it in     *)
(* memory and writes the whole block back after every change. A file       *)
(* occupies one slot of its directory: a header block, then data blocks.   *)
(* FS_WriteFile writes the data blocks, the header and the root block in   *)
(* that order, one callback each; the device may lose power between any    *)
(* two of them and a callback may fail. The contents of a file are         *)
(* abstracted to its number: the n-th file ever written is file n.         *)
(***************************************************************************)
EXTENDS Integers, Sequences

CONSTANTS
    TotalBlocks,    \* the totalBlocks argument of FS_Init
    Names,          \* the names clients pass to the API
    PrefixOf,       \* pairs <<n, d>>: n is a prefix of d, ignoring case
    DirEntries,     \* the struct dirEntry values clients pass to FS_AddDirectory
    Sizes,          \* the sizes in bytes of the files clients write
    WriteOutcomes,  \* what may become of a write callback
    ReadOutcomes,   \* what a read callback may return
    DiskHostRestarts, \* whether the disk host may be restarted
    MaxWrites       \* bound on the number of files ever written

BLOCK_SIZE == 512
SizeOfRoot == 16
SizeOfDirectory == 32

(***************************************************************************)
(* FS_GetNumberOfBlocksPerFile, and the same rounding in FS_WriteFile and  *)
(* the read functions.                                                     *)
(***************************************************************************)
NumBlocks(size) ==
    size \div BLOCK_SIZE + (IF size % BLOCK_SIZE # 0 THEN 1 ELSE 0)

(* The blocks of one slot: the file header, then the data.                 *)
SlotBlocks(dir) == NumBlocks(dir.maxFileSize) + 1

(* struct dirEntry, the part of a directory that users see.                *)
DirEntry == [dirName : Names, maxFiles : Nat \ {0}, maxFileSize : Nat]

(* struct directory, as it stands in the root block.                       *)
Directory == [dirName : Names, maxFiles : Nat \ {0}, maxFileSize : Nat,
              firstBlock : Nat, head : Nat, tail : Nat, dirFull : {0, 1}]

ASSUME TotalBlocksAssumption == TotalBlocks \in Nat \ {0}

(* strncasecmp(n, d, strlen(n)) = 0 for equal names.                       *)
ASSUME PrefixOfAssumption ==
    /\ PrefixOf \subseteq Names \X Names
    /\ \A n \in Names : <<n, n>> \in PrefixOf

ASSUME ClientAssumption ==
    /\ DirEntries \subseteq DirEntry
    /\ Sizes \subseteq Nat
    /\ DiskHostRestarts \in BOOLEAN
    /\ MaxWrites \in Nat

(* done: whether the block reached the disk; result: what the callback     *)
(* says. A request may be lost, or its answer, or the answer ignored.      *)
ASSUME OutcomesAssumption ==
    /\ WriteOutcomes \subseteq [done : BOOLEAN, result : {0, -1}]
    /\ ReadOutcomes \subseteq {0, -1}
    /\ [done |-> TRUE, result |-> 0] \in WriteOutcomes
    /\ 0 \in ReadOutcomes

VARIABLES
    disk,       \* the blocks of the device
    rootBlock,  \* the copy of block 0 in memory
    init,       \* _init
    mount,      \* _mount
    op,         \* the FS_WriteFile call in progress
    result,     \* what the last call returned
    fileCount   \* how many files were ever written: names their contents

vars == <<disk, rootBlock, init, mount, op, result, fileCount>>

-----------------------------------------------------------------------------
(* What a block can hold.                                                  *)

Blocks == 0 .. TotalBlocks - 1

RootBlock == [sig : BOOLEAN, storageNumBlocks : {0, TotalBlocks},
              dirs : Seq(Directory)]

(* A block that was never written, read as a root block.                   *)
Blank == [sig |-> FALSE, storageNumBlocks |-> 0, dirs |-> <<>>]

FileBlock == [kind : {"header"}, file : Nat, size : Nat]
                 \union [kind : {"data"}, file : Nat, index : Nat]
                 \union {[kind |-> "zero"]}

Idle == [step |-> "idle"]

WriteOp == [step : {"data", "header", "root"}, dir : Nat, file : Nat,
            size : Nat, next : Nat, failed : BOOLEAN]

-----------------------------------------------------------------------------
(* Helpers of sfs.c that read the cached root block.                       *)

FS_IsFileSystemReady == init /\ mount

Dirs == rootBlock.dirs

Matches(name, dir) == <<name, dir.dirName>> \in PrefixOf

(* FS_GetDirectoryByName succeeds.                                         *)
FS_GetDirectoryByName(name) ==
    FS_IsFileSystemReady /\ \E x \in DOMAIN Dirs : Matches(name, Dirs[x])

(* FS_GetDirectoryFromName leaves x in directoryIndex: the first match, or *)
(* the first directory of all when none matches, for it returns 0 then too.*)
FS_GetDirectoryFromName(name, x) ==
    /\ FS_IsFileSystemReady
    /\ x \in DOMAIN Dirs
    /\ IF FS_GetDirectoryByName(name)
       THEN /\ Matches(name, Dirs[x])
            /\ \A y \in 1 .. x - 1 : ~Matches(name, Dirs[y])
       ELSE x = 1

(* FS_GetNumberOfFilesInDirectory for a directory that was found.          *)
NumberOfFiles(dir) ==
    IF dir.dirFull = 1 THEN dir.maxFiles
    ELSE IF dir.head >= dir.tail THEN dir.head - dir.tail
    ELSE dir.maxFiles + dir.head - dir.tail

HeaderBlock(dir, slot) == dir.firstBlock + slot * SlotBlocks(dir)

(* Mutants of the next two: a full directory keeps its oldest slot; the    *)
(* index of the oldest slot runs past the end of the ring.                 *)
AfterWriteKeepsTail(dir) ==
    LET head == (dir.head + 1) % dir.maxFiles
    IN  [dir EXCEPT !.head = head, !.dirFull = IF head = dir.tail THEN 1 ELSE @]

AfterDeleteUnwrapped(dir) == [dir EXCEPT !.dirFull = 0, !.tail = @ + 1]

(* FS_GetFullDirectory, FS_WriteDirectoryToRoot: the directory after one   *)
(* more file, and after one file less.                                     *)
AfterWrite(dir) ==
    LET tail == IF dir.dirFull = 1 THEN (dir.tail + 1) % dir.maxFiles
                                   ELSE dir.tail
        head == (dir.head + 1) % dir.maxFiles
    IN  [dir EXCEPT !.head = head, !.tail = tail,
                    !.dirFull = IF head = tail THEN 1 ELSE @]

AfterDelete(dir) ==
    [dir EXCEPT !.dirFull = 0, !.tail = (@ + 1) % dir.maxFiles]

-----------------------------------------------------------------------------
(* What FS_ReadOldestFile and FS_ReadFileForIndex find in a slot: the file *)
(* whose header and data blocks are all there, or Torn when the header and *)
(* the data belong to different files.                                     *)
Torn == 0

FileAt(dir, slot) ==
    LET at == HeaderBlock(dir, slot)
        header == disk[at]
    IN  IF /\ header.kind = "header"
           /\ \A i \in 1 .. NumBlocks(header.size) :
                 disk[at + i] = [kind |-> "data", file |-> header.file,
                                 index |-> i]
        THEN header.file
        ELSE Torn

(* The slot of the i-th oldest file (i = 1 is FS_ReadOldestFile's, i + 1   *)
(* FS_ReadFileForIndex's).                                                 *)
SlotOf(dir, i) == (dir.tail + i - 1) % dir.maxFiles

FilesOf(dir) == [i \in 1 .. NumberOfFiles(dir) |-> FileAt(dir, SlotOf(dir, i))]

(* The files of the first directory, as the next mount will find them.     *)
Stored == IF disk[0].dirs = <<>> THEN <<>> ELSE FilesOf(disk[0].dirs[1])

-----------------------------------------------------------------------------
BlankDisk == [b \in Blocks |-> IF b = 0 THEN Blank ELSE [kind |-> "zero"]]

Init ==
    /\ disk = BlankDisk
    /\ rootBlock = Blank
    /\ init = FALSE
    /\ mount = FALSE
    /\ op = Idle
    /\ result = 0
    /\ fileCount = 0

(* A call that returns r without a change.                                 *)
Return(r) ==
    /\ result' = r
    /\ UNCHANGED <<disk, rootBlock, init, mount, op, fileCount>>

(* Mutant of the next: the change does not reach the cache.                *)
WriteRootBlockUncached(root) ==
    \E w \in WriteOutcomes :
        /\ disk' = IF w.done THEN [disk EXCEPT ![0] = root] ELSE disk
        /\ result' = w.result
        /\ UNCHANGED rootBlock

(* Write the cached root block, changed to root, back to the device: the   *)
(* cache holds the change whether the write succeeds or not.               *)
WriteRootBlock(root) ==
    \E w \in WriteOutcomes :
        /\ rootBlock' = root
        /\ disk' = IF w.done THEN [disk EXCEPT ![0] = root] ELSE disk
        /\ result' = w.result

FS_Init ==
    /\ op = Idle
    /\ init' = TRUE
    /\ result' = 0
    /\ UNCHANGED <<disk, rootBlock, mount, op, fileCount>>

(* The root block is read into the cache before its signature is looked    *)
(* at; a failed mount does not unmount.                                    *)
FS_Mount ==
    /\ op = Idle
    /\ \/ ~init /\ Return(-1)
       \/ init /\ -1 \in ReadOutcomes /\ Return(-1)
       \/ /\ init
          /\ rootBlock' = disk[0]
          /\ LET valid == disk[0].sig /\ disk[0].storageNumBlocks # 0
             IN  /\ mount' = (mount \/ valid)
                 /\ result' = IF valid THEN 0 ELSE -1
          /\ UNCHANGED <<disk, init, op, fileCount>>

FS_Format ==
    /\ op = Idle
    /\ \/ ~init /\ Return(-1)
       \/ /\ init
          /\ WriteRootBlock([sig |-> TRUE, storageNumBlocks |-> TotalBlocks,
                             dirs |-> <<>>])
          /\ UNCHANGED <<init, mount, op, fileCount>>

(* Mutant of the next: the root block is not counted.                      *)
NextBlockFromZero(entry) == Len(Dirs) * NumBlocks(entry.maxFileSize)

(* The first block after the directories already there, as sfs.c counts it:*)
(* the new directory's blocks per file for each of them.                   *)
NextBlock(entry) == Len(Dirs) * NumBlocks(entry.maxFileSize) + 1

RefusesDirectory(entry) ==
    \/ ~FS_IsFileSystemReady
    \/ FS_GetDirectoryByName(entry.dirName)
    \/ Len(Dirs) + 1 * SizeOfDirectory + SizeOfRoot > BLOCK_SIZE
    \/ SlotBlocks(entry) * entry.maxFiles + NextBlock(entry)
           > rootBlock.storageNumBlocks

FS_AddDirectory(entry) ==
    /\ op = Idle
    /\ \/ RefusesDirectory(entry) /\ Return(-1)
       \/ /\ ~RefusesDirectory(entry)
          /\ LET dir == [dirName |-> entry.dirName,
                         maxFiles |-> entry.maxFiles,
                         maxFileSize |-> entry.maxFileSize,
                         firstBlock |-> NextBlock(entry),
                         head |-> 0, tail |-> 0, dirFull |-> 0]
             IN  WriteRootBlock([rootBlock EXCEPT !.dirs = Append(@, dir)])
          /\ UNCHANGED <<init, mount, op, fileCount>>

FS_DeleteOldestFileInDirectory(name) ==
    /\ op = Idle
    /\ \/ (~FS_IsFileSystemReady \/ Dirs = <<>>) /\ Return(-1)
       \/ \E x \in DOMAIN Dirs :
            /\ FS_GetDirectoryFromName(name, x)
            /\ \/ NumberOfFiles(Dirs[x]) = 0 /\ Return(-1)
               \/ /\ NumberOfFiles(Dirs[x]) # 0
                  /\ WriteRootBlock([rootBlock EXCEPT
                                         !.dirs[x] = AfterDelete(@)])
                  /\ UNCHANGED <<init, mount, op, fileCount>>

-----------------------------------------------------------------------------
(* FS_WriteFile: find the slot, then one action per block written.         *)

FS_WriteFile(name, size) ==
    /\ op = Idle
    /\ \/ (~FS_IsFileSystemReady \/ Dirs = <<>>) /\ Return(-1)
       \/ \E x \in DOMAIN Dirs :
            /\ FS_GetDirectoryFromName(name, x)
            /\ \/ size > Dirs[x].maxFileSize /\ Return(-1)
               \/ /\ size <= Dirs[x].maxFileSize
                  /\ fileCount < MaxWrites
                  /\ fileCount' = fileCount + 1
                  /\ op' = [step |-> IF size = 0 THEN "header" ELSE "data",
                            dir |-> x, file |-> fileCount + 1,
                            size |-> size, next |-> 1, failed |-> FALSE]
                  /\ UNCHANGED <<disk, rootBlock, init, mount, result>>

(* The callback for one block of the file being written. FS_WriteFile does *)
(* not look at its result; failed remembers that one was -1.               *)
WriteFileBlock(block, content, nextOp) ==
    \E w \in WriteOutcomes :
        /\ disk' = IF w.done THEN [disk EXCEPT ![block] = content] ELSE disk
        /\ op' = [nextOp EXCEPT !.failed = @ \/ w.result = -1]
        /\ UNCHANGED <<rootBlock, init, mount, result, fileCount>>

(* Mutant of the next: the oldest slot is written, not the free one.       *)
OpHeaderBlockOfOldest == HeaderBlock(Dirs[op.dir], Dirs[op.dir].tail)

OpHeaderBlock == HeaderBlock(Dirs[op.dir], Dirs[op.dir].head)

WriteData ==
    /\ op.step = "data"
    /\ WriteFileBlock(
          OpHeaderBlock + op.next,
          [kind |-> "data", file |-> op.file, index |-> op.next],
          IF op.next = NumBlocks(op.size) THEN [op EXCEPT !.step = "header"]
                                          ELSE [op EXCEPT !.next = @ + 1])

WriteHeader ==
    /\ op.step = "header"
    /\ WriteFileBlock(
          OpHeaderBlock,
          [kind |-> "header", file |-> op.file, size |-> op.size],
          [op EXCEPT !.step = "root"])

WriteDirectory ==
    /\ op.step = "root"
    /\ WriteRootBlock([rootBlock EXCEPT !.dirs[op.dir] = AfterWrite(@)])
    /\ op' = Idle
    /\ UNCHANGED <<init, mount, fileCount>>

(* The device loses power or the application is restarted: what is in      *)
(* memory is gone, what is on the disk host stays.                         *)
Crash ==
    /\ rootBlock' = Blank
    /\ init' = FALSE
    /\ mount' = FALSE
    /\ op' = Idle
    /\ result' = 0
    /\ UNCHANGED <<disk, fileCount>>

(* PyDiskHost keeps the disk in memory: restarting it blanks every block.  *)
RestartDiskHost ==
    /\ DiskHostRestarts
    /\ disk' = BlankDisk
    /\ UNCHANGED <<rootBlock, init, mount, op, result, fileCount>>

Next ==
    \/ FS_Init
    \/ FS_Mount
    \/ FS_Format
    \/ \E entry \in DirEntries : FS_AddDirectory(entry)
    \/ \E name \in Names : FS_DeleteOldestFileInDirectory(name)
    \/ \E name \in Names, size \in Sizes : FS_WriteFile(name, size)
    \/ WriteData
    \/ WriteHeader
    \/ WriteDirectory
    \/ Crash
    \/ RestartDiskHost

Spec == Init /\ [][Next]_vars

-----------------------------------------------------------------------------
(* The types of the variables. Block 0 holds a root block, whatever the    *)
(* faults: no file is ever written over it.                                *)
TypeOK ==
    /\ disk \in [Blocks -> RootBlock \union FileBlock]
    /\ disk[0] \in RootBlock
    /\ rootBlock \in RootBlock
    /\ init \in BOOLEAN
    /\ mount \in BOOLEAN
    /\ op \in {Idle} \union WriteOp
    /\ result \in {0, -1}
    /\ fileCount \in Nat

(* The ring of a directory: its indices are in range, a full directory has *)
(* no gap between newest and oldest, and its files fit on the device.      *)
DirectoryWellFormed(dir) ==
    /\ dir.head \in 0 .. dir.maxFiles - 1
    /\ dir.tail \in 0 .. dir.maxFiles - 1
    /\ dir.dirFull = 1 => dir.head = dir.tail
    /\ dir.firstBlock >= 1
    /\ HeaderBlock(dir, dir.maxFiles) <= TotalBlocks

(* Whatever callbacks fail and whenever power is lost, the directories in  *)
(* memory and those that the next mount will find are well-formed.         *)
DirectoriesWellFormed ==
    \A root \in {rootBlock, disk[0]} :
        \A x \in DOMAIN root.dirs : DirectoryWellFormed(root.dirs[x])

(* A write in progress never touches a block of a file that its directory  *)
(* still holds, but for the oldest one of a full directory, which it       *)
(* replaces.                                                               *)
SlotsInUse(dir) ==
    {SlotOf(dir, i) : i \in (IF dir.dirFull = 1 THEN 2 ELSE 1)
                               .. NumberOfFiles(dir)}

LiveFilesUntouched ==
    [][op # Idle /\ disk' # BlankDisk =>
          \A slot \in SlotsInUse(Dirs[op.dir]),
             k \in 0 .. SlotBlocks(Dirs[op.dir]) - 1 :
                LET b == HeaderBlock(Dirs[op.dir], slot) + k
                IN  disk'[b] = disk[b]]_vars

-----------------------------------------------------------------------------
(* A disk that keeps what is written to it: requests arrive, and the disk  *)
(* host goes on. Answers and reads may still fail.                         *)
DiskKeepsBlocks == ~DiskHostRestarts /\ \A w \in WriteOutcomes : w.done

(* A client that asks for one directory.                                   *)
TheEntry == CHOOSE entry \in DirEntries : TRUE

OneDirectoryAsked == DirEntries = {TheEntry}

(* The only directory of such a disk is a bounded FIFO: through every      *)
(* interruption of FS_WriteFile what is on the disk changes only in the    *)
(* ways FifoStore allows.                                                  *)
Fifo == INSTANCE FifoStore WITH Capacity <- TheEntry.maxFiles,
                                store <- Stored, newest <- fileCount

FifoSpec == Fifo!Spec

(* While the file system is mounted and the disk does not fail, the cached *)
(* root block is the one on the disk: what the queries of the API answer   *)
(* from the cache would survive a restart.                                 *)
CacheMatchesMedia == mount => rootBlock = disk[0]

(* Once FS_WriteFile has returned, its file is on the disk, whole, and the *)
(* newest of its directory.                                                *)
ReturnedWriteIsStored ==
    [][op.step = "root" /\ op' = Idle /\ mount' =>
          Stored' # <<>> /\ Stored'[Len(Stored')] = op.file]_vars

=============================================================================
