-------------------------- MODULE StoreAndForward ---------------------------
(***************************************************************************)
(* The telemetry loop of AzureIoT_StoreAndForward on top of the simple     *)
(* file system. A one-second timer runs one callback: on every fifth       *)
(* second it takes a sample, and sends it at once or stores it; on the     *)
(* other seconds it sends the oldest stored sample and, once the cloud     *)
(* client has accepted it, deletes it. A button and a device-twin update   *)
(* switch the upload on and off. Everything runs on one event loop, so     *)
(* callbacks do not interleave; what may come in between is the loss of    *)
(* power, or an exit of the process, at any block written.                 *)
(*                                                                         *)
(* Sample n is the n-th sample taken: its number stands for its timestamp. *)
(* A stored sample is a file of the directory "data" with that number.     *)
(***************************************************************************)
EXTENDS SimpleFs, FiniteSets

CONSTANTS
    MaxFiles,                 \* the quota of "data"
    MaxCrashes                \* bound on the number of restarts

VARIABLES
    pc,                       \* where the process is
    isConnected,
    telemetryUploadEnabled,
    cloud,                    \* the samples the cloud client accepted, in order
    crashes,                  \* how often the process was restarted
    interrupted               \* a restart hit a write into a full directory

appVars == <<pc, isConnected, telemetryUploadEnabled, cloud, crashes,
             interrupted>>
allVars == <<vars, appVars>>

SampleSize == 16   \* sizeof(FileData): within one block

DataEntry == [dirName |-> "data", maxFiles |-> MaxFiles, maxFileSize |-> 256]

(* What the application asks of the file system: one directory, and files  *)
(* of one size.                                                            *)
ASSUME ApplicationAssumption ==
    /\ Names = {"data"}
    /\ DirEntries = {DataEntry}
    /\ Sizes = {SampleSize}
    /\ MaxCrashes \in Nat

(* A buffer that no file was read into: a temperature and time of nobody.  *)
Garbage == 0

-----------------------------------------------------------------------------
AppInit ==
    /\ Init
    /\ pc = "init"
    /\ isConnected = FALSE
    /\ telemetryUploadEnabled = FALSE
    /\ cloud = <<>>
    /\ crashes = 0
    /\ interrupted = FALSE

Goto(label) ==
    /\ pc' = label
    /\ UNCHANGED <<isConnected, telemetryUploadEnabled, cloud, crashes,
                   interrupted>>

(* The next label when the call just made succeeded, and when it did not.  *)
Branch(succeeded, failed) ==
    Goto(IF result' = 0 THEN succeeded ELSE failed)

-----------------------------------------------------------------------------
(* InitializeFileSystem. *)

InitFileSystem == pc = "init" /\ FS_Init /\ Branch("mount", "exit")

Mount == pc = "mount" /\ FS_Mount /\ Branch("directory", "format")

Format == pc = "format" /\ FS_Format /\ Branch("remount", "exit")

Remount == pc = "remount" /\ FS_Mount /\ Branch("directory", "exit")

OpenDirectory ==
    /\ pc = "directory"
    /\ IF FS_GetDirectoryByName("data")
       THEN Goto("run") /\ UNCHANGED vars
       ELSE FS_AddDirectory(DataEntry) /\ Branch("run", "exit")

-----------------------------------------------------------------------------
(* The callbacks of the event loop.                                        *)

ConnectionChanged(connected) ==
    /\ pc = "run"
    /\ isConnected' = connected
    /\ UNCHANGED <<vars, pc, telemetryUploadEnabled, cloud, crashes,
                   interrupted>>

(* Button A toggles the switch, a twin update sets it.                     *)
SetUploadEnabled(enabled) ==
    /\ pc = "run"
    /\ telemetryUploadEnabled' = enabled
    /\ UNCHANGED <<vars, pc, isConnected, cloud, crashes, interrupted>>

(* FS_GetNumberOfFilesInDirectory("data"): -1 when nothing is mounted.     *)
NumFiles ==
    IF FS_IsFileSystemReady /\ Dirs # <<>>
    THEN NumberOfFiles(Dirs[1])
    ELSE -1

(* Cloud_SendTelemetry: the client takes the message for delivery, or not. *)
Accept(sample) == cloud' = Append(cloud, sample)
Reject == UNCHANGED cloud

(* Mutant of the next: what is stored is not looked at.                    *)
SendsAlways == telemetryUploadEnabled

(* tm_sec % 5 == 0: take a sample, send it if nothing older is stored.     *)
SendsAtOnce == telemetryUploadEnabled /\ NumFiles = 0

TakeAndSend ==
    /\ pc = "run" /\ isConnected /\ SendsAtOnce
    /\ fileCount < MaxWrites
    /\ fileCount' = fileCount + 1
    /\ Accept(fileCount') \/ Reject
    /\ UNCHANGED <<disk, rootBlock, init, mount, op, result, pc, isConnected,
                   telemetryUploadEnabled, crashes, interrupted>>

(* Mutant of the next: other callbacks may run before the file is written. *)
TakeAndStoreLater ==
    /\ pc = "run" /\ isConnected /\ ~SendsAtOnce
    /\ fileCount < MaxWrites
    /\ FS_WriteFile("data", SampleSize)
    /\ Goto("run")

(* assert(FS_WriteFile(...) == 0), in a build with assertions.             *)
TakeAndStore ==
    /\ pc = "run" /\ isConnected /\ ~SendsAtOnce
    /\ fileCount < MaxWrites
    /\ FS_WriteFile("data", SampleSize)
    /\ Goto(IF op' = Idle THEN "exit" ELSE "store")

StoreBlock ==
    /\ pc = "store"
    /\ WriteData \/ WriteHeader
    /\ UNCHANGED appVars

StoreDirectory == pc = "store" /\ WriteDirectory /\ Branch("run", "exit")

(* What the buffer holds after FS_GetOldestFileInfo and FS_ReadOldestFile, *)
(* whose results are not looked at: the data block if the header is there  *)
(* to tell its size.                                                       *)
OldestSample ==
    LET dir == Dirs[1]
        at == HeaderBlock(dir, dir.tail)
    IN  IF disk[at].kind = "header" /\ disk[at + 1].kind = "data"
        THEN disk[at + 1].file
        ELSE Garbage

(* Mutant of the next: one file too many is required.                      *)
ForwardsAllButOne == telemetryUploadEnabled /\ NumFiles > 1

(* Any other second: send the oldest sample (one that the client rejects   *)
(* leaves everything as it was) ...                                        *)
Forwards == telemetryUploadEnabled /\ NumFiles # 0

(* Mutants of the next: the sample is not deleted, it is deleted also when *)
(* it was rejected, a sample that cannot be read is not sent.              *)
SendOldestAgain ==
    /\ pc = "run" /\ isConnected /\ Forwards
    /\ Accept(OldestSample)
    /\ UNCHANGED <<vars, pc, isConnected, telemetryUploadEnabled, crashes,
                   interrupted>>

SendOldestOrDrop ==
    /\ pc = "run" /\ isConnected /\ Forwards
    /\ Accept(OldestSample) \/ Reject
    /\ pc' = "delete"
    /\ UNCHANGED <<vars, isConnected, telemetryUploadEnabled, crashes,
                   interrupted>>

SendOldestIfReadable ==
    /\ pc = "run" /\ isConnected /\ Forwards
    /\ OldestSample # Garbage
    /\ Accept(OldestSample)
    /\ pc' = "delete"
    /\ UNCHANGED <<vars, isConnected, telemetryUploadEnabled, crashes,
                   interrupted>>

(* Nothing that was read is looked at: a size and a time that are not      *)
(* there may end the process, as in malloc and gmtime, before anything is  *)
(* sent.                                                                   *)
SendOldest ==
    /\ pc = "run" /\ isConnected /\ Forwards
    /\ \E r \in ReadOutcomes :
          LET sample == IF r = 0 /\ NumFiles > 0 THEN OldestSample ELSE Garbage
          IN  \/ Accept(sample) /\ pc' = "delete"
              \/ sample = Garbage /\ Reject /\ pc' = "exit"
    /\ UNCHANGED <<vars, isConnected, telemetryUploadEnabled, crashes,
                   interrupted>>

(* ... and delete it; the result of the deletion is not looked at.         *)
DeleteOldest ==
    /\ pc = "delete"
    /\ FS_DeleteOldestFileInDirectory("data")
    /\ Goto("run")

-----------------------------------------------------------------------------
(* Loss of power, or the restart of a process that exited.                 *)
Restart ==
    /\ crashes < MaxCrashes
    /\ Crash
    /\ pc' = "init"
    /\ isConnected' = FALSE
    /\ telemetryUploadEnabled' = FALSE
    /\ crashes' = crashes + 1
    /\ interrupted' =
          (interrupted \/ (op # Idle /\ Dirs[op.dir].dirFull = 1))
    /\ UNCHANGED cloud

LoseDisk == RestartDiskHost /\ UNCHANGED appVars

Boot == InitFileSystem \/ Mount \/ Format \/ Remount \/ OpenDirectory

Callback ==
    \/ TakeAndSend \/ TakeAndStore \/ StoreBlock \/ StoreDirectory
    \/ SendOldest \/ DeleteOldest

Environment ==
    \/ \E connected \in BOOLEAN : ConnectionChanged(connected)
    \/ \E enabled \in BOOLEAN : SetUploadEnabled(enabled)
    \/ Restart
    \/ LoseDisk

AppNext == Boot \/ Callback \/ Environment

AppSpec == AppInit /\ [][AppNext]_allVars

-----------------------------------------------------------------------------
(* The types of the variables: between two callbacks no file is half       *)
(* written, and what the cloud got are samples that were taken, or garbage.*)
AppTypeOK ==
    /\ TypeOK
    /\ pc \in {"init", "mount", "format", "remount", "directory", "run",
               "store", "delete", "exit"}
    /\ (op # Idle) = (pc = "store")
    /\ isConnected \in BOOLEAN
    /\ telemetryUploadEnabled \in BOOLEAN
    /\ cloud \in Seq(Garbage .. fileCount)
    /\ crashes \in 0 .. MaxCrashes
    /\ interrupted \in BOOLEAN

-----------------------------------------------------------------------------
(* The cloud client gets the samples in the order they were taken, whether *)
(* sent at once or stored first, and over restarts at any point; only a    *)
(* restart in the middle of a write into a full directory is excepted,     *)
(* which leaves the oldest slot half overwritten.                          *)
OrderPreserved ==
    ~interrupted => \A i \in 2 .. Len(cloud) : cloud[i - 1] <= cloud[i]

(* A sample is sent twice only when a restart falls between the send and   *)
(* the deletion: at most once per restart.                                 *)
Repeats == {i \in 2 .. Len(cloud) : cloud[i - 1] = cloud[i]}

RepeatsAreRestarts == ~interrupted => Cardinality(Repeats) <= crashes

Elements(seq) == {seq[i] : i \in DOMAIN seq}

(* A stored sample leaves the disk only after the cloud client accepted    *)
(* it, or as the oldest of a full directory that a new sample replaces.    *)
KeptUntilAccepted ==
    [][\A i \in DOMAIN Stored :
          \/ Stored[i] = Torn
          \/ Stored[i] \in Elements(Stored')
          \/ Stored[i] \in Elements(cloud)
          \/ i = 1 /\ Len(Stored) = MaxFiles /\ pc = "store"]_allVars

=============================================================================
