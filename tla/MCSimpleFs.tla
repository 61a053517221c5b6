---------------------------- MODULE MCSimpleFs ------------------------------
(* Instances of SimpleFs for TLC, and its properties.                      *)
EXTENDS SimpleFs

Entry(name, files, size) ==
    [dirName |-> name, maxFiles |-> files, maxFileSize |-> size]

Reliable == {[done |-> TRUE, result |-> 0]}

(* What was written is there, but the answer may be lost.                  *)
AnswersLost == [done : {TRUE}, result : {0, -1}]

(* Requests and answers may be lost on the way to the disk host.           *)
Unreliable == [done : {TRUE}, result : {0, -1}]
                  \union {[done |-> FALSE, result |-> -1]}

AnyRead == {0, -1}

OneDirectory == {Entry("data", 2, 600)}
OneName == {<<"data", "data">>}

TwoDirectories == {Entry("data", 2, 300), Entry("logs", 3, 300)}
TwoNames == {<<"data", "data">>, <<"logs", "logs">>, <<"lo", "lo">>, <<"lo", "logs">>}

-----------------------------------------------------------------------------
BlocksOf(dir) ==
    dir.firstBlock .. HeaderBlock(dir, dir.maxFiles) - 1

(* FS_AddDirectory gives each directory blocks of its own, after those of  *)
(* the directories already there.                                          *)
DirectoriesDisjoint ==
    \A x, y \in DOMAIN Dirs :
        x # y => BlocksOf(Dirs[x]) \intersect BlocksOf(Dirs[y]) = {}

(* FS_WriteFile returns -1 when a write of one of its blocks failed.       *)
WriteFailureReported ==
    [][op.step = "root" /\ op.failed /\ op' = Idle /\ mount' => result' = -1]_vars

=============================================================================
