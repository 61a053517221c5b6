------------------------- MODULE MCStoreAndForward --------------------------
(* Instances of StoreAndForward for TLC, and its properties.               *)
EXTENDS StoreAndForward

Reliable == {[done |-> TRUE, result |-> 0]}

(* WriteBlock of StoreAndForward answers 0 whatever became of the block.   *)
Silent == {[done |-> TRUE, result |-> 0], [done |-> FALSE, result |-> 0]}

AnyRead == {0, -1}

OneName == {<<"data", "data">>}
OneDirectory == {DataEntry}

-----------------------------------------------------------------------------
(* The process gets through its calls; the timer keeps firing, four times  *)
(* in five for an upload, and the cloud client accepts again and again.    *)
FairSpec ==
    /\ AppSpec
    /\ WF_allVars(Boot)
    /\ WF_allVars(StoreBlock \/ StoreDirectory)
    /\ WF_allVars(DeleteOldest)
    /\ WF_allVars(SendOldest)

(* Once the device stays connected with the upload on, the store empties.  *)
Drained ==
    <>[](isConnected /\ telemetryUploadEnabled) => <>[](Stored = <<>>)

(* Whatever blocks were lost or could not be read, no stored file stands   *)
(* in the way of those behind it: as long as the process runs, the queue   *)
(* it sees empties.  A file that cannot be read may end the process, and   *)
(* do so again after every start; nothing is said of the queue then.       *)
NeverBlocked ==
    <>[](isConnected /\ telemetryUploadEnabled /\ pc # "exit") =>
        <>[](NumFiles = 0)

=============================================================================
