----------------------------- MODULE FifoStore ------------------------------
(***************************************************************************)
(* What a directory of the simple file system promises: a FIFO of at most  *)
(* Capacity files that survives a loss of power. A file is added or        *)
(* dropped as a whole, the oldest is dropped first, and a full store makes *)
(* room for a file by giving up the oldest one. Giving it up and adding    *)
(* the new file are two steps: the loss of power between them leaves the   *)
(* place of the oldest file torn, or already holding the new file.         *)
(***************************************************************************)
EXTENDS Integers, Sequences

CONSTANTS
    Capacity,  \* the quota of the directory
    Torn       \* a place whose file was given up

VARIABLES
    store,     \* the files, oldest first; a file is its number
    newest     \* the highest number given to a file

vars == <<store, newest>>

Init ==
    /\ store = <<>>
    /\ newest = 0

(* A number for a file about to be written.                                *)
Begin ==
    /\ newest' = newest + 1
    /\ UNCHANGED store

(* No place but possibly the first one holds the newest file.              *)
Pending == \A i \in 2 .. Len(store) : store[i] # newest

Add ==
    /\ Len(store) < Capacity
    /\ Pending
    /\ store # <<>> => Head(store) # newest
    /\ store' = Append(store, newest)
    /\ UNCHANGED newest

(* Give up the oldest file of a full store for the newest one.             *)
GiveUpOldest ==
    /\ Len(store) = Capacity
    /\ Pending
    /\ \E file \in {Torn, newest} : store' = [store EXCEPT ![1] = file]
    /\ UNCHANGED newest

(* The place given up becomes the last one.                                *)
Reuse ==
    /\ Len(store) = Capacity
    /\ Pending
    /\ Head(store) = newest
    /\ store' = Append(Tail(store), newest)
    /\ UNCHANGED newest

Drop ==
    /\ store # <<>>
    /\ store' = Tail(store)
    /\ UNCHANGED newest

(* FS_Format. *)
Clear ==
    /\ store' = <<>>
    /\ UNCHANGED newest

Next == Begin \/ Add \/ GiveUpOldest \/ Reuse \/ Drop \/ Clear

Spec == Init /\ [][Next]_vars

=============================================================================
