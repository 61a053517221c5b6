------------------------------ MODULE MCCloud -------------------------------
(***************************************************************************)
(* The journal and the device twin of the industrial device controller for *)
(* TLC.  They share the client of the hub, and each takes any refusal of   *)
(* it for what the other leaves of the quota.  So a behaviour has the      *)
(* steps of the one that it chooses at the start.                          *)
(***************************************************************************)
EXTENDS Journal, DeviceTwin

VARIABLE part

cloudVars == <<part, journalVars, twinVars>>

CloudInit ==
    /\ part \in {"journal", "twin"}
    /\ JournalInit
    /\ TwinInit

JournalStep ==
    /\ part = "journal"
    /\ JournalNext
    /\ UNCHANGED <<part, alive, stamp, shared, status, listed, reported, hub,
                   orphans>>

TwinStep ==
    /\ part = "twin"
    /\ TwinNext
    /\ UNCHANGED <<part, phase, events, file, synced, logged, histories>>

(* When the journal has taken its MaxLogs occurrences, it may stop.        *)
AtBound == part = "journal" /\ logged + 2 > MaxLogs /\ UNCHANGED cloudVars

CloudNext == JournalStep \/ TwinStep \/ AtBound

CloudSpec == CloudInit /\ [][CloudNext]_cloudVars
=============================================================================
