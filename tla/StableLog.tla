------------------------------ MODULE StableLog ------------------------------
(***************************************************************************)
(* What the log manager promises: an append-only sequence of records, a    *)
(* prefix of which is on disk and survives a crash.  A crash can put all   *)
(* that is on disk out of the readers' reach, for good; nothing else hides *)
(* a record.  LogMgr is shown to implement this module as long as          *)
(* iterator() does not run beside an append.                               *)
(***************************************************************************)
EXTENDS Naturals, Sequences

CONSTANTS Records

VARIABLES log,      \* every record appended and not lost in a crash
          stable,   \* how many of them are on disk
          unread    \* how many of these no iterator can reach any more

Init == log = <<>> /\ stable = 0 /\ unread = 0

Add(r) ==
    /\ log' = Append(log, r)
    /\ UNCHANGED <<stable, unread>>

Save ==
    /\ stable' \in stable .. Len(log)
    /\ UNCHANGED <<log, unread>>

Crash ==
    /\ log' = SubSeq(log, 1, stable)
    /\ unread' \in {unread, stable}
    /\ UNCHANGED stable

Next == (\E r \in Records : Add(r)) \/ Save \/ Crash

Spec == Init /\ [][Next]_<<log, stable, unread>>
=============================================================================
