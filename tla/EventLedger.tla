---------------------------- MODULE EventLedger ----------------------------
(***************************************************************************)
(* What the monitoring queue promises for one path: events are recorded,   *)
(* and whenever work is settled it is settled for every event recorded so  *)
(* far, never for a part of them.                                          *)
(***************************************************************************)
EXTENDS Naturals

VARIABLES recorded, settled

Init == recorded = 0 /\ settled = 0

Record == recorded' = recorded + 1 /\ UNCHANGED settled

SettleAll == settled' = recorded /\ UNCHANGED recorded

Next == Record \/ SettleAll

Spec == Init /\ [][Next]_<<recorded, settled>>
=============================================================================
