------------------------------ MODULE OneLogin ------------------------------
(***************************************************************************)
(* What the durable authentication attempt of one (bank, run) promises the *)
(* rest of RD-Sync, with no leases, tokens or generations: credentials are *)
(* handed to the bank portal by one holder at most, that holder alone may  *)
(* submit them, at most once, and once the attempt is settled nobody gets  *)
(* near the portal any more.                                               *)
(***************************************************************************)
CONSTANT Holders       \* whoever may be let near the portal

VARIABLES stage,       \* how far the login got at the portal
          writers,     \* who was ever let write credentials there
          submitters   \* who was ever let press submit

oneVars == <<stage, writers, submitters>>

Stages == {"untouched", "filling", "submitted", "settled"}

OneInit == stage = "untouched" /\ writers = {} /\ submitters = {}

\* The first holder puts credentials into the portal.
LetIn ==
  /\ stage = "untouched"
  /\ stage' = "filling"
  /\ \E h \in writers' : h \in Holders /\ writers' = {h}
  /\ UNCHANGED submitters

\* The same holder, and nobody else, may press the submit control.
LetSubmit ==
  /\ stage = "filling"
  /\ stage' = "submitted"
  /\ submitters' = writers
  /\ UNCHANGED writers

\* The attempt gets its verdict.
Settle ==
  /\ stage # "settled"
  /\ stage' = "settled"
  /\ UNCHANGED <<writers, submitters>>

OneNext == LetIn \/ LetSubmit \/ Settle

OneSpec == OneInit /\ [][OneNext]_oneVars
=============================================================================
