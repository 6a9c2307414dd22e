-------------------------- MODULE MCExpiryRecovery --------------------------
(***************************************************************************)
(* ExpiryRecovery for TLC: processes of one kind, with the tokens and      *)
(* claims they draw, are interchangeable, and so are event ids.            *)
(***************************************************************************)
EXTENDS ExpiryRecovery, TLC

Interchangeable ==
  Permutations(Events) \cup Permutations(Workers) \cup Permutations(Monitors)
=============================================================================
