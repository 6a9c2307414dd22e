--------------------------- MODULE MCEpisodeStore ---------------------------
(***************************************************************************)
(* EpisodeStore for TLC: statements compare ids and tokens for equality    *)
(* only, so events, publication tokens and claims are interchangeable.     *)
(***************************************************************************)
EXTENDS EpisodeMemory, TLC

Interchangeable ==
  Permutations(Events) \cup Permutations(Tokens) \cup Permutations(Claims)
=============================================================================
