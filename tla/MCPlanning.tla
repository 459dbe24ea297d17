----------------------------- MODULE MCPlanning -----------------------------
(***************************************************************************)
(* Planning for TLC, with the ranking the code computes for two adapters,  *)
(* fake and hermes, where the configuration also lists a target without    *)
(* adapter and does not list hermes.                                       *)
(***************************************************************************)
EXTENDS Planning, Ranking

CONSTANTS hermes, fake, missing, profile

MCTargets == {fake, hermes}
MCHermesTargets == {hermes, profile}

MCRanked ==
    LET ordered == OrderedTargets(<<missing, fake>>,
                       BuildAdapters(<<fake, missing, hermes>>, MCTargets))
    IN  [p \in Profiles |-> RankKeepOrder(p, ordered, MCHermesTargets)]
=============================================================================
