----------------------------- MODULE MCStreaming -----------------------------
(***************************************************************************)
(* Streaming for TLC: Hermes first, then the local provider, which the     *)
(* configuration does not list; the OpenAI-compatible adapter is listed    *)
(* and not enabled.                                                        *)
(***************************************************************************)
EXTENDS Streaming, Ranking

CONSTANTS hermes, fake, missing, profile

MCTargets == {fake, hermes}
MCHermesTargets == {hermes, profile}
MCLocal == {fake}

MCRanked ==
    LET ordered == OrderedTargets(<<missing, hermes>>,
                       BuildAdapters(<<fake, missing, hermes>>, MCTargets))
    IN  [p \in Profiles |-> RankKeepOrder(p, ordered, MCHermesTargets)]
=============================================================================
