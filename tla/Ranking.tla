------------------------------ MODULE Ranking -------------------------------
(***************************************************************************)
(* The order in which the router tries the provider targets                *)
(* (providers/registry.py, providers/router.py): pure functions of the     *)
(* configuration.                                                          *)
(***************************************************************************)
EXTENDS Sequences, Naturals

Members(seq) == {seq[i] : i \in 1..Len(seq)}

\* The adapters the registry builds, in the order it builds them: fake, the OpenAI
\* compatible one and hermes, each if it is enabled.
BuildAdapters(kinds, on) ==
    LET Enabled(t) == t \in on
    IN  SelectSeq(kinds, Enabled)

\* The enabled targets that have an adapter, then the adapters not listed. A
\* target listed twice stays twice.
OrderedTargets(enabled, adapters) ==
    LET Built(t)    == t \in Members(adapters)
        Unlisted(t) == t \notin Members(enabled)
    IN  SelectSeq(enabled, Built) \o SelectSeq(adapters, Unlisted)

\* Only the Hermes profile narrows the list.
RankKeepOrder(profile, ordered, hermesTargets) ==
    LET Eligible(t) == t \in hermesTargets
    IN  IF profile = "hermes" THEN SelectSeq(ordered, Eligible) ELSE ordered
=============================================================================
