----------------------------- MODULE MCGateway ------------------------------
(***************************************************************************)
(* Gateway on three clients of one host: only cleo sends a header to be    *)
(* counted under, and the token of dan is not configured.                  *)
(***************************************************************************)
EXTENDS Gateway

CONSTANTS ann, cleo, dan, token, office, old

MCClients    == {ann, cleo, dan}
MCKeys       == {token, office}
MCHeader     == [c \in Clients |-> IF c = cleo THEN token ELSE Nobody]
MCHost       == [c \in Clients |-> office]
MCCredential == [c \in Clients |-> IF c = dan THEN old ELSE token]
MCHashes     == {token}
=============================================================================
