----------------------------- MODULE InboundMC -----------------------------
(* Both channels, for every way in which two customers may have written three *)
(* messages, up to an exchange of the two.                                    *)
EXTENDS Inbound

CONSTANT FirstUser

MCWriters ==
    {f \in [Msgs -> Users \cup {NoText}] :
        LET texts == {m \in Msgs : f[m] # NoText}
        IN  texts # {} => f[Min(texts)] = FirstUser}
=============================================================================
