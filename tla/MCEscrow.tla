------------------------------ MODULE MCEscrow ------------------------------
\* Small instances of BridgeSureEscrow for TLC.
EXTENDS BridgeSureEscrow

Signed(milestoneId, amount, nonce, expiry, wrong) ==
    [milestoneId |-> milestoneId, amount |-> amount, nonce |-> nonce,
     expiry |-> expiry, wrong |-> wrong]

\* Two sound authorizations for each milestone and each refund ...
SoundAuthorizations ==
    { Signed(m, IF m = 0 THEN 0 ELSE MilestoneAmount(m), nonce, 1, {}) :
        m \in {0, 1, 2}, nonce \in {1, 2} }

\* ... and authorizations each with one thing wrong: a field, the amount, a
\* milestone that does not exist, a deadline already reached.
FaultyAuthorizations ==
    { Signed(m, IF m = 0 THEN 0 ELSE MilestoneAmount(m), 3, 1, {field}) :
        m \in {0, 1}, field \in Fields }
    \cup { Signed(1, M2, 3, 1, {}), Signed(2, M1, 3, 1, {}),
           Signed(3, M2, 3, 1, {}), Signed(1, M1, 3, 0, {}) }

MCAuthorizations == SoundAuthorizations \cup FaultyAuthorizations

=============================================================================
