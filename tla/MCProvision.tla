----------------------------- MODULE MCProvision -----------------------------
EXTENDS Provision

CONSTANTS a1, a2

MCAPs == {a1, a2}
=============================================================================
