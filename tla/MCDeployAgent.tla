---------------------------- MODULE MCDeployAgent ----------------------------
EXTENDS DeployAgent, TLC

CONSTANTS c1, c2, m1, m2

\* c2 brings a migration that c1 does not have.
SecondMigrates == (c1 :> {m1}) @@ (c2 :> {m1, m2})
=============================================================================
