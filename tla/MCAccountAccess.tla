--------------------------- MODULE MCAccountAccess ---------------------------
EXTENDS AccountAccess, TLC

AccessSymmetry ==
  Permutations(Requests) \cup Permutations(Devices) \cup Permutations(Challenges)

\* Trusted devices and the OAuth connection touch each other only through the
\* account's row: a behaviour of the run uses one of them, next to all requests
\* of sessions and of the recovery code.
DevicesOrGrants == saved = 0 \/ \A d \in Devices : device[d].state = "none"
=============================================================================
