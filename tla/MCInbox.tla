------------------------------- MODULE MCInbox -------------------------------
\* A message that its sender may repeat under another id, and an advice that
\* expires.
EXTENDS Inbox, TLC

CONSTANTS first, again, advice

MCLogical(m) == IF m = advice THEN "advice" ELSE "text"
MCTopic(m) == "topic"
MCExpiresAt(m) == IF m = advice THEN 1 ELSE MaxTime + 1

Symmetry == Permutations(Lane) \cup Permutations(ClaimId) \cup Permutations(Disposition)
              \cup Permutations({first, again})
===============================================================================
