---------------------------- MODULE MCJsonlLedger ----------------------------
\* Four requests, two of which reuse one key with different content.
EXTENDS JsonlLedger

CONSTANTS a, b, c, d

MCKey(r) == IF r \in {a, b} THEN "shared" ELSE IF r = c THEN "kc" ELSE "kd"
===============================================================================
