--------------------------- MODULE MCSubscription ---------------------------
\* Subscription on a small instance: two texts that say POLL_AFTER, so that a text can
\* change and stay non-terminal, and one that is terminal.
EXTENDS Subscription

CONSTANTS p1, p2, t1

MCPollTexts == {p1, p2}

MCTexts == {p1, p2, t1}
=============================================================================
