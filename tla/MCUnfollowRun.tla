---------------------------- MODULE MCUnfollowRun ----------------------------
\* Unfollow runs over two accounts, selections of up to three rows.
EXTENDS UnfollowRun
CONSTANTS a1, a2, me, other
MCAccounts == {a1, a2}
MCViewers == {me, other}
AtTheDelay == {"wait"}
===============================================================================
