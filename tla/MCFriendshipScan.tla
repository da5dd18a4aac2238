--------------------------- MODULE MCFriendshipScan ---------------------------
\* Scans of two lists of three pages over the viewer and one other account.
EXTENDS FriendshipScan
CONSTANTS me, x
TwoAccounts == {me, x}
===============================================================================
