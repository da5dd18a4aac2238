---------------------------- MODULE MCFeedScanner ----------------------------
\* Feeds of up to two articles out of two posts of any kind.
EXTENDS FeedScanner
CONSTANTS p1, p2
MCPosts == {p1, p2}
DuringTheDelay == {"delay"}
===============================================================================
