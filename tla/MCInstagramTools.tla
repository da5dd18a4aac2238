--------------------------- MODULE MCInstagramTools ---------------------------
\* The application with three operations, enough for scan, unfollow and one more.
EXTENDS InstagramTools
===============================================================================
