------------------------------ MODULE MCGames ------------------------------
\* Three workers on two games of two admins.
EXTENDS Games
=============================================================================
