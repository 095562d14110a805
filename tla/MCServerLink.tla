---------------------------- MODULE MCServerLink ----------------------------
EXTENDS ServerLink
Sizes == <<2, 3, 1, 2>>
=============================================================================
