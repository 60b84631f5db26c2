------------------------------ MODULE MCLists -------------------------------
EXTENDS Lists
=============================================================================
