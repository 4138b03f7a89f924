------------------------------- MODULE MCHub -------------------------------
EXTENDS Hub
MCOrder == <<"first", "second">>
=============================================================================
