---------------------------- MODULE MCBootstrap -----------------------------
EXTENDS Bootstrap

const_Services == <<"node", "tracker", "encoder">>
=============================================================================
