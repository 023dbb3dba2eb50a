---------------------------- MODULE MCMultiStream ----------------------------
EXTENDS MultiStream

\* Two receives that share the pool, or one accept.
MCKinds == {<<"recv", "recv">>, <<"accept", "none">>}
=============================================================================
