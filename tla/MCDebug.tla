------------------------------- MODULE MCDebug -------------------------------
EXTENDS DebugAccess
MCPayloads == {<<5>>, <<0, 1>>, <<10, 7>>, <<2, 8>>, <<9, 11, 8, 3>>}
==============================================================================
