--------------------------- MODULE MCLegacyPlugin ---------------------------
EXTENDS LegacyPlugin

\* A session that is rewritten, grows and is reverted.
MCHistories == {<<1>>, <<2>>, <<1, 2>>}
=============================================================================
