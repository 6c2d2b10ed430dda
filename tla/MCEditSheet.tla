---------------------------- MODULE MCEditSheet ----------------------------
\* EditSheet for two tabs, one of which cannot open one of three contents.
EXTENDS EditSheet
CONSTANTS A, B, x, y, z
MCOpaque == {<<A, z>>}
=============================================================================
