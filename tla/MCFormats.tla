------------------------------ MODULE MCFormats ------------------------------
\* The message types of MCNanoPb for Formats, and user keys: one can be shortened
\* in front of the next, and the last consists of the greatest byte.
EXTENDS Formats, MCNanoPb

MCUserKeys == {<<0, 1>>, <<2>>}
=============================================================================
