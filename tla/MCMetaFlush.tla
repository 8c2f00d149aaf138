---------------------------- MODULE MCMetaFlush -----------------------------
EXTENDS MetaFlush

CONSTANTS u, v, w
=============================================================================
