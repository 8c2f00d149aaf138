---------------------------- MODULE MCQueueFlush ----------------------------
EXTENDS QueueFlush

CONSTANTS x, y, f, g
=============================================================================
