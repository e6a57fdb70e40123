---------------------------- MODULE MCFlipQueue ----------------------------
EXTENDS FlipQueue
=============================================================================
