---------------------------- MODULE MC_CaptureLoop ----------------------------
EXTENDS CaptureLoop
=============================================================================
