----------------------------- MODULE MCRecorder -----------------------------
EXTENDS Recorder

=============================================================================
