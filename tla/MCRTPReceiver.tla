---------------------------- MODULE MCRTPReceiver ----------------------------
EXTENDS RTPReceiver

\* The run with losses is one the theorems of ReceiverProofs are about.
ASSUME LossesFit == ~AllowStop => Fits /\ SkipsAreFew
=============================================================================
