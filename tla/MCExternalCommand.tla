-------------------------- MODULE MCExternalCommand --------------------------
\* Instances of ExternalCommand for TLC.
EXTENDS ExternalCommand

Codes == {-1, 0, 3}
=============================================================================
