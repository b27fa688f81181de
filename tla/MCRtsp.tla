------------------------------- MODULE MCRtsp -------------------------------
EXTENDS RtspPlayer
=============================================================================
