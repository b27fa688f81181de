----------------------------- MODULE MCRtpServer -----------------------------
EXTENDS RtpServer
==============================================================================
