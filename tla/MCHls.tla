-------------------------------- MODULE MCHls --------------------------------
EXTENDS HlsLink
=============================================================================
