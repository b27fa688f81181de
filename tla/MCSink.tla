------------------------------- MODULE MCSink -------------------------------
EXTENDS MediaSink
=============================================================================
