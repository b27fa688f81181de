------------------------------ MODULE MCOnDemand ------------------------------
EXTENDS OnDemandMuxer
===============================================================================
