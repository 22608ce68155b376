-------------------------------- MODULE MCWire --------------------------------
EXTENDS Wire

\* Short, longer than the socket takes, and too long to be sent; one back.
MCSize == <<<<1, 3, 5>>, <<3>>>>
=============================================================================
