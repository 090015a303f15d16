--------------------------- MODULE MCSpeakingClient ---------------------------
EXTENDS SpeakingClient
=============================================================================
