--------------------------- MODULE MCNativeProbe ---------------------------
EXTENDS NativeProbe, TLC
=============================================================================
