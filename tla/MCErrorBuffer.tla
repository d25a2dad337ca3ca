---------------------------- MODULE MCErrorBuffer ----------------------------
EXTENDS ErrorBuffer

CONSTANTS short, long

MCSize == short :> 7 @@ long :> 60
=============================================================================
