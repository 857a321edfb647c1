----------------------------- MODULE MCSdpoActor -----------------------------
\* An instance of SdpoActor: both kinds of teacher, frozen or not, with and without a
\* gradient scaler.
EXTENDS SdpoActor

MCSettings == [regularization : {"ema", "trust-region"}, rate : 0 .. 1, float16 : BOOLEAN]
=============================================================================
