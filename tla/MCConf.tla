------------------------------ MODULE MCConf ------------------------------
(* Environments over eight names: known ones, two names cut short (one   *)
(* at a '_', one inside a word), an unknown one and a renamed XKRT_ one.  *)
EXTENDS Conf

MCEnvNames == {
    "XKAAPI_NGPUS",
    "XKAAPI_NSTREAMS_KERN",
    "XKAAPI_OFFLOADER_CAPACITY",
    "XKAAPI_USE_P2P",
    "XKAAPI_NSTREAMS",
    "XKAAPI_NGPU",
    "XKAAPI_NGPUSX",
    "XKRT_NGPUS" }

\* -1, 1, and the values the uint8_t and uint16_t casts wrap.
MCVals == {-1, 1, 256, 65537}
=============================================================================
