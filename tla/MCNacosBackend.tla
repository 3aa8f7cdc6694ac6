--------------------------- MODULE MCNacosBackend ---------------------------
(* Small instances of NacosBackend.                                        *)
EXTENDS NacosBackend
CONSTANTS t1, t2, i1, i2
=============================================================================
