----------------------------- MODULE MCPicoquicT -----------------------------
(***************************************************************************)
(* Six of the tests: one more than usage skips the first time.             *)
(***************************************************************************)
EXTENDS PicoquicT

Six == <<"picohash", "cnxcreation", "parseheader", "pn2pn64", "intformat", "fnv1a">>
=============================================================================
