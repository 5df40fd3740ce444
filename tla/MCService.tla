------------------------------ MODULE MCService ------------------------------
(***************************************************************************)
(* Service for TLC: a file is an empty page and one of two chunks, or one  *)
(* page of one chunk or of three (see Retrieval).                          *)
(***************************************************************************)
EXTENDS Service

MCEditions == {<<0, 3>>, <<2>>, <<5>>}
=============================================================================
