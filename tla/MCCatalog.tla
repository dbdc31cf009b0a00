----------------------------- MODULE MCCatalog -----------------------------
(* Catalog with an audio file and a file a playlist names that is none. *)
EXTENDS Catalog
=============================================================================
