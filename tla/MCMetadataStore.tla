--------------------------- MODULE MCMetadataStore ---------------------------
(* A small instance of MetadataStore: two acceptable records, one that the  *)
(* range checks of metadata_is_valid() refuse, three double-words.          *)
EXTENDS MetadataStore

CONSTANTS c1, c2, bad

MCContent == {c1, c2, bad}
MCSane == {c1, c2}
=============================================================================
