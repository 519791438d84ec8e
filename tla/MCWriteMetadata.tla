--------------------------- MODULE MCWriteMetadata ---------------------------
(* Two images, four records between two invocations of the tool.            *)
EXTENDS WriteMetadata

CONSTANTS old, new

MCImage == {old, new}
=============================================================================
