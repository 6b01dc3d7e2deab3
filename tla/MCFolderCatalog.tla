--------------------------- MODULE MCFolderCatalog ---------------------------
(* Instances of FolderCatalog.                                             *)
EXTENDS FolderCatalog
CONSTANTS f1, f2, f3
OpensAndFlushes == {"recordDeferred", "flush"}
FullList == {<<f1, f2>>}
NoList == {<<>>}
=============================================================================
