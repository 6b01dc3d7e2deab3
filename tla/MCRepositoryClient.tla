------------------------- MODULE MCRepositoryClient --------------------------
(* An instance of RepositoryClient.                                        *)
EXTENDS RepositoryClient
=============================================================================
