---------------------------- MODULE MCCatalogBatch ----------------------------
(* Two attempts of a batch that may admit two rows under two contracts.      *)
EXTENDS CatalogBatch, TLC

CONSTANTS x1, x2, c1, c2

MCRows == {x1, x2}
MCContracts == {c1, c2}
MCOneContract == {c1}
=============================================================================
