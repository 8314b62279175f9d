--------------------------- MODULE MCCatalogTree ---------------------------
EXTENDS CatalogTree
=============================================================================
