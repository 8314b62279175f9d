------------------------ MODULE MCCatalogPublication ------------------------
EXTENDS CatalogPublication
=============================================================================
