------------------------- MODULE MCMetadataHistory -------------------------
(* The history properties on the values of MCMetadataRefresh.               *)
EXTENDS MCMetadataRefresh, MetadataRefreshHistory
=============================================================================
