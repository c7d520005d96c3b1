--------------------------- MODULE MCAssetInventory ---------------------------
(* Batches that overlap in an asset, and one that holds an asset twice. *)
EXTENDS AssetInventory

Found(a)   == [asset |-> a, discovered_by |-> "recon"]
Unnamed(a) == [asset |-> a, discovered_by |-> None]

MCBatches ==
  {<<Found("www"), Unnamed("www")>>, <<Unnamed("www"), Found("api")>>, <<Found("api")>>}
===============================================================================
