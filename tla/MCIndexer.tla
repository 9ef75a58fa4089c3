------------------------------ MODULE MCIndexer ------------------------------
(* Short logs, pages smaller than a ledger.                                *)
EXTENDS Indexer
=============================================================================
