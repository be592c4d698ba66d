--------------------------- MODULE MCEntryFilters ---------------------------
(***************************************************************************)
(* A small instance of EntryFilters: the mints m1 and m2 share a Twitter   *)
(* account; the bonding curve of m2 is an old one.                         *)
(***************************************************************************)
EXTENDS EntryFilters, TLC

CONSTANTS m1, m2, d1, h1

MCCreator == m1 :> d1 @@ m2 :> NoDev
MCPayer   == m1 :> d1 @@ m2 :> d1
MCHandle  == m1 :> h1 @@ m2 :> h1
=============================================================================
