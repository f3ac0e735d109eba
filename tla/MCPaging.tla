------------------------------ MODULE MCPaging ------------------------------
(* A machine with a region large enough for 1 GiB pages, for Paging.       *)
EXTENDS Paging, PagingMachines
=============================================================================
