-------------------------- MODULE MCDocumentRegistry --------------------------
(***************************************************************************)
(* DocumentRegistry with every pair of holders in the same program: the    *)
(* loader acquires the document under two names at the same time.  Each    *)
(* name is loaded for the first time; a later update would pass both calls *)
(* the file that filesByPath has, whose key is the same.                   *)
(***************************************************************************)
EXTENDS DocumentRegistry

AllPairs == Holders \X Holders
=============================================================================
