-------------------------- MODULE MCNamespaceCache --------------------------
(***************************************************************************)
(* NamespaceCache with a few incarnations of Outlook: enough for the user  *)
(* and for the program to restart it around each other's steps.            *)
(***************************************************************************)
EXTENDS NamespaceCache
=============================================================================
