---------------------------- MODULE MCContextStore ----------------------------
(***************************************************************************)
(* ContextStore for TLC: two contexts that start out absent, three pushes  *)
(* of two versions and two payloads, one health probe.                     *)
(***************************************************************************)
EXTENDS ContextStore

MCVersions == 1 .. 2
===============================================================================
