---------------------------- MODULE MCP2PChannels ----------------------------
(***************************************************************************)
(* P2PChannels for TLC: groups of one rank, of two that make two calls     *)
(* each, and of three that make one: data can be overwritten before it is  *)
(* read, read twice and missed, and three ranks can form a ring.           *)
(***************************************************************************)
EXTENDS P2PChannels

MCWorldSizes == 1 .. 3
MCMaxCalls == <<2, 2, 1>>
==============================================================================
