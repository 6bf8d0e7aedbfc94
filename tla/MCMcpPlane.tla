----------------------------- MODULE MCMcpPlane -----------------------------
(***************************************************************************)
(* Small instances of McpPlane: a server that may call a tool by the name  *)
(* of a compiled-in one, and a session with a grant for one call beside    *)
(* one that lapses.                                                        *)
(***************************************************************************)
EXTENDS McpPlane

CONSTANTS s1, fs

OnceThenTimed == <<[kind |-> "invocation", covers |-> Names],
                   [kind |-> "timed", covers |-> {LocalName(s1, fs)}]>>
JustOnce == <<[kind |-> "invocation", covers |-> Names]>>
=============================================================================
