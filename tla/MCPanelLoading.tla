-------------------------- MODULE MCPanelLoading --------------------------
(***************************************************************************)
(* PanelLoading for TLC: a directory in the home directory, and one with   *)
(* the same path on another host, where nothing is above it.               *)
(***************************************************************************)
EXTENDS PanelLoading

MCPath == [p \in {"home", "docs", "docs on ftp"} |-> IF p = "home" THEN "/home" ELSE "/home/docs"]
MCAbove == [p \in {"home", "docs", "docs on ftp"} |->
                IF p = "docs" THEN <<"docs", "home">> ELSE <<p>>]

=============================================================================
