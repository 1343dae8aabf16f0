------------------------- MODULE MCPresentationApi ---------------------------
(***************************************************************************)
(* Two submissions for a definition, a presentation request, and listings  *)
(* of three queries with pages of one entry or two.                        *)
(***************************************************************************)
EXTENDS PresentationApi, TLC

CONSTANTS r1, r2, s1, s2, d1

MCForm == (r1 :> [id |-> s1, definition |-> d1]) @@ (r2 :> [id |-> s2, definition |-> d1])
MCQuery == {<<"submissions", "all">>, <<"submissions", "pending">>, <<"operations", "done">>}
MCRank == s1 :> 1 @@ s2 :> 2
==============================================================================
