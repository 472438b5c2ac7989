--------------------------- MODULE MCPrefixCache ---------------------------
(* Models for the runs of PrefixCache. *)
EXTENDS PrefixCache

\* Attention only, and mixed with linear attention.
Mixed == {<<"full", "full">>, <<"full", "linear", "full">>, <<"linear", "full">>}
OneLayer == {<<"full">>}

\* The prefix in one pass, or block by block.
WholeOrBlocks == {<<2>>, <<1, 1>>}

\* Behaviours are followed as long as the cache is used as the code expects.
Expected == sound

=============================================================================
