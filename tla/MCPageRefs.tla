----------------------------- MODULE MCPageRefs -----------------------------
(* PageRefs on a small page: two elements of the selector and one besides.  *)
EXTENDS PageRefs

CONSTANTS a, b, c

LoadedPages == {<<a, b>>, <<c, a, b>>}
=============================================================================
