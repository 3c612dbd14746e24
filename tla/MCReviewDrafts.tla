--------------------------- MODULE MCReviewDrafts ---------------------------
(* Up to three sources, of which two fit the prompt.                        *)
EXTENDS ReviewDrafts

MCRowLists == {<<"primary">>, <<"primary", "secondary">>,
               <<"secondary", "secondary", "primary">>}
=============================================================================
