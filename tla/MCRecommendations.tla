-------------------------- MODULE MCRecommendations --------------------------
(* Templates of two kinds, for the claims that Congress.gov is asked about.  *)
EXTENDS Recommendations

Template(kind, url) ==
  [kind |-> kind, funding |-> TRUE, methodology |-> FALSE, overlap |-> TRUE, url |-> url]

MCTemplates == <<Template("congress", "congress"), Template("usaspending", "usaspending")>>

MCAnchorSets == {{}, {"state", "context"}, {"amount", "state", "context"},
                 {"stat", "methodology"}}
=============================================================================
