--------------------------- MODULE MCPhotoSharing ---------------------------
EXTENDS PhotoSharing

CONSTANTS a, b, c

Pairs == {{<<a, b>>}, {<<b, a>>}}
Chains == {{<<a, b>>, <<b, c>>}, {<<b, a>>, <<c, b>>}}

\* Two phones, with a photo that is hard to transfer and an easy one; and a line, with
\* losses or with a new photo.
MCScenarios ==
  [links : Pairs, chunks : {<<2, 1>>}, losses : {1}, refusals : {1}]
    \cup [links : Chains \cup {{<<a, b>>, <<c, b>>}}, chunks : {<<1>>}, losses : {1}, refusals : {0}]
    \cup [links : Chains, chunks : {<<1, 1>>}, losses : {0}, refusals : {0}]
=============================================================================
