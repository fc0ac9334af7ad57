----------------------------- MODULE MCIngestion -----------------------------
(***************************************************************************)
(* Instances of Ingestion for TLC.                                         *)
(***************************************************************************)
EXTENDS Ingestion, TLC

CONSTANTS s1, s2, jan, feb, mar, good, more, broken, ragged, hollow,
          refused, r1, r2

\* A file name is used for one content only, as dated exports are.
DatedFiles ==
  {<<s1, jan, good>>, <<s1, feb, more>>, <<s1, mar, broken>>,
   <<s2, jan, good>>, <<s2, feb, ragged>>, <<s2, mar, hollow>>}

\* Two sources, and two clients who use the same name for different contents, one of
\* which the dispatcher cannot parse.
SharedNames ==
  {<<s1, jan, good>>, <<s1, jan, broken>>, <<s1, feb, more>>, <<s1, feb, ragged>>,
   <<s2, jan, good>>, <<s2, jan, refused>>}

\* A corrected export is re-sent under the same name, and is broken.
Resent == {<<s1, jan, good>>, <<s1, jan, broken>>}

\* Nothing that the loader would refuse: a restart always finds data it can load.
Loadable == {<<s1, jan, good>>, <<s1, feb, ragged>>, <<s2, jan, good>>}

\* Two files of one source, one of which COPY refuses.
Refused == {<<s1, jan, good>>, <<s1, feb, refused>>}

SampleS1 == <<s1, jan, good>>

Alike == Permutations({r1, r2})
==============================================================================
