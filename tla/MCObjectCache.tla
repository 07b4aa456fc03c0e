--------------------------- MODULE MCObjectCache ---------------------------
(* ObjectCache on small instances.  Uncapped, keys do not interact: one key  *)
(* and four seconds show an entry in flight, expired, failed, replaced by a  *)
(* newer generation and swept.  Capped, three keys compete for two places.   *)
EXTENDS ObjectCache, TLC

CONSTANTS k1, k2, k3, r1, r2, r3, r4

MCOneKey == {k1}
MCKeys == {k1, k2, k3}
MCThreeCalls == {r1, r2, r3}
MCFourCalls == {r1, r2, r3, r4}
MCCancellable == {r1, r2}

\* Keys are interchangeable, and so are the calls that may be dropped and
\* those that may not.  Only for the run without a liveness property.
Symmetry ==
    Permutations(MCKeys) \cup Permutations(MCFourCalls)
=============================================================================
