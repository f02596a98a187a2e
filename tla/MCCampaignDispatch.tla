------------------------- MODULE MCCampaignDispatch -------------------------
(* Small instances of CampaignDispatch for TLC. *)
EXTENDS CampaignDispatch, TLC

\* With one wave every recipient is in it; with two, the second wave holds the
\* recipients the configuration names as late.
CONSTANTS Late, EarlyWave, LateWave

\* Units a reservation holds beyond its recipients, as a capacity plan may.
CONSTANT Spare

MCWaveOf == [r \in Recipients |-> IF r \in Late THEN LateWave ELSE EarlyWave]
MCReserved ==
  [w \in Waves |-> Spare + Cardinality({r \in Recipients : MCWaveOf[r] = w})]

\* Recipients of one wave are interchangeable.
MCSymmetry == Permutations(Recipients)
=============================================================================
