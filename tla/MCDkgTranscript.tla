--------------------------- MODULE MCDkgTranscript ---------------------------
(***************************************************************************)
(* TLC instances of DkgTranscript: honest trustees sign one linked pair,   *)
(* the others every well-typed contribution.                               *)
(***************************************************************************)
EXTENDS DkgTranscript

CONSTANTS HonestBody,  \* what honest trustees contribute
          OtherBody

MCBodies == {HonestBody, OtherBody}

HonestRounds(t) ==
  {[trusteeIndex |-> t, round |-> 1, body |-> HonestBody,
    previousContributionHash |-> ZeroHash],
   [trusteeIndex |-> t, round |-> 2, body |-> HonestBody,
    previousContributionHash |-> HonestBody]}

MCSigned ==
  UNION {HonestRounds(t) : t \in Honest}
    \cup {c \in Contribution : c.trusteeIndex \notin Honest}
==============================================================================
