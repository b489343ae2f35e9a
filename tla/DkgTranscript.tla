---------------------------- MODULE DkgTranscript ----------------------------
(***************************************************************************)
(* The transcript coordinator of the trustee ceremony                      *)
(* (packages/crypto/src/dkg.ts, DkgTranscriptCoordinatorV1): two signed    *)
(* rounds per trustee arrive over a network that delays, reorders and      *)
(* repeats them; conflicting contributions disqualify their signer.        *)
(*                                                                         *)
(* Abstracted: a hash is what it hashes, so a contribution is its own      *)
(* hash; the two digests of a contribution are one body; contributions of  *)
(* other ceremonies or with a bad signature throw and are no step.         *)
(***************************************************************************)
EXTENDS Integers, Sequences, FiniteSets, Functions

CONSTANTS
  Trustees,     \* nine of them in the code
  Honest,       \* trustees that sign one linked contribution per round
  Bodies,       \* commitment and share-bundle digests
  ZeroHash,
  Signed,       \* the contributions the trustees sign
  Threshold,    \* DKG_THRESHOLD
  NoTranscript,
  MaxEvidence   \* bound: pieces of evidence recorded at most

Contribution == [trusteeIndex             : Trustees,
                 round                    : {1, 2},
                 body                     : Bodies,
                 previousContributionHash : Bodies \cup {ZeroHash}]

(* The parent of a second round is the hash of a first-round contribution  *)
(* of the same trustee, whose parent is zero: its body identifies it.      *)
HashOf(c) == c.body

ASSUME TrusteeAssumption ==
  /\ IsFiniteSet(Trustees)
  /\ Honest \subseteq Trustees
  /\ ZeroHash \notin Bodies
  /\ Threshold \in Nat
  /\ MaxEvidence \in Nat
  /\ Signed \subseteq Contribution

(* An honest trustee never signs two different messages of one round. *)
ASSUME HonestAssumption ==
  \A c, d \in Signed :
    (c.trusteeIndex \in Honest /\ c.trusteeIndex = d.trusteeIndex
       /\ c.round = d.round) => c = d

VARIABLES
  contributions,   \* <<trustee, round>> -> the contribution accepted first
  disqualified,
  equivocations,   \* evidence in the order it was recorded
  finalized,
  transcript

vars == <<contributions, disqualified, equivocations, finalized, transcript>>

KeyByTrustee(c) == <<c.trusteeIndex, 1>>   \* seeded fault: the round is forgotten

Key(c) == <<c.trusteeIndex, c.round>>

Evidence == [first : Signed, second : Signed]

Init ==
  /\ contributions = [k \in {} |-> {}]
  /\ disqualified = {}
  /\ equivocations = << >>
  /\ finalized = FALSE
  /\ transcript = NoTranscript

-----------------------------------------------------------------------------
ConflictsWithAnything(c) ==      \* seeded fault: a repeated message conflicts
  Key(c) \in DOMAIN contributions

Conflicts(c) ==
  Key(c) \in DOMAIN contributions /\ contributions[Key(c)] # c

(* addContribution on a key that is taken: a conflicting message is never  *)
(* stored, whatever its parent is; the same one again changes nothing.     *)
Equivocate(c) ==
  /\ ~finalized
  /\ Conflicts(c)
  /\ Len(equivocations) < MaxEvidence
  /\ disqualified' = disqualified \cup {c.trusteeIndex}
  /\ equivocations' =
       Append(equivocations, [first |-> contributions[Key(c)], second |-> c])
  /\ UNCHANGED <<contributions, finalized, transcript>>

LinkedByRoundOnly(c) ==          \* seeded fault: the parent hash is not compared
  c.round = 1 \/ <<c.trusteeIndex, 1>> \in DOMAIN contributions

(* Round one has no parent, round two names the accepted round one. *)
Linked(c) ==
  IF c.round = 1
  THEN c.previousContributionHash = ZeroHash
  ELSE LET roundOne == <<c.trusteeIndex, 1>>
       IN /\ roundOne \in DOMAIN contributions
          /\ c.previousContributionHash = HashOf(contributions[roundOne])

(* addContribution on a free key; a message that is not linked throws, and *)
(* its trustee has to send it again once its parent has arrived.           *)
AddContribution(c) ==
  /\ ~finalized
  /\ Key(c) \notin DOMAIN contributions
  /\ Linked(c)
  /\ contributions' = [k \in DOMAIN contributions \cup {Key(c)} |->
                         IF k = Key(c) THEN c ELSE contributions[k]]
  /\ UNCHANGED <<disqualified, equivocations, finalized, transcript>>

Qualified ==
  {t \in Trustees \ disqualified :
     {<<t, 1>>, <<t, 2>>} \subseteq DOMAIN contributions}

(* Evidence hashes are sorted: the transcript has their multiset. *)
Multiset(s) == [e \in Range(s) |-> Cardinality({i \in DOMAIN s : s[i] = e})]

(* finalize *)
Finalize ==
  /\ ~finalized
  /\ Cardinality(Qualified) >= Threshold
  /\ finalized' = TRUE
  /\ transcript' =
       [qualified     |-> Qualified,
        disqualified  |-> disqualified,
        contributions |-> [k \in Qualified \X {1, 2} |-> contributions[k]],
        evidence      |-> Multiset(equivocations)]
  /\ UNCHANGED <<contributions, disqualified, equivocations>>

(* Any signed message may be delivered, at any time and any number of      *)
(* times.                                                                  *)
Deliver(c) == Equivocate(c) \/ AddContribution(c)

Next == (\E c \in Signed : Deliver(c)) \/ Finalize

Spec == Init /\ [][Next]_vars

(* Honest trustees send a refused message again, and the operator          *)
(* finalizes when it can.  The others owe nothing.                         *)
FairSpec ==
  /\ Spec
  /\ \A c \in {d \in Signed : d.trusteeIndex \in Honest} :
        WF_vars(AddContribution(c))
  /\ WF_vars(Finalize)

-----------------------------------------------------------------------------
(* Properties *)

TypeOK ==
  /\ DOMAIN contributions \subseteq Trustees \X {1, 2}
  /\ contributions \in [DOMAIN contributions -> Signed]
  /\ disqualified \in SUBSET Trustees
  /\ equivocations \in Seq(Evidence)
  /\ finalized \in BOOLEAN
  /\ finalized => transcript.qualified \in SUBSET Trustees
  /\ ~finalized => transcript = NoTranscript

(* No delivery order and no repetition disqualifies an honest trustee. *)
HonestNeverDisqualified == disqualified \cap Honest = {}

(* Accountability: whoever is disqualified signed two different            *)
(* contributions to one round, and the evidence shows both.                *)
DisqualifiedAreConvicted ==
  \A t \in disqualified : \E i \in DOMAIN equivocations :
    LET e == equivocations[i]
    IN /\ e.first.trusteeIndex = t /\ e.second.trusteeIndex = t
       /\ e.first.round = e.second.round
       /\ e.first # e.second

(* A transcript names at least Threshold trustees, none of them known to   *)
(* have equivocated, each with a second round signed on top of the first   *)
(* round the transcript shows.                                             *)
TranscriptSound ==
  finalized =>
    /\ Cardinality(transcript.qualified) >= Threshold
    /\ \A t \in transcript.qualified :
         /\ transcript.contributions[<<t, 2>>].previousContributionHash =
              HashOf(transcript.contributions[<<t, 1>>])
         /\ \A i \in DOMAIN equivocations : equivocations[i].first.trusteeIndex # t

(* With Threshold honest trustees the ceremony ends, whatever the others   *)
(* sign and in whatever order messages arrive.                             *)
CeremonyCompletes == <>finalized

(* docs/dkg-v1.md: "objective equivocation evidence from two conflicting   *)
(* signed messages", bound by "a canonical transcript hash": two messages  *)
(* give one piece of evidence, however often they are delivered.           *)
EvidenceOnce ==
  \A i, j \in DOMAIN equivocations : equivocations[i] = equivocations[j] => i = j
==============================================================================
