------------------------- MODULE DkgTranscript_proofs -------------------------
(***************************************************************************)
(* Safety of the trustee ceremony for any number of trustees, any          *)
(* threshold, any set of signed messages and any delivery order.           *)
(***************************************************************************)
EXTENDS DkgTranscript, TLAPS

(* What is stored under a key is a signed contribution of that trustee and *)
(* round; a stored second round names the stored first round.              *)
Stored ==
  \A k \in DOMAIN contributions :
    /\ contributions[k] \in Signed
    /\ Key(contributions[k]) = k

Chained ==
  \A t \in Trustees :
    <<t, 2>> \in DOMAIN contributions =>
      /\ <<t, 1>> \in DOMAIN contributions
      /\ contributions[<<t, 2>>].previousContributionHash =
           HashOf(contributions[<<t, 1>>])

(* Evidence convicts: both messages are of one trustee and round, they     *)
(* differ, and the trustee is disqualified.                                *)
Convicts ==
  \A i \in DOMAIN equivocations :
    LET e == equivocations[i]
    IN /\ e.first \in Signed /\ e.second \in Signed
       /\ e.first.trusteeIndex = e.second.trusteeIndex
       /\ e.first.round = e.second.round
       /\ e.first # e.second
       /\ e.first.trusteeIndex \in disqualified

DkgInv ==
  /\ TypeOK
  /\ Stored
  /\ Chained
  /\ Convicts
  /\ DisqualifiedAreConvicted
  /\ TranscriptSound

LEMMA InitDkgInv == Init => DkgInv
<1>1. SUFFICES ASSUME Init PROVE DkgInv
  OBVIOUS
<1>2. DOMAIN contributions = {} /\ DOMAIN equivocations = {}
  BY <1>1 DEF Init
<1>3. TypeOK
  <2>1. contributions \in [DOMAIN contributions -> Signed]
    <3>1. contributions = [k \in DOMAIN contributions |-> contributions[k]]
      BY <1>1 DEF Init
    <3>2. QED
      BY <1>2, <3>1
  <2>2. equivocations \in Seq(Evidence)
    BY <1>1 DEF Init
  <2>3. DOMAIN contributions \subseteq Trustees \X {1, 2}
    BY <1>2
  <2>4. QED
    BY <1>1, <2>1, <2>2, <2>3 DEF Init, TypeOK
<1>4. QED
  BY <1>1, <1>2, <1>3
     DEF Init, DkgInv, Stored, Chained, Convicts, DisqualifiedAreConvicted,
         TranscriptSound

(* Appending to a sequence, in the terms the invariants use. *)
LEMMA Appended ==
  ASSUME NEW S, NEW s \in Seq(S), NEW e \in S
  PROVE  /\ Append(s, e) \in Seq(S)
         /\ DOMAIN Append(s, e) = DOMAIN s \cup {Len(s) + 1}
         /\ Append(s, e)[Len(s) + 1] = e
         /\ \A i \in DOMAIN s : Append(s, e)[i] = s[i]
  OBVIOUS

LEMMA EquivocatePreserves ==
  ASSUME DkgInv, NEW c \in Signed, Equivocate(c)
  PROVE  DkgInv'
<1> DEFINE e == [first |-> contributions[Key(c)], second |-> c]
           n == Len(equivocations) + 1
<1>1. /\ ~finalized
      /\ Key(c) \in DOMAIN contributions
      /\ contributions[Key(c)] # c
      /\ disqualified' = disqualified \cup {c.trusteeIndex}
      /\ equivocations' = Append(equivocations, e)
      /\ contributions' = contributions
      /\ finalized' = finalized
      /\ transcript' = transcript
  BY DEF Equivocate, Conflicts
<1>2. /\ contributions[Key(c)] \in Signed
      /\ contributions[Key(c)].trusteeIndex = c.trusteeIndex
      /\ contributions[Key(c)].round = c.round
      /\ c.trusteeIndex \in Trustees
  BY <1>1, TrusteeAssumption DEF DkgInv, Stored, Key, Contribution
<1>3. e \in Evidence /\ equivocations \in Seq(Evidence)
  BY <1>2 DEF Evidence, DkgInv, TypeOK
<1>4. /\ e.first = contributions[Key(c)]
      /\ e.second = c
  OBVIOUS
<1> HIDE DEF e
<1>5. /\ equivocations' \in Seq(Evidence)
      /\ DOMAIN equivocations' = DOMAIN equivocations \cup {n}
      /\ equivocations'[n] = e
      /\ \A i \in DOMAIN equivocations : equivocations'[i] = equivocations[i]
  BY <1>1, <1>3, Appended
<1> HIDE DEF n
<1>6. TypeOK'
  BY <1>1, <1>2, <1>5 DEF DkgInv, TypeOK
<1>7. Stored' /\ Chained'
  BY <1>1 DEF DkgInv, Stored, Chained, Key, HashOf
<1>8. Convicts'
  BY <1>1, <1>2, <1>4, <1>5 DEF DkgInv, Convicts
<1>9. DisqualifiedAreConvicted'
  <2>1. ASSUME NEW t \in disqualified
        PROVE  \E i \in DOMAIN equivocations' :
                 /\ equivocations'[i].first.trusteeIndex = t
                 /\ equivocations'[i].second.trusteeIndex = t
                 /\ equivocations'[i].first.round = equivocations'[i].second.round
                 /\ equivocations'[i].first # equivocations'[i].second
    BY <1>5, <2>1 DEF DkgInv, DisqualifiedAreConvicted
  <2>2. /\ equivocations'[n].first.trusteeIndex = c.trusteeIndex
        /\ equivocations'[n].second.trusteeIndex = c.trusteeIndex
        /\ equivocations'[n].first.round = equivocations'[n].second.round
        /\ equivocations'[n].first # equivocations'[n].second
    BY <1>1, <1>2, <1>4, <1>5
  <2>3. QED
    BY <1>1, <1>5, <2>1, <2>2 DEF DisqualifiedAreConvicted
<1>10. TranscriptSound'
  BY <1>1 DEF TranscriptSound
<1>11. QED
  BY <1>6, <1>7, <1>8, <1>9, <1>10 DEF DkgInv

LEMMA AddContributionPreserves ==
  ASSUME DkgInv, NEW c \in Signed, AddContribution(c)
  PROVE  DkgInv'
<1>1. /\ ~finalized
      /\ Key(c) \notin DOMAIN contributions
      /\ Linked(c)
      /\ contributions' = [k \in DOMAIN contributions \cup {Key(c)} |->
                             IF k = Key(c) THEN c ELSE contributions[k]]
      /\ UNCHANGED <<disqualified, equivocations, finalized, transcript>>
  BY DEF AddContribution
<1>2. /\ DOMAIN contributions' = DOMAIN contributions \cup {Key(c)}
      /\ contributions'[Key(c)] = c
      /\ \A k \in DOMAIN contributions : contributions'[k] = contributions[k]
      /\ contributions' \in [DOMAIN contributions' -> Signed]
  BY <1>1 DEF DkgInv, Stored
<1>3. /\ c.trusteeIndex \in Trustees
      /\ c.round \in {1, 2}
      /\ Key(c) = <<c.trusteeIndex, c.round>>
  BY TrusteeAssumption DEF Contribution, Key
<1>4. TypeOK'
  BY <1>1, <1>2, <1>3 DEF DkgInv, TypeOK
<1>5. Stored'
  BY <1>2 DEF DkgInv, Stored, Key
<1>6. Chained'
  <2>1. ASSUME NEW t \in Trustees, <<t, 2>> \in DOMAIN contributions'
        PROVE  /\ <<t, 1>> \in DOMAIN contributions'
               /\ contributions'[<<t, 2>>].previousContributionHash =
                    HashOf(contributions'[<<t, 1>>])
    <3>1. CASE <<t, 2>> \in DOMAIN contributions
      BY <1>2, <3>1 DEF DkgInv, Chained
    <3>2. CASE <<t, 2>> = Key(c)
      <4>1. c.trusteeIndex = t /\ c.round = 2
        BY <1>3, <3>2
      <4>2. /\ <<t, 1>> \in DOMAIN contributions
            /\ c.previousContributionHash = HashOf(contributions[<<t, 1>>])
        BY <1>1, <4>1 DEF Linked
      <4>3. QED
        BY <1>2, <3>2, <4>2
    <3>3. QED
      BY <1>2, <2>1, <3>1, <3>2
  <2>2. QED
    BY <2>1 DEF Chained, HashOf
<1>7. Convicts' /\ DisqualifiedAreConvicted' /\ TranscriptSound'
  BY <1>1 DEF DkgInv, Convicts, DisqualifiedAreConvicted, TranscriptSound
<1>8. QED
  BY <1>4, <1>5, <1>6, <1>7 DEF DkgInv

LEMMA FinalizePreserves ==
  ASSUME DkgInv, Finalize
  PROVE  DkgInv'
<1>1. /\ Cardinality(Qualified) >= Threshold
      /\ finalized'
      /\ transcript'.qualified = Qualified
      /\ transcript'.contributions = [k \in Qualified \X {1, 2} |-> contributions[k]]
      /\ UNCHANGED <<contributions, disqualified, equivocations>>
  BY DEF Finalize
<1>2. ASSUME NEW t \in Qualified
      PROVE  /\ t \in Trustees
             /\ t \notin disqualified
             /\ <<t, 1>> \in DOMAIN contributions
             /\ <<t, 2>> \in DOMAIN contributions
             /\ transcript'.contributions[<<t, 1>>] = contributions[<<t, 1>>]
             /\ transcript'.contributions[<<t, 2>>] = contributions[<<t, 2>>]
  BY <1>1 DEF Qualified
<1>3. TypeOK'
  BY <1>1, <1>2 DEF Finalize, DkgInv, TypeOK
<1>4. Stored' /\ Chained' /\ Convicts' /\ DisqualifiedAreConvicted'
  BY <1>1 DEF DkgInv, Stored, Chained, Convicts, DisqualifiedAreConvicted, Key, HashOf
<1>5. ASSUME NEW t \in Qualified
      PROVE  transcript'.contributions[<<t, 2>>].previousContributionHash =
               HashOf(transcript'.contributions[<<t, 1>>])
  BY <1>2 DEF DkgInv, Chained, HashOf
<1>6. ASSUME NEW t \in Qualified, NEW i \in DOMAIN equivocations
      PROVE  equivocations[i].first.trusteeIndex # t
  BY <1>2 DEF DkgInv, Convicts
<1>7. TranscriptSound'
  BY <1>1, <1>5, <1>6 DEF TranscriptSound, HashOf
<1>8. QED
  BY <1>3, <1>4, <1>7 DEF DkgInv

LEMMA NextDkgInv == DkgInv /\ [Next]_vars => DkgInv'
<1>1. SUFFICES ASSUME DkgInv, [Next]_vars PROVE DkgInv'
  OBVIOUS
<1>2. ASSUME NEW c \in Signed, Deliver(c) PROVE DkgInv'
  BY <1>1, <1>2, EquivocatePreserves, AddContributionPreserves DEF Deliver
<1>3. CASE Finalize
  BY <1>1, <1>3, FinalizePreserves
<1>4. CASE UNCHANGED vars
  BY <1>1, <1>4
     DEF vars, DkgInv, TypeOK, Stored, Chained, Convicts, DisqualifiedAreConvicted,
         TranscriptSound, Key, HashOf
<1>5. QED
  BY <1>1, <1>2, <1>3, <1>4 DEF Next

LEMMA DkgAlways == Spec => []DkgInv
  BY InitDkgInv, NextDkgInv, PTL DEF Spec

(* Type correctness of the ceremony. *)
THEOREM DkgTypeCorrect == Spec => []TypeOK
<1>1. DkgInv => TypeOK
  BY DEF DkgInv
<1>2. QED
  BY <1>1, DkgAlways, PTL

(* Evidence against a disqualified trustee exists and convicts it. *)
THEOREM Accountability == Spec => []DisqualifiedAreConvicted
<1>1. DkgInv => DisqualifiedAreConvicted
  BY DEF DkgInv
<1>2. QED
  BY <1>1, DkgAlways, PTL

(* No schedule of deliveries and repetitions disqualifies an honest        *)
(* trustee: the evidence would show two different messages it signed.      *)
THEOREM HonestSurvives == Spec => []HonestNeverDisqualified
<1>1. DkgInv => HonestNeverDisqualified
  <2>1. SUFFICES ASSUME DkgInv, NEW t \in disqualified, t \in Honest
                 PROVE  FALSE
    BY DEF HonestNeverDisqualified
  <2>2. PICK i \in DOMAIN equivocations :
          /\ equivocations[i].first.trusteeIndex = t
          /\ equivocations[i].second.trusteeIndex = t
          /\ equivocations[i].first.round = equivocations[i].second.round
          /\ equivocations[i].first # equivocations[i].second
    BY <2>1 DEF DkgInv, DisqualifiedAreConvicted
  <2>3. equivocations[i].first \in Signed /\ equivocations[i].second \in Signed
    BY <2>1 DEF DkgInv, Convicts
  <2>4. QED
    BY <2>1, <2>2, <2>3, HonestAssumption
<1>2. QED
  BY <1>1, DkgAlways, PTL

(* Every transcript names a quorum of linked, unconvicted trustees. *)
THEOREM TranscriptsSound == Spec => []TranscriptSound
<1>1. DkgInv => TranscriptSound
  BY DEF DkgInv
<1>2. QED
  BY <1>1, DkgAlways, PTL
==============================================================================
