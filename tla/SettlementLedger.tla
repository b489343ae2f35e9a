-------------------------- MODULE SettlementLedger --------------------------
(***************************************************************************)
(* What batch settlement promises, without clock, bonds, verifiers or      *)
(* challenges: an append-only chain of batches.  A batch is submitted at   *)
(* most once, decided at most once, accepted only on top of the last       *)
(* accepted one, and a valid batch is rejected only when the root it       *)
(* starts from is no longer the last one.                                  *)
(***************************************************************************)
EXTENDS Integers, Sequences

CONSTANTS Batches, ValidBatches, NoRoot

VARIABLES
  pending,   \* submitted and undecided batches
  decided,   \* accepted or rejected batches
  ledger     \* the accepted batches in order

ledger_vars == <<pending, decided, ledger>>

Head_ == IF ledger = << >> THEN NoRoot ELSE ledger[Len(ledger)].nullifierRoot

Init ==
  /\ pending = {}
  /\ decided = {}
  /\ ledger = << >>

Submit(b) ==
  /\ \A x \in pending \cup decided : x.manifestDigest # b.manifestDigest
  /\ b.previousNullifierRoot = Head_
  /\ b.ballotCount > 0
  /\ pending' = pending \cup {b}
  /\ UNCHANGED <<decided, ledger>>

Accept(b) ==
  /\ b \in pending
  /\ b.previousNullifierRoot = Head_
  /\ pending' = pending \ {b}
  /\ decided' = decided \cup {b}
  /\ ledger' = Append(ledger, b)

Reject(b) ==
  /\ b \in pending
  /\ b \notin ValidBatches \/ b.previousNullifierRoot # Head_
  /\ pending' = pending \ {b}
  /\ decided' = decided \cup {b}
  /\ UNCHANGED ledger

Next == \E b \in Batches : Submit(b) \/ Accept(b) \/ Reject(b)

Spec == Init /\ [][Next]_ledger_vars
==============================================================================
