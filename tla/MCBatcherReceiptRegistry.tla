----------------------- MODULE MCBatcherReceiptRegistry -----------------------
(***************************************************************************)
(* TLC instances of BatcherReceiptRegistry.                                *)
(***************************************************************************)
EXTENDS BatcherReceiptRegistry

CONSTANTS north, south,      \* two package roots
          p1,                \* a package
          verifier, inputs   \* a verifier, and a hash it accepts a proof of

MCAccepts == {verifier} \X {inputs, NoInputs}

(* The package went into the south batch only. *)
MCContains == {<<south, p1>>}

MCReceipts == {[package |-> p1, issuedAt |-> 1, includeBy |-> 2]}
==============================================================================
