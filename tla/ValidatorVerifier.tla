-------------------------- MODULE ValidatorVerifier --------------------------
(***************************************************************************)
(* The voting power arithmetic of ValidatorVerifier.  Every epoch builds a *)
(* new verifier from the on-chain validator set, with whatever stakes it   *)
(* has then; the protocol modules see only the sets that reach a           *)
(* threshold, as quorums.                                                  *)
(*                                                                         *)
(* weight[S] is what sum_voting_power returns for the authors in S.        *)
(***************************************************************************)
EXTENDS Integers

CONSTANTS Validator,
          Weights     \* the voting powers the validator set may have

(* A sum over a set: nothing for nobody, and additive.                     *)
Additive(w) ==
  /\ w[{}] = 0
  /\ \A S, T \in SUBSET Validator :
       S \cap T = {} => w[S \cup T] = w[S] + w[T]

ASSUME WeightsAssumption ==
  \A w \in Weights : w \in [SUBSET Validator -> Nat] /\ Additive(w)

VARIABLES weight,     \* the current epoch's voting power
          byzantine   \* the validators that do not follow the protocol

total_voting_power == weight[Validator]

(* Mutant: two thirds, rounded down, is taken for enough.                  *)
MutTwoThirds(total) == (total * 2) \div 3

(* ValidatorVerifier::new                                                  *)
default_quorum(total) == (total * 2) \div 3 + 1

quorum_voting_power == default_quorum(total_voting_power)

check_voting_power(S, check_super_majority) ==
  weight[S] >= IF check_super_majority
               THEN quorum_voting_power
               ELSE total_voting_power - quorum_voting_power + 1

(* The fault assumption of the protocol: less than a third of the power.   *)
FaultBound == 3 * weight[byzantine] < total_voting_power

VerifierTypeOK == weight \in Weights /\ byzantine \subseteq Validator

----------------------------------------------------------------------------
(* An epoch's validator set.                                               *)
VerifierInit ==
  /\ weight \in Weights
  /\ byzantine \in SUBSET Validator
  /\ FaultBound

NewEpoch ==
  /\ weight' \in Weights
  /\ byzantine' \in SUBSET Validator
  /\ FaultBound'

VerifierNext == NewEpoch
verifier == <<weight, byzantine>>
VerifierSpec == VerifierInit /\ [][VerifierNext]_verifier

----------------------------------------------------------------------------
(* Two sets that pass check_voting_power share an honest validator,        *)
(* whatever the stakes: what QuorumAssumption of TwoChainBFT asks for.     *)
QuorumsShareHonest ==
  \A Q1, Q2 \in SUBSET Validator :
    check_voting_power(Q1, TRUE) /\ check_voting_power(Q2, TRUE)
      => (Q1 \cap Q2) \ byzantine # {}

(* The honest validators alone reach the quorum, so rounds can be          *)
(* completed without the others; and f+1 of power, which makes a node echo *)
(* a timeout, always includes an honest validator.                         *)
HonestSuffice ==
  /\ check_voting_power(Validator \ byzantine, TRUE)
  /\ \A S \in SUBSET Validator :
       check_voting_power(S, FALSE) => S \ byzantine # {}
=============================================================================
