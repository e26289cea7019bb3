------------------------------- MODULE Ledger -------------------------------
(***************************************************************************)
(* What a finished fight and an armed policy do to the accounts of the     *)
(* users, as if each happened in one step: the meaning of the transactions *)
(* of src/fight-club/fight-club.repository.ts (settle) and                 *)
(* src/shop/consumables.service.ts (armInsurance).  Module Settlement      *)
(* shows that the transactions, interleaved, amount to this.               *)
(***************************************************************************)
EXTENDS Integers, Sequences

CONSTANTS
  User,
  Stake,      \* the amounts fights are fought for
  Policies    \* insurance policies each user owns at the start

ASSUME StakeAssumption == Stake \subseteq Nat \ {0}
ASSUME PoliciesAssumption == Policies \in Nat

VARIABLES
  account,    \* user -> the columns of users, and user_inventory's policies
  fights      \* the rows of the fights table, in the order of their commits

ledgerVars == <<account, fights>>

Row == [winner : User, loser : User, type : {"aura", "debt"}, stake : Stake, insured : BOOLEAN]
Account == [aura : Int, debt : Int, armed : BOOLEAN, policies : Nat,
            won : Nat, lost : Nat, winStreak : Nat, lossStreak : Nat]

LedgerInit ==
  /\ account = [u \in User |->
       [aura |-> 0, debt |-> 0, armed |-> FALSE, policies |-> Policies,
        won |-> 0, lost |-> 0, winStreak |-> 0, lossStreak |-> 0]]
  /\ fights = <<>>

(* An insured loser pays half the stake, and the winner receives that half. *)
Amount(r) == IF r.insured THEN r.stake \div 2 ELSE r.stake

Moved(r, type) == IF r.type = type THEN Amount(r) ELSE 0

(* Faulty: the winner's losing streak survives the win. *)
WonKeepingStreak(a, r) ==
  [a EXCEPT !.aura = @ + Moved(r, "aura"), !.debt = @ - Moved(r, "debt"),
            !.armed = FALSE, !.won = @ + 1, !.winStreak = @ + 1]
Won(a, r) ==
  [a EXCEPT !.aura = @ + Moved(r, "aura"), !.debt = @ - Moved(r, "debt"),
            !.armed = FALSE, !.won = @ + 1, !.winStreak = @ + 1, !.lossStreak = 0]
(* Faulty: the loser pays the stake in full, insured or not. *)
LostInFull(a, r) ==
  [a EXCEPT !.aura = IF r.type = "aura" THEN @ - r.stake ELSE @,
            !.debt = IF r.type = "debt" THEN @ + r.stake ELSE @,
            !.armed = FALSE, !.lost = @ + 1, !.lossStreak = @ + 1, !.winStreak = 0]
Lost(a, r) ==
  [a EXCEPT !.aura = @ - Moved(r, "aura"), !.debt = @ + Moved(r, "debt"),
            !.armed = FALSE, !.lost = @ + 1, !.lossStreak = @ + 1, !.winStreak = 0]

(* The accounts once the fight of row r is settled. *)
Paid(r) ==
  [u \in User |-> CASE u = r.winner -> Won(account[u], r)
                    [] u = r.loser  -> Lost(account[u], r)
                    [] OTHER        -> account[u]]

(* A policy is used up, and the user's next finished fight is insured. *)
Insured(u) == [account EXCEPT ![u].policies = @ - 1, ![u].armed = TRUE]

RecordFight(r) ==
  /\ r.winner # r.loser
  /\ r.insured = account[r.loser].armed
  /\ account' = Paid(r)
  /\ fights' = Append(fights, r)

Insure(u) ==
  /\ ~account[u].armed /\ account[u].policies > 0
  /\ account' = Insured(u)
  /\ UNCHANGED fights

LedgerNext == (\E r \in Row : RecordFight(r)) \/ (\E u \in User : Insure(u))
LedgerSpec == LedgerInit /\ [][LedgerNext]_ledgerVars
=============================================================================
