------------------------------ MODULE MCWallet ------------------------------
(* Two accounts that tip each other's video; one tick stands for the       *)
(* debounce of ten seconds, and the lives of the lots keep their order.    *)
EXTENDS Wallet

CONSTANTS r1, r2

TwoAccounts == {"ann", "bob"}
TwoRequests == {r1, r2}
Lives == [register |-> 2, checkin |-> 1, lottery |-> 1, tip_in |-> 3]
OneRecharge == {[acct |-> "ann", coins |-> 10, bonus |-> 3]}
ElevenCoins == {11}
OnePrize == {5}
=============================================================================
