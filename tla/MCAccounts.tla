----------------------------- MODULE MCAccounts -----------------------------
EXTENDS Accounts

Level(price, size) == [price |-> price, size |-> size]

(* One with two levels, one too thin for two contracts, one too wide. *)
BooksDef ==
  {[bids |-> <<Level(2, 3)>>, asks |-> <<Level(3, 1), Level(4, 2)>>],
   [bids |-> <<Level(2, 1)>>, asks |-> <<Level(3, 1)>>],
   [bids |-> <<Level(1, 3)>>, asks |-> <<Level(4, 3)>>]}

(* Two contracts that cost 4 each; the snapshot may have missed them. *)
RestoredDef == {[qty |-> 2, avg |-> 4, realized |-> 0]}

=============================================================================
