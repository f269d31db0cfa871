--------------------------- MODULE MCDurableParty ---------------------------
(* TLC instances of the durable party tables. *)
EXTENDS DurablePartyProperties, TLC

Everything == AllOperations

At(m, n) == [x \in Party |-> IF x = 11 THEN m ELSE n]

(* Two founders and a guest; a guest of a linked founder and another       *)
(* account; a full party whose guest is older than its second account.     *)
Rosters ==
  { [rosters |-> At(<<1>>, <<3>>), linked |-> {1, 3}, queued |-> {11}],
    [rosters |-> At(<<2, 1>>, <<>>), linked |-> {2, 3}, queued |-> {}],
    [rosters |-> At(<<2, 3, 1>>, <<>>), linked |-> {1, 2}, queued |-> {}],
    [rosters |-> At(<<2, 3, 1>>, <<>>), linked |-> {1, 2}, queued |-> {11}] }

Symmetry == Permutations(Session) \union Permutations(Claim)
=============================================================================
