---------------------------- MODULE MCSimulation ----------------------------
(***************************************************************************)
(* Small runs: each scene is a question.                                   *)
(***************************************************************************)
EXTENDS SimulationProperties, TLC

CONSTANTS A, B, Field, Repair, Trap, Spare, Other

MCKind == (Repair :> "health") @@ (Trap :> "mine") @@ (Spare :> "mine") @@ (Other :> "signal")

Carrier(control, squad, bay, hold, does) ==
  [control |-> control, squad |-> squad, bays |-> <<bay>>, hold |-> hold, does |-> does]

(* A body is looted while its owner drops, and its looter swaps. *)
Raid ==
  [bots |-> (1 :> Carrier("human", A, Trap, <<Repair>>, {"fight", "drop"}))
            @@ (2 :> Carrier("human", B, None, <<Other>>, {"fight", "swap", "take", "loot"})),
   at |-> Field, dots |-> {}, items |-> {Trap, Repair, Other}, acts |-> 4]

(* The owner of mines, one too many, pleads and is picked up by a rival. *)
Ambush ==
  [bots |-> (1 :> Carrier("human", A, Trap, <<Spare>>, {"fight", "use", "swap", "plea"}))
            @@ (2 :> Carrier("human", B, None, <<>>, {"fight", "revive", "walk"})),
   at |-> Field, dots |-> {}, items |-> {Trap, Spare}, acts |-> 4]

(* Two players of a squad pick up two rivals, with room for one of them. *)
Muster ==
  [bots |-> (1 :> Carrier("human", A, None, <<>>, {"fight", "revive"}))
            @@ (2 :> Carrier("human", A, None, <<>>, {"fight", "revive"}))
            @@ (3 :> Carrier("frozen", B, None, <<>>, {}))
            @@ (4 :> Carrier("ai", B, None, <<>>, {})),
   at |-> Field, dots |-> {}, items |-> {}, acts |-> 2]

(* A player and a rival's escort are after the same Dot, and the way out. *)
Rush ==
  [bots |-> (1 :> Carrier("human", A, None, <<>>, {"fight", "walk", "away", "use"}))
            @@ (2 :> Carrier("ai", B, None, <<>>, {"fight", "walk", "away"})),
   at |-> Field, dots |-> {Repair}, items |-> {Repair}, acts |-> 2]

MCScenes == {Raid, Ambush, Muster, Rush}
=============================================================================
