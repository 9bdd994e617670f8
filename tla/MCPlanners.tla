------------------------------- MODULE MCPlanners -----------------------------
(* Two planners and two types with a factory each.  Work that is dragged to *)
(* the last day is too late for the server, though not for the page.        *)
EXTENDS Planners

MCOrderType == [o \in Orders |-> IF o = 3 THEN "B" ELSE "A"]
MCQuantity == [o \in Orders |-> IF o = 2 THEN 2 ELSE 1]
MCDue == [o \in Orders |-> 3]
MCFactoryType == [f \in Factories |-> IF f = 1 THEN "A" ELSE "B"]
MCMaxCapacity == [f \in Factories |-> IF f = 1 THEN 3 ELSE 1]

Piece(o, f, d, n) == [order |-> o, cell |-> <<f, d>>, qty |-> n]
Rows(pieces, pending) ==
  [piece |-> [a \in Pieces |-> IF a \in DOMAIN pieces THEN pieces[a] ELSE None],
   status |-> [o \in Orders |-> IF o \in pending THEN "PENDING"
                                ELSE "SCHEDULED"],
   fixed |-> [o \in Orders |-> FALSE], prio |-> [o \in Orders |-> FALSE]]

Two(x, y) == <<x, y>>

(* Two admins of A on what is scheduled: the first may save again what was  *)
(* refused, and one order is fixed to begin with.                           *)
Dragging ==
  [starts |-> {[Rows(<<Piece(1, 1, 0, 1), Piece(2, 1, 1, 2)>>, {3})
                  EXCEPT !.fixed[2] = TRUE]},
   group |-> Two("A", "A"), targets |-> {<<1, 0>>, <<1, 1>>}, parts |-> {},
   ops |-> Two({"drag", "fixed"}, {"drag"}),
   edits |-> Two(2, 1), saves |-> Two(2, 1), fetches |-> Two(1, 0)]

(* More edits in one save, of several orders and kinds.                     *)
Flagging ==
  [starts |-> {Rows(<<Piece(1, 1, 0, 1), Piece(2, 1, 1, 2)>>, {3})},
   group |-> Two("A", "A"), targets |-> {<<1, 0>>, <<1, 1>>, <<1, 2>>},
   parts |-> {}, ops |-> Two({"drag", "fixed", "prio"}, {"prio"}),
   edits |-> Two(3, 1), saves |-> Two(1, 1), fetches |-> Two(0, 0)]

(* Two admins of A, who place and split what is waiting; it is prioritized. *)
Placing ==
  [starts |-> {[Rows(<<Piece(1, 1, 0, 1)>>, {2, 3}) EXCEPT !.prio[2] = TRUE]},
   group |-> Two("A", "A"), targets |-> {<<1, 0>>, <<1, 1>>},
   parts |-> {<<1, 1>>},
   ops |-> Two({"place", "split", "part", "prio"}, {"place"}),
   edits |-> Two(4, 1), saves |-> Two(1, 1), fetches |-> Two(0, 0)]

(* A SUPERADMIN, who moves work between the types, and an admin of B.       *)
Crossing ==
  [starts |-> {Rows(<<Piece(1, 1, 0, 1), Piece(2, 1, 1, 2),
                      Piece(3, 2, 0, 1)>>, {})},
   group |-> Two(None, "B"), targets |-> {<<1, 1>>, <<2, 0>>, <<2, 1>>},
   parts |-> {},
   ops |-> Two({"drag", "stage", "fixed"}, {"drag", "fixed"}),
   edits |-> Two(2, 1), saves |-> Two(1, 1), fetches |-> Two(1, 0)]

NoEngine == [start |-> 0, policies |-> {}, asks |-> Two(0, 0)]

(* An admin of A, who has a preview made and applies it, while the other    *)
(* fixes an order or runs the engine.  Order 1 is to be moved forward.      *)
Previewing ==
  [starts |-> {Rows(<<Piece(1, 1, 1, 1), Piece(3, 2, 1, 1)>>, {2})},
   group |-> Two("A", "A"), targets |-> {<<1, 1>>}, parts |-> {},
   ops |-> Two({"preview", "apply", "expire"}, {"run", "fixed"}),
   edits |-> Two(0, 1), saves |-> Two(0, 1), fetches |-> Two(0, 0),
   start |-> 0, policies |-> {"GLOBAL_OPTIMIZE", "GAP_FILLING"}, asks |-> Two(1, 1)]

(* The last days: order 1 cannot be done in time any more, and whoever      *)
(* optimizes makes it fail.                                                 *)
Failing ==
  [starts |-> {Rows(<<Piece(1, 1, 2, 1), Piece(2, 1, 1, 2)>>, {3})},
   group |-> Two("A", "A"), targets |-> {}, parts |-> {},
   ops |-> Two({"preview", "apply"}, {"run", "preview", "apply"}),
   edits |-> Two(0, 0), saves |-> Two(0, 0), fetches |-> Two(1, 0),
   start |-> 2, policies |-> {"GLOBAL_OPTIMIZE", "GAP_FILLING"}, asks |-> Two(1, 1)]

(* A SUPERADMIN, who goes from type to type, and may edit while a preview   *)
(* is on its way.                                                           *)
Switching ==
  [starts |-> {Rows(<<Piece(1, 1, 1, 1), Piece(3, 2, 1, 1)>>, {2})},
   group |-> Two(None, "A"), targets |-> {<<1, 1>>}, parts |-> {},
   ops |-> Two({"preview", "apply", "switch", "place"}, {}),
   edits |-> Two(1, 0), saves |-> Two(0, 0), fetches |-> Two(0, 0),
   start |-> 0, policies |-> {"GLOBAL_OPTIMIZE"}, asks |-> Two(1, 0)]

(* The first drags what the second makes fail, or is told of in time.       *)
Vanishing ==
  [starts |-> {Rows(<<Piece(1, 1, 2, 1), Piece(2, 1, 1, 2)>>, {3})},
   group |-> Two("A", "A"), targets |-> {<<1, 0>>, <<1, 1>>}, parts |-> {},
   ops |-> Two({"drag"}, {"run"}),
   edits |-> Two(2, 0), saves |-> Two(1, 0), fetches |-> Two(0, 0),
   start |-> 2, policies |-> {"GLOBAL_OPTIMIZE"}, asks |-> Two(0, 1)]

MCScenes == <<Dragging @@ NoEngine, Flagging @@ NoEngine,
              Placing @@ NoEngine, Crossing @@ NoEngine, Previewing, Failing,
              Switching, Vanishing>>
===============================================================================
