------------------------------- MODULE PlanStore ------------------------------
(***************************************************************************)
(* What the planning boards of several browsers share: the work of the     *)
(* orders on the calendar, the capacity that is left, the version and the  *)
(* lock of each production type; and what each browser has of it.          *)
(*                                                                         *)
(* ManualEdit.tla is the server side of a save, PlanningBoard.tla the page *)
(* (app/(dashboard)/visualization/page.tsx); Planners.tla puts them        *)
(* together.                                                               *)
(***************************************************************************)
EXTENDS Integers, FiniteSetsExt, SequencesExt

CONSTANTS
  Orders, Factories, Types, Planners,
  Days,             \* the calendar
  Pieces,           \* bound: the rows of OrderAssignment
  MaxParts,         \* bound: the parts an order is split into
  OrderType, Quantity, Due,       \* functions of the order
  FactoryType, MaxCapacity,       \* functions of the factory
  Margin,           \* productionDays + bufferDays
  Scenes,           \* see Scene
  None,
  Staging           \* the staging area of a page, where a piece is put for a while

Cells == Factories \X Days
Parts == Orders \X (1 .. MaxParts)

(* A row of OrderAssignment: work of an order in a cell.                   *)
Work == [order : Orders, cell : Cells, qty : Nat \ {0}]

ASSUME PlanAssumption ==
  /\ Days \subseteq Int /\ Margin \in Nat \ {0} /\ MaxParts \in Nat
  /\ Planners \subseteq Nat \ {0} /\ "A" \in Types
  /\ OrderType \in [Orders -> Types] /\ FactoryType \in [Factories -> Types]
  /\ Quantity \in [Orders -> Nat \ {0}] /\ Due \in [Orders -> Int]
  /\ MaxCapacity \in [Factories -> Nat]
  /\ None \notin Types \cup Int /\ \A S \in SUBSET Types : None \notin [S -> Nat]
  /\ \A s \in DOMAIN Scenes :
       /\ Scenes[s].group \in [Planners -> Types \cup {None}]
       /\ \A r \in Scenes[s].starts : DOMAIN r = {"piece", "status", "fixed", "prio"}

(* The calendar starts at day 0; the work a scene starts from fits in the  *)
(* cells, and what is dragged there is dragged to a cell.                  *)
ASSUME SceneAssumption ==
  /\ \A S \in {Orders, Factories, Pieces} : S \subseteq Nat /\ IsFiniteSet(S)
  /\ Max(Days) \in Nat /\ Days = 0 .. Max(Days)
  /\ None \notin Work
  /\ \A s \in DOMAIN Scenes :
       /\ Scenes[s].start \in Int /\ Scenes[s].targets \subseteq Cells
       /\ \A f \in Scenes[s].parts : \A i \in DOMAIN f : f[i] \in Nat \ {0}
       /\ \A r \in Scenes[s].starts :
            /\ r.piece \in [Pieces -> Work \cup {None}]
            /\ \A c \in Cells :
                 MapThenSumSet(LAMBDA a : r.piece[a].qty,
                               {a \in Pieces : r.piece[a] # None
                                               /\ r.piece[a].cell = c})
                   <= MaxCapacity[c[1]]

VARIABLES
  rows,     \* the tables: the pieces of work, and status and flags of orders
  room,     \* curCapacity of each cell
  version,  \* schedule version of each type
  lock,     \* who holds the schedule lock of each type, or None
  fetch,    \* a timeline that a browser is being sent, or None
  board,    \* the state of each page
  call,     \* the save in progress of each page, or NoCall
  scene,    \* the tables and the edits of this behaviour (never changes)
  hist      \* history: see below

vars == <<rows, room, version, lock, fetch, board, call, scene, hist>>

(* A scene: the tables it starts from, the group of each planner (a type,  *)
(* or None for a SUPERADMIN), the edits a planner may make and how many,   *)
(* and how many saves and refreshes.                                       *)
Scene == DOMAIN Scenes
Group(p) == Scenes[scene].group[p]
May(p, op) == op \in Scenes[scene].ops[p]

(* A page on which no save is in progress.                                 *)
NoCall == [at |-> "idle"]
Saves(p) == call[p].at # "idle"

(* For the properties, and to bound the behaviours: marks counts, for each *)
(* type, the writes and the increments of its version; astray are the      *)
(* cells that were written without the lock of their type, or by a plan    *)
(* that something had been written or counted after; lopsided the planners *)
(* whose own calls have moved the versions they count on apart from those  *)
(* of the server; edits, saves and fetches were made so far.               *)
Marked(h, T, n) ==
  [h EXCEPT !.marks = [t \in Types |-> @[t] + (IF t \in T THEN n ELSE 0)]]

-------------------------------------------------------------------------------
Scope(p) == IF Group(p) = None THEN Types ELSE {Group(p)}

(* The timeline of a page has the work in the factories it sees, the       *)
(* sidebar the PENDING orders of its types.                                *)
Shown(p, r) == {a \in Pieces : r.piece[a] # None
                                /\ FactoryType[r.piece[a].cell[1]] \in Scope(p)}
Pending(p, r) == {o \in Orders : r.status[o] = "PENDING"
                                 /\ OrderType[o] \in Scope(p)}

(* getTimeline reads the tables first and the versions afterwards.         *)
FetchRows(p) ==
  /\ fetch[p] = None /\ hist.fetches[p] < Scenes[scene].fetches[p]
  /\ fetch' = [fetch EXCEPT ![p] = [rows |-> rows, marks |-> hist.marks]]
  /\ hist' = [hist EXCEPT !.fetches[p] = @ + 1]
  /\ UNCHANGED <<rows, room, version, lock, board, call, scene>>

(* The page takes what it is sent, in edit mode too.  What was written     *)
(* between the two reads is not in the rows, but it is in the versions.    *)
FetchVersions(p) ==
  /\ fetch[p] # None
  /\ board' = [board EXCEPT ![p].data =
       [rows |-> fetch[p].rows, versions |-> [t \in Scope(p) |-> version[t]],
        marks |-> fetch[p].marks,
        torn |-> {t \in Types : hist.marks[t] # fetch[p].marks[t]}]]
  /\ fetch' = [fetch EXCEPT ![p] = None]
  /\ UNCHANGED <<rows, room, version, lock, call, scene, hist>>
===============================================================================
