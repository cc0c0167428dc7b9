------------------------------ MODULE Controls ------------------------------
(***************************************************************************)
(* The left-hand panel (web/src/filters.ts) and what main.ts feeds it: a   *)
(* chip per namespace and per machine, the filters they switch, and the    *)
(* red of unreachable machines, on their chips and on the lights of their  *)
(* anchors.  A filter lives as long as the page; a chip comes and goes     *)
(* with the passes over the graph's membership that a frame may make; a    *)
(* tick's status reaches dots and lights between frames.                   *)
(*                                                                         *)
(* The graph is the environment here (Browser models it): of its nodes     *)
(* only their namespaces and machines matter.  The switches for verdicts,  *)
(* protocols and reserved entities, which are there all the time, and the  *)
(* window are left out; pausing is in Transport.                           *)
(***************************************************************************)
EXTENDS Integers, FiniteSets

CONSTANTS
  Namespaces,   \* names of namespaces other than "reserved"
  Machines      \* names of machines

(* A name stands for its chip, and a chip is of one kind. *)
ASSUME ControlsAssumption == Namespaces \cap Machines = {}

VARIABLES
  graph,        \* what the store's nodes name: namespaces, machines, and the anchors among these
  changed,      \* since the last frame: [members, touched]
  groupBy,      \* filters.groupBy and layout.groupBy
  nsChips,      \* FiltersPanel.chips: is the chip "on"?
  nsHidden,     \* filters.namespaces
  machineChips, \* FiltersPanel.machineChips: [on, down]
  hidden,       \* filters.machines
  machines,     \* main.ts machines, of the last pass
  unavailable,  \* status.unavailable
  lights,       \* the anchors that have a slot
  red,          \* the anchors whose slot is marked unavailable
  late          \* for the properties: chips made when their name was hidden already

chips == <<nsChips, machineChips, late>>
filters == <<nsHidden, hidden>>
feed == <<graph, changed, unavailable, lights, red>>
vars == <<feed, groupBy, chips, filters, machines>>

Init ==
  /\ graph = [namespaces |-> {}, machines |-> {}, anchors |-> {}]
  /\ changed = [members |-> FALSE, touched |-> FALSE]
  /\ groupBy = "namespace"
  /\ nsChips = <<>> /\ machineChips = <<>> /\ late = {}
  /\ nsHidden = {} /\ hidden = {}
  /\ machines = {} /\ unavailable = {} /\ lights = {} /\ red = {}

-----------------------------------------------------------------------------
(* The chips: one that is made is "on".                                     *)

SyncNamespaces(want) ==
  nsChips' = [ns \in want |-> ns \in DOMAIN nsChips => nsChips[ns]]

(* Mutant: the dot is set when the chip is made. *)
SyncMachines_NewOnly(want, down) ==
  machineChips' = [m \in want |->
    IF m \in DOMAIN machineChips THEN machineChips[m] ELSE [on |-> TRUE, down |-> m \in down]]

SyncMachines(want, down) ==
  machineChips' = [m \in want |->
    [on |-> m \in DOMAIN machineChips => machineChips[m].on, down |-> m \in down]]

(* Chips that are there and those made late, when `want' is synced.         *)
Late(there, want, hide) == (late \cap there \cap want) \cup ((want \ there) \cap hide)

Toggle(S, x) == IF x \in S THEN S \ {x} ELSE S \cup {x}

(* Mutant: a click refreshes only the chips it switches off. *)
Refresh_OffOnly(hide) ==
  /\ nsHidden' = hide
  /\ nsChips' = [ns \in DOMAIN nsChips |-> nsChips[ns] /\ ns \notin hide]
  /\ late' = late \ Namespaces
  /\ UNCHANGED <<feed, groupBy, machineChips, hidden, machines>>

(* Every click on a namespace refreshes all of their chips.                 *)
Refresh(hide) ==
  /\ nsHidden' = hide
  /\ nsChips' = [ns \in DOMAIN nsChips |-> ns \notin hide]
  /\ late' = late \ Namespaces
  /\ UNCHANGED <<feed, groupBy, machineChips, hidden, machines>>

ClickNamespace ==
  \E ns \in DOMAIN nsChips : Refresh(Toggle(nsHidden, ns))

(* As many are hidden as there are other chips: those of namespaces that     *)
(* have left count as well.                                                 *)
Only(ns) == Cardinality(nsHidden) = Cardinality(DOMAIN nsChips) - 1 /\ ns \notin nsHidden

(* Alt-click: show only this one, or everything if it was the only one.     *)
Solo ==
  \E ns \in DOMAIN nsChips : Refresh(IF Only(ns) THEN {} ELSE DOMAIN nsChips \ {ns})

ClickMachine ==
  /\ \E m \in DOMAIN machineChips :
       /\ hidden' = Toggle(hidden, m)
       /\ machineChips' = [machineChips EXCEPT ![m].on = m \notin hidden']
       /\ late' = late \ {m}
  /\ UNCHANGED <<feed, groupBy, nsChips, nsHidden, machines>>

-----------------------------------------------------------------------------
(* Messages.                                                                *)

(* Nodes come and go, by a snapshot or a tick. *)
MembersChange ==
  /\ \E N \in SUBSET Namespaces, M \in SUBSET Machines : \E A \in SUBSET M :
       graph' = [namespaces |-> N, machines |-> M, anchors |-> A]
  /\ changed' = [changed EXCEPT !.members = TRUE]
  /\ UNCHANGED <<unavailable, lights, red, groupBy, chips, filters, machines>>

(* A node that is there already gets its machine, or another one. *)
MachineChanges ==
  /\ graph.namespaces # {}
  /\ \E M \in SUBSET Machines :
       /\ M # {} /\ graph.anchors \subseteq M
       /\ graph' = [graph EXCEPT !.machines = M]
  /\ changed' = [changed EXCEPT !.touched = TRUE]
  /\ UNCHANGED <<unavailable, lights, red, groupBy, chips, filters, machines>>

(* The status at the end of a tick: an empty list marks no light, but syncs *)
(* no chip either.  The chips are those of the last pass.                   *)
TickStatus ==
  /\ \E U \in SUBSET Machines :
       /\ unavailable' = U
       /\ red' = lights \cap U
       /\ IF U = {} THEN UNCHANGED <<machineChips, late>>
          ELSE SyncMachines(machines, U) /\ UNCHANGED late
  /\ UNCHANGED <<graph, changed, lights, groupBy, nsChips, filters, machines>>

-----------------------------------------------------------------------------
(* Frames.                                                                  *)

PassNeeded == changed.members \/ (changed.touched /\ groupBy = "machine")

Pass ==
  /\ machines' = graph.machines
  /\ SyncMachines(graph.machines, unavailable)
  /\ SyncNamespaces(graph.namespaces)
  /\ late' = Late(DOMAIN nsChips \cup DOMAIN machineChips,
                  graph.namespaces \cup graph.machines, nsHidden \cup hidden)
  /\ lights' = graph.anchors
  /\ red' = red \cap graph.anchors

ApplyChanges ==
  /\ IF PassNeeded THEN Pass ELSE UNCHANGED <<chips, machines, lights, red>>
  /\ changed' = [members |-> FALSE, touched |-> FALSE]
  /\ UNCHANGED <<graph, unavailable, groupBy, filters>>

(* Another grouping makes a pass of its own at once. *)
GroupBy ==
  /\ groupBy' = IF groupBy = "namespace" THEN "machine" ELSE "namespace"
  /\ Pass
  /\ changed' = [members |-> FALSE, touched |-> FALSE]
  /\ UNCHANGED <<graph, unavailable, filters>>

Next ==
  \/ MembersChange \/ MachineChanges \/ TickStatus \/ ApplyChanges \/ GroupBy
  \/ ClickNamespace \/ Solo \/ ClickMachine

Spec == Init /\ [][Next]_vars

-----------------------------------------------------------------------------
(* Properties.                                                              *)

(* A chip tells whether its name is hidden, whichever chip was clicked last   *)
(* and whatever came and went meanwhile.  Except a chip that was made when    *)
(* its name was hidden already: it is "on" until a click refreshes it, since  *)
(* filters outlive their chips (filters.ts:190-223, :227-260).                *)
ChipsTellFilters ==
  /\ \A ns \in DOMAIN nsChips : nsChips[ns] <=> ns \notin nsHidden \/ ns \in late
  /\ \A m \in DOMAIN machineChips : machineChips[m].on <=> m \notin hidden \/ m \in late

(* As long as some machine cannot be reached, the dots are on the chips of    *)
(* just those that cannot, also on chips made after the status came; and no   *)
(* light is red for a machine that can be reached.  When all are back the     *)
(* lights turn at once and the dots stay until the next pass (main.ts:66-67,  *)
(* :109; nodes.ts:190).                                                       *)
RedFollowsStatus ==
  /\ unavailable # {} => \A m \in DOMAIN machineChips : machineChips[m].down <=> m \in unavailable
  /\ red \subseteq unavailable

=============================================================================
