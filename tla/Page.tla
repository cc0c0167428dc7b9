-------------------------------- MODULE Page --------------------------------
(***************************************************************************)
(* What the user points at and selects (web/src/picking.ts, main.ts:222ff, *)
(* panel.ts), on the page of Browser.  The same id is held in several      *)
(* places that are brought up to date at different times: the selection,   *)
(* the thing under the pointer, the node whose arcs are lit and the panel, *)
(* which looks into the store whenever the rates are refreshed.            *)
(*                                                                         *)
(* A pick is an id or NoPick.  A light is found through the instance that  *)
(* is drawn: its index names a slot, and slots change hands (web/src/      *)
(* nodes.ts), which is why the pool's indexes are here.  Which lights the  *)
(* filters hide is free; the indexes of the arcs are in EdgeSlots.  Of an  *)
(* arc's colours only this is kept, whether they are those of an emphasis: *)
(* they are written into a buffer that not every frame writes anew.        *)
(***************************************************************************)
EXTENDS Browser, SequencesExt

CONSTANT NoPick

ASSUME PageAssumption == NodeIds \cap EdgeIds = {} /\ NoPick \notin NodeIds \cup EdgeIds

VARIABLES
  selected,    \* selected; nodes.selected or edges.selected as well
  hovered,     \* Picking.hovered; nodes.hovered or edges.hovered as well
  emphasised,  \* Edges.emphasisedNode
  panel,       \* Panel.current
  links,       \* what the links in the panel lead to
  missed,      \* for the properties: the selection was away since it was made
  index,       \* Slot.index of each drawn node
  free,        \* Nodes.free, a stack
  instances,   \* what the meshes show: the node that was drawn at an index
  shaded,      \* drawn arcs that were last painted lit or dimmed
  colDirty,    \* the width batches whose colours have changed
  skipped      \* for the properties: shaded arcs passed over since, see PaintArcs

hand == <<selected, hovered, emphasised, panel, links, missed>>
pool == <<index, free, instances>>
paint == <<shaded, colDirty, skipped>>
pageVars == <<vars, hand, pool, paint>>

PageInit ==
  /\ Init
  /\ selected = NoPick /\ hovered = NoPick /\ emphasised = NoPick
  /\ panel = NoPick /\ links = {} /\ missed = FALSE
  /\ index = <<>>
  /\ free = [i \in 1..Capacity |-> Capacity - i]
  /\ instances = {}
  /\ shaded = {} /\ colDirty = {} /\ skipped = {}

-----------------------------------------------------------------------------

Stored(s) == DOMAIN s.nodes \cup s.edges

-----------------------------------------------------------------------------
(* The node pool, for the slots that a frame's changes take and give back.  *)

(* Workloads are one mesh's instances, reserved entities the other's. *)
Mesh(id) == IF IsReserved(id) THEN "reservedMesh" ELSE "mesh"

(* Mutant: the instances of a slot that is given back stay. *)
Erased_Nothing(at) == instances

(* remove() scales the slot's instances of all meshes to nothing. *)
Erased(at) == {i \in instances : i.at \notin at}

(* remove() for the slots that go, then add() for those that come.  What     *)
(* add() leaves in the meshes is what was there: nothing.                   *)
ChangePool ==
  \E out \in SetToSeqs(DOMAIN nodes \ DOMAIN nodes'), in \in SetToSeqs(DOMAIN nodes' \ DOMAIN nodes) :
    LET stack == free \o [k \in DOMAIN out |-> index[out[k]]]
        left  == Len(stack) - Len(in)
    IN  /\ free' = SubSeq(stack, 1, left)
        /\ index' = [id \in DOMAIN nodes' |->
                       IF id \in DOMAIN nodes THEN index[id]
                       ELSE stack[Len(stack) + 1 - (CHOOSE k \in DOMAIN in : in[k] = id)]]

GivenBack == {index[id] : id \in DOMAIN nodes \ DOMAIN nodes'}

(* update(): every slot's instance in its own mesh, unless the filters hide *)
(* it, and none in the other.                                               *)
Updated(old, hide) ==
  {i \in old : i.at \notin {index'[id] : id \in DOMAIN index'}}
    \cup {[mesh |-> Mesh(id), at |-> index'[id], of |-> id] : id \in DOMAIN index' \ hide}

(* idAt: the pointer hits an instance, and gets the slot's node. *)
LightsHit == {id \in DOMAIN index : \E i \in instances : i.at = index[id]}

Pickable == LightsHit \cup edges

-----------------------------------------------------------------------------
(* The colours of the arcs (Edges.update).                                  *)

AnyEmphasis == emphasised # NoPick \/ selected \in EdgeIds \/ hovered \in EdgeIds

(* How an arc is painted, if it is: some are skipped and stay as they are.   *)
Lit(e) == e \in {selected, hovered} \/ emphasised \in {Src[e], Dst[e]}

Dimmed(e) == AnyEmphasis /\ ~Lit(e)

(* Arcs that keep their slot.  A slot that is cleared is black. *)
Staying == {e \in edges \cap edges' : batch'[e] = batch[e]}

Cleared == {batch[e] : e \in edges \ Staying}

(* setColor, for every edge of the store that is drawn. *)
Recoloured == {batch'[e] : e \in edges' \cap state.edges}

(* Between frames no arc is painted. *)
KeepShades ==
  /\ shaded' = shaded \cap Staying
  /\ skipped' = skipped \cap shaded'

(* Arcs of the store with both ends drawn. *)
Traceable ==
  {e \in edges' \cap state.edges : {Src[e], Dst[e]} \subseteq DOMAIN nodes'}

(* With an emphasis every arc is painted, without one those of the batches  *)
(* whose colours have changed.  An end that found the pool full: the arc is *)
(* painted as well if it was traced before and the layout does not move.    *)
PaintArcs(refreshed) ==
  \E traced \in SUBSET (edges' \cap state.edges) :
    LET due     == colDirty \cup Cleared \cup (IF refreshed THEN Recoloured ELSE {})
        painted == {e \in traced : AnyEmphasis \/ batch'[e] \in due}
    IN  /\ Traceable \subseteq traced
        /\ shaded' = ((shaded \cap Staying) \ painted) \cup (IF AnyEmphasis THEN painted ELSE {})
        /\ skipped' = (skipped \cup (edges' \ Traceable)) \cap (shaded' \ painted)

-----------------------------------------------------------------------------
(* The selection and the panel.                                             *)

(* Mutant: a new snapshot closes the panel. *)
Shown_Reset(s, p) == IF p \in Stored(s) /\ ~s.reset THEN p ELSE NoPick

(* The panel shows nothing that the store does not have (render, refresh).  *)
Shown(s, p) == IF p \in Stored(s) THEN p ELSE NoPick

(* A node's panel lists its conversations anew at every refresh, an edge's  *)
(* names its ends.                                                          *)
LinksOf(s, p) ==
  IF p \in NodeIds THEN s.nodes[p].edges \cap s.edges
  ELSE IF p \in EdgeIds THEN {Src[p], Dst[p]} ELSE {}

OnlyNode(p) == IF p \in NodeIds THEN p ELSE NoPick

(* panel.refresh *)
RefreshPanel(s) ==
  /\ panel' = Shown(s, panel)
  /\ links' = LinksOf(s, panel')

(* Mutant: nothing selected leaves the arcs as they are. *)
Select_KeepEmphasis(p) ==
  /\ selected' = p
  /\ emphasised' = IF p = NoPick THEN emphasised ELSE OnlyNode(p)
  /\ panel' = Shown(state, p)
  /\ links' = LinksOf(state, panel')
  /\ missed' = (p \notin Stored(state))
  /\ IF p = NoPick THEN UNCHANGED vars ELSE RefreshRates
  /\ colDirty' = Batches /\ KeepShades
  /\ UNCHANGED <<hovered, pool>>

(* select: the rates are refreshed unless the selection is taken back. *)
Select(p) ==
  /\ selected' = p
  /\ emphasised' = OnlyNode(p)
  /\ panel' = Shown(state, p)
  /\ links' = LinksOf(state, panel')
  /\ missed' = (p \notin Stored(state))
  /\ IF p = NoPick THEN UNCHANGED vars ELSE RefreshRates
  /\ colDirty' = Batches /\ KeepShades
  /\ UNCHANGED <<hovered, pool>>

(* setHovered and onHover: an edge under the pointer leaves the arcs alone.  *)
(* `due' are the batches that are to be painted anyway.                     *)
SetHovered(p, due) ==
  LET emphasise == p # hovered /\ selected = NoPick /\ p \notin EdgeIds
  IN  /\ hovered' = p
      /\ emphasised' = IF emphasise THEN p ELSE emphasised
      /\ colDirty' = IF emphasise THEN Batches ELSE due

-----------------------------------------------------------------------------

(* A message changes the store and nothing else. *)
Message ==
  /\ ReceiveSnapshot \/ ReceiveTick \/ Disconnect
  /\ missed' = (missed \/ selected \notin Stored(state'))
  /\ UNCHANGED <<selected, hovered, emphasised, panel, links, pool, paint>>

(* A frame: the changes, the rates and the panel every quarter of a second, *)
(* the lights, the arcs, and what is under the pointer if it moved.         *)
Animate ==
  /\ \E refreshed \in BOOLEAN :
       /\ Frame(refreshed)
       /\ IF refreshed THEN RefreshPanel(state) ELSE UNCHANGED <<panel, links>>
       /\ PaintArcs(refreshed)
  /\ ChangePool
  /\ \E hide \in SUBSET DOMAIN nodes' : instances' = Updated(Erased(GivenBack), hide)
  /\ \/ \E p \in Pickable' \cup {NoPick} : SetHovered(p, {})
     \/ colDirty' = {} /\ UNCHANGED <<hovered, emphasised>>
  /\ UNCHANGED <<selected, missed>>

(* filters.onChange, with or without another grouping; lights and arcs are  *)
(* drawn by the next frame.                                                 *)
ChangeFilters ==
  /\ \/ /\ SwitchGrouping /\ ChangePool
        /\ instances' = Erased(GivenBack)
     \/ RefreshRates /\ UNCHANGED pool
  /\ RefreshPanel(state)
  /\ colDirty' = colDirty \cup Cleared \cup Recoloured /\ KeepShades
  /\ UNCHANGED <<selected, hovered, emphasised, missed>>

PointerLeaves ==
  /\ SetHovered(NoPick, colDirty)
  /\ UNCHANGED <<vars, selected, panel, links, missed, pool, shaded, skipped>>

(* A click on what is selected takes the selection back. *)
Click == \E p \in Pickable \cup {NoPick} : Select(IF p = selected THEN NoPick ELSE p)

(* Escape, or the panel's close button. *)
Close == Select(NoPick)

Navigate == \E p \in links : Select(p)

PageNext ==
  Message \/ Animate \/ ChangeFilters \/ PointerLeaves \/ Click \/ Close \/ Navigate

PageSpec == PageInit /\ [][PageNext]_pageVars

-----------------------------------------------------------------------------
(* Properties.                                                              *)

(* The panel is open on what is selected, also when the store was rebuilt     *)
(* under it, and closes by itself only when that was gone for a while; the    *)
(* selection then lives on without a panel (panel.ts:37, :43; main.ts:222).   *)
PanelFollowsSelection ==
  panel = selected \/ (panel = NoPick /\ missed)

(* Selecting, hovering and closing in any order, while what is selected comes *)
(* and goes: with a selection the arcs lit are its own and the one under the  *)
(* pointer, and with nothing selected and nothing under the pointer no arc is *)
(* lit or dimmed, nor stays so: what an emphasis left in the buffer is due to *)
(* be painted anew (main.ts:226, :242-245, edges.ts:203-206, :243).  Except   *)
(* an arc that was passed over when the others were: its edge had gone, on    *)
(* no list (graph-state.ts:222), or an end was not drawn, and came back later *)
(* (edges.ts:213, :216).                                                      *)
EmphasisOwned ==
  \A e \in edges \cap state.edges :
    /\ selected \in NodeIds => (Lit(e) <=> selected \in {Src[e], Dst[e]} \/ e = hovered)
    /\ selected \in EdgeIds => (Lit(e) <=> e \in {selected, hovered})
    /\ {selected, hovered} = {NoPick} =>
         ~Lit(e) /\ ~Dimmed(e) /\ (e \in shaded \ skipped => batch[e] \in colDirty)

(* A slot is free or has one node, and an instance that shows shows the node  *)
(* whose slot it is, in that node's mesh: whoever points at a light, also     *)
(* between a pass that gave its slot to another node and the next frame, gets *)
(* what is drawn there (nodes.ts:117, :142-158, :236-242).                    *)
LightsAreOwn ==
  /\ IsInjective(index) /\ IsInjective(free)
  /\ {index[id] : id \in DOMAIN nodes} = 0..(Capacity - 1) \ ToSet(free)
  /\ \A i \in instances : i.of \in DOMAIN index /\ i.at = index[i.of] /\ i.mesh = Mesh(i.of)

=============================================================================
