--------------------------- MODULE ControlsProofs ---------------------------
(***************************************************************************)
(* Proofs about Controls for any namespaces and machines.  The status of a *)
(* tick is shown on the chips of the machines of the last pass, which are  *)
(* the machine chips there are: with that, each property is preserved by   *)
(* every click, message and pass.                                          *)
(***************************************************************************)
EXTENDS Controls, TLAPS

TypeInv ==
  /\ graph \in [namespaces: SUBSET Namespaces, machines: SUBSET Machines, anchors: SUBSET Machines]
  /\ DOMAIN nsChips \subseteq Namespaces
  /\ nsChips \in [DOMAIN nsChips -> BOOLEAN]
  /\ DOMAIN machineChips \subseteq Machines
  /\ machineChips \in [DOMAIN machineChips -> [on: BOOLEAN, down: BOOLEAN]]

ChipsOfThePass == machines = DOMAIN machineChips

ControlsInv == TypeInv /\ ChipsOfThePass /\ ChipsTellFilters /\ RedFollowsStatus

-----------------------------------------------------------------------------

LEMMA ControlsInvInit == Init => ControlsInv
  <1> SUFFICES ASSUME Init  PROVE ControlsInv
    OBVIOUS
  <1>1. DOMAIN <<>> = {}  OBVIOUS
  <1> QED BY <1>1 DEF Init, ControlsInv, TypeInv, ChipsOfThePass, ChipsTellFilters, RedFollowsStatus

(* Syncing keeps what chips say of their filters, and sets every dot. *)
LEMMA SyncMachinesKeeps ==
  ASSUME TypeInv, NEW want \in SUBSET Machines, NEW down, SyncMachines(want, down)
  PROVE  /\ DOMAIN machineChips' = want
         /\ machineChips' \in [want -> [on: BOOLEAN, down: BOOLEAN]]
         /\ \A m \in want : machineChips'[m].down <=> m \in down
         /\ \A m \in want \cap DOMAIN machineChips : machineChips'[m].on = machineChips[m].on
         /\ \A m \in want \ DOMAIN machineChips : machineChips'[m].on
  <1>1. machineChips' = [m \in want |->
          [on |-> m \in DOMAIN machineChips => machineChips[m].on, down |-> m \in down]]
    BY DEF SyncMachines
  <1>2. /\ DOMAIN machineChips' = want
        /\ machineChips' \in [want -> [on: BOOLEAN, down: BOOLEAN]]
    BY <1>1
  <1>3. ASSUME NEW m \in want
        PROVE  /\ machineChips'[m].down <=> m \in down
               /\ machineChips'[m].on <=> (m \in DOMAIN machineChips => machineChips[m].on)
    BY <1>1
  <1>4. ASSUME NEW m \in want \cap DOMAIN machineChips
        PROVE  machineChips'[m].on = machineChips[m].on
    <2>1. machineChips[m].on \in BOOLEAN  BY DEF TypeInv
    <2>2. machineChips'[m].on \in BOOLEAN  BY <1>2
    <2> QED BY <1>3, <2>1, <2>2
  <1> QED BY <1>2, <1>3, <1>4

(* The pass over the members: a chip that is made is "on", and late if its   *)
(* name was hidden already.                                                 *)
LEMMA PassKeeps ==
  ASSUME ControlsInv, Pass, UNCHANGED <<graph, unavailable, filters>>
  PROVE  ControlsInv'
  <1> DEFINE there == DOMAIN nsChips \cup DOMAIN machineChips
             want  == graph.namespaces \cup graph.machines
  <1>1. /\ graph.namespaces \subseteq Namespaces /\ graph.machines \subseteq Machines
        /\ DOMAIN nsChips \subseteq Namespaces /\ DOMAIN machineChips \subseteq Machines
    BY DEF ControlsInv, TypeInv
  <1>2. /\ DOMAIN machineChips' = graph.machines
        /\ machineChips' \in [graph.machines -> [on: BOOLEAN, down: BOOLEAN]]
        /\ \A m \in graph.machines : machineChips'[m].down <=> m \in unavailable
        /\ \A m \in graph.machines \cap DOMAIN machineChips :
             machineChips'[m].on = machineChips[m].on
        /\ \A m \in graph.machines \ DOMAIN machineChips : machineChips'[m].on
    BY <1>1, SyncMachinesKeeps DEF ControlsInv, Pass
  <1>3. /\ nsChips' = [ns \in graph.namespaces |-> ns \in DOMAIN nsChips => nsChips[ns]]
        /\ late' = (late \cap there \cap want) \cup ((want \ there) \cap (nsHidden \cup hidden))
        /\ machines' = graph.machines /\ red' \subseteq red
        /\ nsHidden' = nsHidden /\ hidden' = hidden
    BY DEF Pass, SyncNamespaces, Late, filters
  <1>4. TypeInv'  BY <1>1, <1>2, <1>3 DEF ControlsInv, TypeInv
  <1>5. ChipsOfThePass'  BY <1>2, <1>3 DEF ChipsOfThePass
  <1>6. ASSUME NEW ns \in graph.namespaces
        PROVE  nsChips'[ns] <=> ns \notin nsHidden \/ ns \in late'
    <2>1. ns \notin Machines  BY <1>1, ControlsAssumption
    <2>2. CASE ns \in DOMAIN nsChips
      <3>1. ns \in late' <=> ns \in late  BY <1>3, <2>2
      <3>2. nsChips'[ns] <=> nsChips[ns]  BY <1>3, <2>2
      <3> QED BY <2>2, <3>1, <3>2 DEF ControlsInv, ChipsTellFilters
    <2>3. CASE ns \notin DOMAIN nsChips
      <3>1. nsChips'[ns]  BY <1>3, <2>3
      <3>2. ns \in nsHidden => ns \in late'  BY <1>1, <1>3, <2>1, <2>3
      <3> QED BY <3>1, <3>2
    <2> QED BY <2>2, <2>3
  <1>7. ASSUME NEW m \in graph.machines
        PROVE  machineChips'[m].on <=> m \notin hidden \/ m \in late'
    <2>1. m \notin Namespaces  BY <1>1, ControlsAssumption
    <2>2. CASE m \in DOMAIN machineChips
      <3>1. m \in late' <=> m \in late  BY <1>3, <2>2
      <3>2. machineChips'[m].on = machineChips[m].on  BY <1>2, <2>2
      <3> QED BY <2>2, <3>1, <3>2 DEF ControlsInv, ChipsTellFilters
    <2>3. CASE m \notin DOMAIN machineChips
      <3>1. machineChips'[m].on  BY <1>2, <2>3
      <3>2. m \in hidden => m \in late'  BY <1>1, <1>3, <2>1, <2>3
      <3> QED BY <3>1, <3>2
    <2> QED BY <2>2, <2>3
  <1>8. ChipsTellFilters'  BY <1>2, <1>3, <1>6, <1>7 DEF ChipsTellFilters
  <1>9. RedFollowsStatus'  BY <1>2, <1>3 DEF ControlsInv, RedFollowsStatus
  <1> QED BY <1>4, <1>5, <1>8, <1>9 DEF ControlsInv

(* A click on a namespace leaves every namespace chip as its filter is, and  *)
(* no machine chip touched.                                                 *)
LEMMA RefreshKeeps ==
  ASSUME ControlsInv, NEW hide, Refresh(hide)
  PROVE  ControlsInv'
  <1>1. TypeInv' /\ ChipsOfThePass'
    BY DEF ControlsInv, TypeInv, ChipsOfThePass, Refresh, feed
  <1>2. ChipsTellFilters'
    <2>1. \A ns \in DOMAIN nsChips' : nsChips'[ns] <=> ns \notin nsHidden' \/ ns \in late'
      BY DEF ControlsInv, TypeInv, Refresh
    <2>2. \A m \in DOMAIN machineChips : m \in late' <=> m \in late
      BY ControlsAssumption DEF ControlsInv, TypeInv, Refresh
    <2>3. machineChips' = machineChips /\ hidden' = hidden  BY DEF Refresh
    <2> QED BY <2>1, <2>2, <2>3 DEF ControlsInv, ChipsTellFilters
  <1>3. RedFollowsStatus'  BY DEF ControlsInv, RedFollowsStatus, Refresh, feed
  <1> QED BY <1>1, <1>2, <1>3 DEF ControlsInv

LEMMA ClickMachineKeeps == ControlsInv /\ ClickMachine => ControlsInv'
  <1> SUFFICES ASSUME ControlsInv, ClickMachine  PROVE ControlsInv'
    OBVIOUS
  <1>1. PICK m \in DOMAIN machineChips :
          /\ hidden' = Toggle(hidden, m)
          /\ machineChips' = [machineChips EXCEPT ![m].on = m \notin hidden']
          /\ late' = late \ {m}
    BY DEF ClickMachine
  <1>2. UNCHANGED <<feed, groupBy, nsChips, nsHidden, machines>>  BY DEF ClickMachine
  <1>3. /\ DOMAIN machineChips' = DOMAIN machineChips
        /\ machineChips' \in [DOMAIN machineChips -> [on: BOOLEAN, down: BOOLEAN]]
        /\ machineChips'[m].on <=> m \notin hidden'
        /\ \A n \in DOMAIN machineChips : machineChips'[n].down = machineChips[n].down
        /\ \A n \in DOMAIN machineChips \ {m} : machineChips'[n] = machineChips[n]
    BY <1>1 DEF ControlsInv, TypeInv
  <1>4. \A n : n # m => (n \in hidden' <=> n \in hidden) /\ (n \in late' <=> n \in late)
    BY <1>1 DEF Toggle
  <1>5. m \notin late' /\ m \in Machines /\ m \notin Namespaces
    BY <1>1, ControlsAssumption DEF ControlsInv, TypeInv
  <1>6. TypeInv' /\ ChipsOfThePass'
    BY <1>2, <1>3 DEF ControlsInv, TypeInv, ChipsOfThePass, feed
  <1>7. ChipsTellFilters'
    <2>1. \A ns \in DOMAIN nsChips : ns # m  BY <1>5 DEF ControlsInv, TypeInv
    <2>2. \A ns \in DOMAIN nsChips' : nsChips'[ns] <=> ns \notin nsHidden' \/ ns \in late'
      BY <1>2, <1>4, <2>1 DEF ControlsInv, ChipsTellFilters
    <2>3. \A n \in DOMAIN machineChips' :
            machineChips'[n].on <=> n \notin hidden' \/ n \in late'
      BY <1>3, <1>4, <1>5 DEF ControlsInv, ChipsTellFilters
    <2> QED BY <2>2, <2>3 DEF ChipsTellFilters
  <1>8. RedFollowsStatus'  BY <1>2, <1>3 DEF ControlsInv, RedFollowsStatus, feed
  <1> QED BY <1>6, <1>7, <1>8 DEF ControlsInv

LEMMA TickStatusKeeps == ControlsInv /\ TickStatus => ControlsInv'
  <1> SUFFICES ASSUME ControlsInv, TickStatus  PROVE ControlsInv'
    OBVIOUS
  <1>1. PICK U \in SUBSET Machines :
          /\ unavailable' = U
          /\ red' = lights \cap U
          /\ IF U = {} THEN UNCHANGED <<machineChips, late>>
             ELSE SyncMachines(machines, U) /\ UNCHANGED late
    BY DEF TickStatus
  <1>2. UNCHANGED <<graph, changed, lights, groupBy, nsChips, nsHidden, hidden, machines, late>>
    BY <1>1 DEF TickStatus, filters
  <1>3. CASE U = {}
    BY <1>1, <1>2, <1>3
       DEF ControlsInv, TypeInv, ChipsOfThePass, ChipsTellFilters, RedFollowsStatus
  <1>4. CASE U # {}
    <2>1. /\ DOMAIN machineChips' = DOMAIN machineChips
          /\ machineChips' \in [DOMAIN machineChips -> [on: BOOLEAN, down: BOOLEAN]]
          /\ \A m \in DOMAIN machineChips : machineChips'[m].down <=> m \in U
          /\ \A m \in DOMAIN machineChips : machineChips'[m].on = machineChips[m].on
      <3>1. machines = DOMAIN machineChips /\ machines \in SUBSET Machines /\ TypeInv
        BY DEF ControlsInv, TypeInv, ChipsOfThePass
      <3> QED BY <1>1, <1>4, <3>1, SyncMachinesKeeps
    <2>2. TypeInv' /\ ChipsOfThePass'
      BY <1>2, <2>1 DEF ControlsInv, TypeInv, ChipsOfThePass
    <2>3. ChipsTellFilters'  BY <1>2, <2>1 DEF ControlsInv, ChipsTellFilters
    <2>4. RedFollowsStatus'  BY <1>1, <2>1 DEF RedFollowsStatus
    <2> QED BY <2>2, <2>3, <2>4 DEF ControlsInv
  <1> QED BY <1>3, <1>4

LEMMA ControlsInvNext == ControlsInv /\ [Next]_vars => ControlsInv'
  <1> SUFFICES ASSUME ControlsInv, [Next]_vars  PROVE ControlsInv'
    OBVIOUS
  <1> USE DEF TypeInv, ChipsOfThePass, ChipsTellFilters, RedFollowsStatus
  <1>1. CASE MembersChange
    <2>1. graph' \in [namespaces: SUBSET Namespaces, machines: SUBSET Machines,
                      anchors: SUBSET Machines]
      BY <1>1 DEF MembersChange
    <2> QED BY <1>1, <2>1 DEF MembersChange, ControlsInv, chips, filters
  <1>2. CASE MachineChanges
    <2>1. graph' \in [namespaces: SUBSET Namespaces, machines: SUBSET Machines,
                      anchors: SUBSET Machines]
      BY <1>2 DEF MachineChanges, ControlsInv
    <2> QED BY <1>2, <2>1 DEF MachineChanges, ControlsInv, chips, filters
  <1>3. CASE TickStatus  BY <1>3, TickStatusKeeps
  <1>4. CASE ApplyChanges
    <2>1. CASE Pass  BY <1>4, <2>1, PassKeeps DEF ApplyChanges
    <2>2. CASE UNCHANGED <<chips, machines, lights, red>>
      BY <1>4, <2>2 DEF ApplyChanges, ControlsInv, chips, filters
    <2> QED BY <1>4, <2>1, <2>2 DEF ApplyChanges
  <1>5. CASE GroupBy  BY <1>5, PassKeeps DEF GroupBy
  <1>6. CASE ClickNamespace \/ Solo
    <2>1. \E hide : Refresh(hide)  BY <1>6 DEF ClickNamespace, Solo
    <2> QED BY <2>1, RefreshKeeps
  <1>7. CASE ClickMachine  BY <1>7, ClickMachineKeeps
  <1>8. CASE UNCHANGED vars
    BY <1>8 DEF vars, feed, chips, filters, ControlsInv
  <1> QED BY <1>1, <1>2, <1>3, <1>4, <1>5, <1>6, <1>7, <1>8 DEF Next

LEMMA ControlsInvAlways == Spec => []ControlsInv
  <1> QED BY ControlsInvInit, ControlsInvNext, PTL DEF Spec

(* A chip tells whether its name is hidden, unless it was made when the name *)
(* was hidden already, for any namespaces, machines and clicks.             *)
THEOREM ChipsAlwaysTell == Spec => []ChipsTellFilters
  <1>1. ControlsInv => ChipsTellFilters  BY DEF ControlsInv
  <1> QED BY <1>1, ControlsInvAlways, PTL

(* The dots are on the chips of the machines that cannot be reached as long  *)
(* as there are any, and no light is red that should not be.                *)
THEOREM RedAlwaysFollows == Spec => []RedFollowsStatus
  <1>1. ControlsInv => RedFollowsStatus  BY DEF ControlsInv
  <1> QED BY <1>1, ControlsInvAlways, PTL

=============================================================================
