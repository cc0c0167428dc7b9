--------------------------- MODULE TransportProofs ---------------------------
(***************************************************************************)
(* Proofs about Transport for a buffer of any size, any number of ticks    *)
(* and any number of breaks: pausing loses nothing unless a tick           *)
(* overflowed, nothing is counted twice but across a reconnect, and the    *)
(* demo lacks exactly what its buffer dropped.                             *)
(*                                                                         *)
(* The wire of an open connection ends with the last tick made and has no  *)
(* gap, so its length says which changes the connection has brought        *)
(* (Received); the buffer holds some of those, each once and in order; and *)
(* what the page has applied since the last snapshot is the rest.          *)
(***************************************************************************)
EXTENDS Transport, FiniteSetTheorems, TLAPS

Message == [t : {"tick", "snapshot"}, at : Nat]

TypeInv ==
  /\ made \in 0..MaxTicks
  /\ paused \in BOOLEAN /\ overflowed \in BOOLEAN /\ crossed \in BOOLEAN
  /\ view \in [Change -> Nat]
  /\ wire \in Seq(Message) /\ buffer \in Seq(Message)

(* A page is a demo for good. *)
PhaseInv ==
  /\ staticDemo \in BOOLEAN
  /\ IF staticDemo THEN phase \in {"connecting", "running", "failed"}
                   ELSE phase \in {"connecting", "open", "closing", "off"}

(* A sequence s has a message about change i; it consists of ticks, of      *)
(* changes up to n and in their order.                                      *)
Has(s, i) == \E k \in DOMAIN s : s[k].at = i

Rising(s, n) ==
  /\ \A k \in DOMAIN s : s[k].t = "tick" /\ s[k].at \in 1..n
  /\ \A k, l \in DOMAIN s : k < l => s[k].at < s[l].at

(* The last change that the open connection has brought, or will have       *)
(* brought once its snapshot arrives.                                       *)
Received == made - Len(wire) + (IF Greeting THEN 1 ELSE 0)

(* The wire carries every change from there to the last one made. *)
WireInv ==
  /\ phase \notin {"open", "closing"} => wire = <<>>
  /\ phase = "open" =>
       /\ Received \in 0..made
       /\ \A k \in DOMAIN wire : /\ wire[k].at = made - Len(wire) + k
                                 /\ k > 1 => wire[k].t = "tick"

BufferInv ==
  /\ Rising(buffer, IF phase = "open" THEN Received ELSE made)
  /\ phase = "closing" => buffer = <<>>
  /\ ~paused => buffer = <<>> /\ ~overflowed

(* How often the page counts change i once it has replayed its buffer. *)
Counted(i) == view[i] + (IF Has(buffer, i) THEN 1 ELSE 0)

(* Once the greeting is in, the page has every change up to Received, or    *)
(* has noted that one overflowed; none more often than the connections it   *)
(* was paused across explain.                                               *)
ViewInv ==
  phase = "open" /\ ~Greeting =>
    \A i \in Change :
      /\ i > Received => view[i] = 0
      /\ i <= Received => /\ Counted(i) <= 2
                          /\ ~crossed => Counted(i) <= 1
                          /\ ~overflowed => Counted(i) >= 1

(* The demo's buffer was full from the first tick that it dropped on. *)
DemoInv ==
  staticDemo =>
    /\ ~overflowed
    /\ dropped \subseteq 1..made
    /\ \A i \in Change : Counted(i) = IF i \in 1..made \ dropped THEN 1 ELSE 0
    /\ \A k \in DOMAIN buffer, i \in dropped : buffer[k].at < i \/ i < buffer[1].at
    /\ Len(buffer) < MaxBuffer => \A k \in DOMAIN buffer, i \in dropped : i < buffer[k].at

TransportInv == TypeInv /\ PhaseInv /\ WireInv /\ BufferInv /\ ViewInv /\ DemoInv

-----------------------------------------------------------------------------
(* Sequences of messages.                                                   *)

LEMMA MessageTypes ==
  ASSUME NEW n \in Nat
  PROVE  /\ TickMessage(n) \in Message /\ TickMessage(n).t = "tick" /\ TickMessage(n).at = n
         /\ Snapshot(n) \in Message /\ Snapshot(n).t = "snapshot" /\ Snapshot(n).at = n
  BY DEF TickMessage, Snapshot, Message

(* Where at most one message holds a change, counting is asking whether one *)
(* does.                                                                    *)
LEMMA TimesOnce ==
  ASSUME NEW s, NEW i,
         \A k, l \in DOMAIN s : Holds(s[k], i) /\ Holds(s[l], i) => k = l
  PROVE  Times(s, i) = IF \E k \in DOMAIN s : Holds(s[k], i) THEN 1 ELSE 0
  <1> DEFINE K == {k \in DOMAIN s : Holds(s[k], i)}
  <1>1. CASE \E k \in DOMAIN s : Holds(s[k], i)
    <2>1. PICK k \in DOMAIN s : Holds(s[k], i)  BY <1>1
    <2>2. K = {k}  BY <2>1
    <2>3. Cardinality(K) = 1  BY <2>2, FS_Singleton
    <2> QED BY <1>1, <2>3 DEF Times
  <1>2. CASE ~ \E k \in DOMAIN s : Holds(s[k], i)
    <2>1. K = {}  BY <1>2
    <2>2. Cardinality(K) = 0  BY <2>1, FS_EmptySet
    <2> QED BY <1>2, <2>2 DEF Times
  <1> QED BY <1>1, <1>2

LEMMA RisingTimes ==
  ASSUME NEW s \in Seq(Message), NEW n \in Nat, Rising(s, n), NEW i
  PROVE  Times(s, i) = IF Has(s, i) THEN 1 ELSE 0
  <1>1. \A k \in DOMAIN s : k \in Nat /\ s[k].at \in Nat  BY DEF Rising
  <1>2. \A k \in DOMAIN s : Holds(s[k], i) <=> s[k].at = i  BY DEF Rising, Holds
  <1>3. \A k, l \in DOMAIN s : s[k].at = s[l].at => k = l  BY <1>1 DEF Rising
  <1>4. \A k, l \in DOMAIN s : Holds(s[k], i) /\ Holds(s[l], i) => k = l  BY <1>2, <1>3
  <1>5. Times(s, i) = IF \E k \in DOMAIN s : Holds(s[k], i) THEN 1 ELSE 0  BY <1>4, TimesOnce
  <1> QED BY <1>2, <1>5 DEF Has

LEMMA RisingBounds ==
  ASSUME NEW s, NEW n \in Nat, Rising(s, n), NEW i, Has(s, i)
  PROVE  i \in 1..n
  BY DEF Rising, Has

LEMMA RisingMore ==
  ASSUME NEW s, NEW n \in Nat, Rising(s, n), NEW m \in Nat, n <= m
  PROVE  Rising(s, m)
  BY DEF Rising

LEMMA RisingEmpty ==
  ASSUME NEW s, s = <<>>, NEW n
  PROVE  Rising(s, n) /\ \A i : ~Has(s, i)
  <1>1. DOMAIN s = {}  OBVIOUS
  <1> QED BY <1>1 DEF Rising, Has

(* A later tick at the end keeps the order. *)
LEMMA RisingAppend ==
  ASSUME NEW s \in Seq(Message), NEW n \in Nat, Rising(s, n), NEW m \in Nat, n < m,
         NEW msg \in Message, msg.t = "tick", msg.at = m
  PROVE  /\ Append(s, msg) \in Seq(Message)
         /\ Rising(Append(s, msg), m)
         /\ \A i : Has(Append(s, msg), i) <=> Has(s, i) \/ i = m
  <1> DEFINE u == Append(s, msg)
  <1>1. /\ u \in Seq(Message) /\ Len(s) \in Nat
        /\ DOMAIN s = 1..Len(s) /\ DOMAIN u = 1..(Len(s) + 1)
        /\ \A k \in 1..Len(s) : u[k] = s[k]
        /\ u[Len(s) + 1] = msg
    OBVIOUS
  <1> HIDE DEF u
  <1>2. \A k \in DOMAIN u : k \in DOMAIN s \/ k = Len(s) + 1  BY <1>1
  <1>3. \A k \in DOMAIN s : s[k].at \in 1..n  BY DEF Rising
  <1>4. \A k \in DOMAIN u : u[k].t = "tick"  BY <1>1, <1>2 DEF Rising
  <1>5. \A k \in DOMAIN u : u[k].at \in 1..m  BY <1>1, <1>2, <1>3
  <1>6. \A k, l \in DOMAIN u : k < l => u[k].at < u[l].at
    <2> SUFFICES ASSUME NEW k \in DOMAIN u, NEW l \in DOMAIN u, k < l
                 PROVE  u[k].at < u[l].at
      OBVIOUS
    <2>1. k \in DOMAIN s /\ u[k] = s[k]  BY <1>1
    <2>2. CASE l \in DOMAIN s
      <3>1. u[l] = s[l]  BY <1>1, <2>2
      <3> QED BY <2>1, <2>2, <3>1 DEF Rising
    <2>3. CASE l = Len(s) + 1  BY <1>1, <1>3, <2>1, <2>3
    <2> QED BY <1>2, <2>2, <2>3
  <1>7. \A i : Has(u, i) <=> Has(s, i) \/ i = m  BY <1>1, <1>2 DEF Has
  <1> QED BY <1>1, <1>4, <1>5, <1>6, <1>7 DEF Rising, u

-----------------------------------------------------------------------------
(* The server and the network.                                              *)

LEMMA TransportInvInit == Init => TransportInv
  <1> SUFFICES ASSUME Init  PROVE TransportInv
    OBVIOUS
  <1>1. MaxTicks \in Nat  BY TransportAssumption
  <1>2. TypeInv
    <2>1. wire \in Seq(Message) /\ buffer \in Seq(Message)  BY DEF Init
    <2>2. view \in [Change -> Nat]  BY DEF Init
    <2>3. made \in 0..MaxTicks  BY <1>1 DEF Init
    <2>4. paused \in BOOLEAN /\ overflowed \in BOOLEAN /\ crossed \in BOOLEAN  BY DEF Init
    <2> QED BY <2>1, <2>2, <2>3, <2>4 DEF TypeInv
  <1>3. PhaseInv  BY DEF Init, PhaseInv
  <1>4. WireInv  BY DEF Init, WireInv
  <1>5. BufferInv  BY RisingEmpty DEF Init, BufferInv
  <1>6. ViewInv  BY DEF Init, ViewInv
  <1>7. DemoInv
    <2>1. \A i \in Change : Counted(i) = 0  BY RisingEmpty DEF Init, Counted
    <2>2. made = 0 /\ dropped = {} /\ ~overflowed  BY DEF Init
    <2> QED BY <2>1, <2>2 DEF DemoInv
  <1> QED BY <1>2, <1>3, <1>4, <1>5, <1>6, <1>7 DEF TransportInv

(* One more tick at the end of the wire leaves what it begins with. *)
LEMMA ServerTickInv == TransportInv /\ ServerTick => TransportInv'
  <1> SUFFICES ASSUME TransportInv, ServerTick  PROVE TransportInv'
    OBVIOUS
  <1> USE DEF TransportInv
  <1>1. /\ ~staticDemo /\ made < MaxTicks /\ made' = made + 1
        /\ wire' = IF phase = "open" THEN Append(wire, TickMessage(made + 1)) ELSE wire
        /\ UNCHANGED <<phase, paused, buffer, overflowed, view, crossed, staticDemo, dropped>>
    BY DEF ServerTick, demoVars
  <1>2. made \in Nat /\ made + 1 \in Nat /\ MaxTicks \in Nat
    BY TransportAssumption DEF TypeInv
  <1> DEFINE tick == TickMessage(made + 1)
  <1>3. tick \in Message /\ tick.t = "tick" /\ tick.at = made + 1  BY <1>2, MessageTypes
  <1> HIDE DEF tick
  <1>4. wire \in Seq(Message) /\ Append(wire, tick) \in Seq(Message)  BY <1>3 DEF TypeInv
  <1>5. TypeInv'  BY <1>1, <1>2, <1>4 DEF TypeInv, tick
  <1>6. PhaseInv'  BY <1>1 DEF PhaseInv
  <1>7. DemoInv'  BY <1>1 DEF DemoInv
  <1>8. CASE phase = "open"
    <2>1. wire' = Append(wire, tick)  BY <1>1, <1>8 DEF tick
    <2>2. /\ Len(wire) \in Nat /\ Len(wire') = Len(wire) + 1
          /\ DOMAIN wire = 1..Len(wire) /\ DOMAIN wire' = 1..(Len(wire) + 1)
          /\ \A k \in 1..Len(wire) : wire'[k] = wire[k]
          /\ wire'[Len(wire) + 1] = tick
      BY <1>3, <1>4, <2>1
    <2>2a. made' - Len(wire') = made - Len(wire)
      <3>1. made' = made + 1 /\ Len(wire') = Len(wire) + 1 /\ Len(wire) \in Nat  BY <1>1, <2>2
      <3> QED BY <1>2, <3>1
    <2>3. Greeting' <=> Greeting
      <3>1. wire' # <<>> /\ Head(wire') = wire'[1]  BY <1>3, <1>4, <2>1
      <3>2. CASE wire = <<>>
        <4>1. wire'[1] = tick  BY <2>2, <3>2
        <4> QED BY <1>3, <3>1, <3>2, <4>1 DEF Greeting
      <3>3. CASE wire # <<>>
        <4>1. wire'[1] = wire[1] /\ Head(wire) = wire[1]  BY <1>4, <2>2, <3>3
        <4> QED BY <3>1, <3>3, <4>1 DEF Greeting
      <3> QED BY <3>2, <3>3
    <2>4. Received' = Received  BY <2>3, <2>2a DEF Received
    <2>5. Received \in 0..made  BY <1>8 DEF WireInv
    <2>6. WireInv'
      <3>1. \A k \in DOMAIN wire' : /\ wire'[k].at = made' - Len(wire') + k
                                    /\ k > 1 => wire'[k].t = "tick"
        <4> SUFFICES ASSUME NEW k \in DOMAIN wire'
                     PROVE  /\ wire'[k].at = made' - Len(wire') + k
                            /\ k > 1 => wire'[k].t = "tick"
          OBVIOUS
        <4>1. CASE k \in 1..Len(wire)
          <5>1. wire[k].at = made - Len(wire) + k /\ (k > 1 => wire[k].t = "tick")
            BY <1>8, <2>2, <4>1 DEF WireInv
          <5>2. wire'[k] = wire[k]  BY <2>2, <4>1
          <5> QED BY <2>2a, <5>1, <5>2
        <4>2. CASE k = Len(wire) + 1
          <5>1. wire'[k] = tick  BY <2>2, <4>2
          <5>2. made' - Len(wire') + k = made + 1
            <6>1. made' = made + 1 /\ Len(wire') = Len(wire) + 1 /\ Len(wire) \in Nat
              BY <1>1, <2>2
            <6> QED BY <1>2, <4>2, <6>1
          <5> QED BY <1>3, <5>1, <5>2
        <4> QED BY <2>2, <4>1, <4>2
      <3>2. Received' \in 0..made'  BY <1>1, <1>2, <2>4, <2>5
      <3> QED BY <1>1, <1>8, <3>1, <3>2 DEF WireInv
    <2>7. BufferInv'  BY <1>1, <1>8, <2>4 DEF BufferInv
    <2>8. ViewInv'  BY <1>1, <1>8, <2>3, <2>4 DEF ViewInv, Counted
    <2> QED BY <1>5, <1>6, <1>7, <2>6, <2>7, <2>8
  <1>9. CASE phase # "open"
    <2>1. wire' = wire  BY <1>1, <1>9
    <2>2. WireInv'  BY <1>1, <1>9, <2>1 DEF WireInv
    <2>3. Rising(buffer, made + 1)  BY <1>2, <1>9, RisingMore DEF BufferInv
    <2>4. BufferInv'  BY <1>1, <1>9, <2>3 DEF BufferInv
    <2>5. ViewInv'  BY <1>1, <1>9 DEF ViewInv
    <2> QED BY <1>5, <1>6, <1>7, <2>2, <2>4, <2>5
  <1> QED BY <1>8, <1>9

(* The greeting of a new connection stands for all changes so far. *)
LEMMA OpenInv == TransportInv /\ Open => TransportInv'
  <1> SUFFICES ASSUME TransportInv, Open  PROVE TransportInv'
    OBVIOUS
  <1> USE DEF TransportInv
  <1>1. /\ ~staticDemo /\ phase = "connecting" /\ phase' = "open"
        /\ wire' = <<Snapshot(made)>>
        /\ UNCHANGED <<made, paused, buffer, overflowed, view, crossed, staticDemo, dropped>>
    BY DEF Open, demoVars
  <1>2. made \in Nat  BY TransportAssumption DEF TypeInv
  <1> DEFINE greeting == Snapshot(made)
  <1>3. greeting \in Message /\ greeting.t = "snapshot" /\ greeting.at = made
    BY <1>2, MessageTypes
  <1> HIDE DEF greeting
  <1>4. wire' = <<greeting>>  BY <1>1 DEF greeting
  <1>5. /\ wire' \in Seq(Message) /\ Len(wire') = 1 /\ DOMAIN wire' = {1}
        /\ wire'[1] = greeting /\ wire' # <<>> /\ Head(wire') = greeting
    BY <1>3, <1>4
  <1>6. Greeting'  BY <1>3, <1>5 DEF Greeting
  <1>7. Received' = made  BY <1>1, <1>2, <1>5, <1>6 DEF Received
  <1>8. TypeInv'  BY <1>1, <1>5 DEF TypeInv
  <1>9. PhaseInv'  BY <1>1 DEF PhaseInv
  <1>10. WireInv'  BY <1>1, <1>2, <1>3, <1>5, <1>7 DEF WireInv
  <1>11. BufferInv'  BY <1>1, <1>7 DEF BufferInv
  <1>12. ViewInv'  BY <1>6 DEF ViewInv
  <1>13. DemoInv'  BY <1>1 DEF DemoInv
  <1> QED BY <1>8, <1>9, <1>10, <1>11, <1>12, <1>13

(* A connection that ends takes what is on its wire with it. *)
LEMMA LostInv == TransportInv /\ ~staticDemo /\ Lost => TransportInv'
  <1> SUFFICES ASSUME TransportInv, ~staticDemo, Lost  PROVE TransportInv'
    OBVIOUS
  <1> USE DEF TransportInv
  <1>1. /\ phase' = "off" /\ wire' = <<>>
        /\ UNCHANGED <<made, paused, buffer, overflowed, view, crossed, staticDemo, dropped>>
    BY DEF Lost, demoVars
  <1>2. made \in Nat  BY TransportAssumption DEF TypeInv
  <1>3. TypeInv'  BY <1>1 DEF TypeInv
  <1>4. PhaseInv'  BY <1>1 DEF PhaseInv
  <1>5. WireInv'  BY <1>1 DEF WireInv
  <1>6. Rising(buffer, made)
    <2>1. CASE phase = "open"
      <3>1. Received \in Nat /\ Received <= made /\ Rising(buffer, Received)
        BY <1>2, <2>1 DEF WireInv, BufferInv
      <3> QED BY <1>2, <3>1, RisingMore
    <2>2. CASE phase # "open"  BY <2>2 DEF BufferInv
    <2> QED BY <2>1, <2>2
  <1>7. BufferInv'  BY <1>1, <1>6 DEF BufferInv
  <1>8. ViewInv'  BY <1>1 DEF ViewInv
  <1>9. DemoInv'  BY <1>1 DEF DemoInv
  <1> QED BY <1>3, <1>4, <1>5, <1>7, <1>8, <1>9

-----------------------------------------------------------------------------
(* The page.                                                                *)

(* Taking the first message off the wire of an open connection. *)
LEMMA HeadTaken ==
  ASSUME TransportInv, phase = "open", wire # <<>>, Delivered
  PROVE  /\ Head(wire) \in Message /\ wire' \in Seq(Message)
         /\ Head(wire).at \in 0..made
         /\ Greeting <=> Head(wire).t = "snapshot"
         /\ Head(wire).at = IF Greeting THEN Received ELSE Received + 1
         /\ ~Greeting' /\ Received' = Head(wire).at
         /\ WireInv'
  <1> USE DEF TransportInv
  <1>1. wire' = Tail(wire) /\ made' = made /\ phase' = "open"  BY DEF Delivered
  <1>2. made \in Nat /\ wire \in Seq(Message)  BY TransportAssumption DEF TypeInv
  <1>3. /\ Len(wire) \in Nat /\ Len(wire) >= 1 /\ DOMAIN wire = 1..Len(wire)
        /\ Head(wire) = wire[1] /\ Head(wire) \in Message
        /\ wire' \in Seq(Message) /\ Len(wire') = Len(wire) - 1
        /\ DOMAIN wire' = 1..(Len(wire) - 1)
        /\ \A k \in 1..(Len(wire) - 1) : wire'[k] = wire[k + 1]
    BY <1>1, <1>2
  <1>4. /\ Received \in 0..made
        /\ \A k \in DOMAIN wire : /\ wire[k].at = made - Len(wire) + k
                                  /\ k > 1 => wire[k].t = "tick"
    BY DEF WireInv
  <1>5. Head(wire).at = made - Len(wire) + 1  BY <1>3, <1>4
  <1>6. Greeting <=> Head(wire).t = "snapshot"  BY DEF Greeting
  <1>7. Head(wire).at = IF Greeting THEN Received ELSE Received + 1
    BY <1>2, <1>3, <1>5 DEF Received
  <1>8. \A k \in DOMAIN wire' : wire'[k].at = made - Len(wire) + k + 1 /\ wire'[k].t = "tick"
    <2> SUFFICES ASSUME NEW k \in DOMAIN wire'
                 PROVE  wire'[k].at = made - Len(wire) + k + 1 /\ wire'[k].t = "tick"
      OBVIOUS
    <2>1. k \in Nat /\ k >= 1 /\ k + 1 \in DOMAIN wire /\ wire'[k] = wire[k + 1]  BY <1>3
    <2>2. wire[k + 1].at = made - Len(wire) + (k + 1)  BY <1>4, <2>1
    <2>3. wire[k + 1].t = "tick"  BY <1>4, <2>1
    <2> QED BY <1>2, <1>3, <2>1, <2>2, <2>3
  <1>9. ~Greeting'
    <2>1. CASE wire' = <<>>  BY <2>1 DEF Greeting
    <2>2. CASE wire' # <<>>
      <3>1. 1 \in DOMAIN wire' /\ Head(wire') = wire'[1]  BY <1>3, <2>2
      <3>2. Head(wire').t = "tick"  BY <1>8, <3>1
      <3> QED BY <3>2 DEF Greeting
    <2> QED BY <2>1, <2>2
  <1>10. Received' = made - Len(wire) + 1
    <2>1. Received' = made' - Len(wire')  BY <1>1, <1>2, <1>3, <1>9 DEF Received
    <2> QED BY <1>1, <1>2, <1>3, <2>1
  <1>11. Received' \in 0..made
    <2>1. CASE Greeting  BY <1>4, <1>5, <1>7, <1>10, <2>1
    <2>2. CASE ~Greeting
      <3>1. Received \in Nat /\ Received' = Received + 1  BY <1>4, <1>5, <1>7, <1>10, <2>2
      <3> QED BY <1>2, <1>3, <1>10, <3>1
    <2> QED BY <2>1, <2>2
  <1>12. WireInv'
    <2>1. \A k \in DOMAIN wire' : wire'[k].at = made' - Len(wire') + k
      <3> SUFFICES ASSUME NEW k \in DOMAIN wire'  PROVE wire'[k].at = made' - Len(wire') + k
        OBVIOUS
      <3>1. k \in Nat /\ wire'[k].at = made - Len(wire) + k + 1  BY <1>3, <1>8
      <3> QED BY <1>1, <1>2, <1>3, <3>1
    <2> QED BY <1>1, <1>8, <1>11, <2>1 DEF WireInv
  <1> QED BY <1>3, <1>5, <1>6, <1>7, <1>9, <1>10, <1>11, <1>12

(* A message that is received is either kept or applied: both count it. *)
LEMMA ReceiveInv == TransportInv /\ Receive => TransportInv'
  <1> SUFFICES ASSUME TransportInv, Receive  PROVE TransportInv'
    OBVIOUS
  <1> USE DEF TransportInv
  <1> DEFINE msg == Head(wire)
  <1>1. /\ phase = "open" /\ wire # <<>> /\ Delivered
        /\ UNCHANGED <<made, phase, paused, staticDemo, dropped>>
    BY DEF Receive, Delivered, demoVars
  <1>2. /\ msg \in Message /\ wire' \in Seq(Message)
        /\ msg.at \in 0..made
        /\ Greeting <=> msg.t = "snapshot"
        /\ msg.at = IF Greeting THEN Received ELSE Received + 1
        /\ ~Greeting' /\ Received' = msg.at
        /\ WireInv'
    BY <1>1, HeadTaken
  <1> HIDE DEF msg
  <1>3. /\ made \in Nat /\ Received \in Nat /\ Change \subseteq Nat
        /\ made' = made /\ Received' \in Nat /\ Received <= Received'
    BY <1>1, <1>2, TransportAssumption DEF TypeInv, WireInv, Change
  <1>4. ~staticDemo  BY <1>1 DEF PhaseInv
  <1>5. PhaseInv' /\ DemoInv'  BY <1>1, <1>4 DEF PhaseInv, DemoInv
  <1>6. /\ buffer \in Seq(Message) /\ Rising(buffer, Received)
        /\ ~paused => buffer = <<>> /\ ~overflowed
        /\ view \in [Change -> Nat] /\ paused \in BOOLEAN
    BY <1>1 DEF TypeInv, BufferInv
  <1>7. \A i : Has(buffer, i) => i \in 1..Received  BY <1>3, <1>6, RisingBounds
  <1>8. CASE Keep
    <2>1. /\ paused /\ msg.t = "tick" /\ view' = view /\ crossed' = crossed
          /\ \/ overflowed' = TRUE /\ buffer' = buffer
             \/ overflowed' = overflowed /\ buffer' = Append(buffer, msg)
      BY <1>8 DEF Keep, msg
    <2>2. ~Greeting /\ msg.at = Received + 1 /\ Received' = Received + 1  BY <1>2, <2>1
    <2>3. \A i \in Change :
            /\ i > Received => view[i] = 0
            /\ i <= Received => /\ Counted(i) <= 2
                                /\ ~crossed => Counted(i) <= 1
                                /\ ~overflowed => Counted(i) >= 1
      BY <1>1, <2>2 DEF ViewInv
    <2>4. CASE overflowed' = TRUE /\ buffer' = buffer
      <3>1. TypeInv'  BY <1>1, <1>2, <2>1, <2>4 DEF TypeInv
      <3>2. BufferInv'
        <4>1. Rising(buffer, Received')  BY <1>3, <1>6, RisingMore
        <4> QED BY <1>1, <2>1, <2>4, <4>1 DEF BufferInv
      <3>3. ASSUME NEW i \in Change
            PROVE  /\ i > Received' => view'[i] = 0
                   /\ i <= Received' => Counted(i)' <= 2 /\ (~crossed' => Counted(i)' <= 1)
        <4>1. i \in Nat /\ view[i] \in Nat  BY <1>3, <1>6
        <4>2. Counted(i)' = Counted(i)  BY <2>1, <2>4 DEF Counted
        <4>3. i > Received => view[i] = 0 /\ ~Has(buffer, i)  BY <1>3, <1>7, <2>3, <4>1
        <4>4. i > Received => Counted(i) = 0  BY <4>3 DEF Counted
        <4> QED BY <1>3, <2>1, <2>2, <2>3, <4>1, <4>2, <4>3, <4>4
      <3>4. ViewInv'  BY <2>4, <3>3 DEF ViewInv
      <3> QED BY <1>2, <1>5, <3>1, <3>2, <3>4
    <2>5. CASE overflowed' = overflowed /\ buffer' = Append(buffer, msg)
      <3>1. /\ buffer' \in Seq(Message) /\ Rising(buffer', Received')
            /\ \A i : Has(buffer', i) <=> Has(buffer, i) \/ i = Received'
        BY <1>2, <1>3, <1>6, <2>1, <2>2, <2>5, RisingAppend
      <3>2. TypeInv'  BY <1>1, <1>2, <2>1, <2>5, <3>1 DEF TypeInv
      <3>3. BufferInv'  BY <1>1, <2>1, <3>1 DEF BufferInv
      <3>4. ASSUME NEW i \in Change
            PROVE  /\ i > Received' => view'[i] = 0
                   /\ i <= Received' => /\ Counted(i)' <= 2
                                        /\ ~crossed' => Counted(i)' <= 1
                                        /\ ~overflowed' => Counted(i)' >= 1
        <4>1. i \in Nat /\ view[i] \in Nat  BY <1>3, <1>6
        <4>2. CASE i = Received'
          <5>1. view[i] = 0  BY <1>3, <2>2, <2>3, <4>1, <4>2
          <5>2. Counted(i)' = 1  BY <2>1, <3>1, <4>2, <5>1 DEF Counted
          <5> QED BY <1>3, <4>1, <4>2, <5>2
        <4>3. CASE i # Received'
          <5>1. Counted(i)' = Counted(i)  BY <2>1, <3>1, <4>3 DEF Counted
          <5> QED BY <1>3, <2>1, <2>2, <2>3, <2>5, <4>1, <4>3, <5>1
        <4> QED BY <4>2, <4>3
      <3>5. ViewInv'  BY <3>4 DEF ViewInv
      <3> QED BY <1>2, <1>5, <3>2, <3>3, <3>5
    <2> QED BY <2>1, <2>4, <2>5
  <1>9. CASE ApplyNow
    <2>1. /\ ~(paused /\ msg.t = "tick")
          /\ view' = [i \in Change |-> (IF msg.t = "tick" THEN view[i] ELSE 0)
                                         + (IF Holds(msg, i) THEN 1 ELSE 0)]
          /\ crossed' = IF msg.t = "tick" THEN crossed ELSE buffer # <<>>
          /\ buffer' = buffer /\ overflowed' = overflowed
      BY <1>9 DEF ApplyNow, msg
    <2>2. TypeInv'
      <3>1. view' \in [Change -> Nat]  BY <1>6, <2>1
      <3>2. crossed' \in BOOLEAN  BY <2>1 DEF TypeInv
      <3> QED BY <1>1, <1>2, <2>1, <3>1, <3>2 DEF TypeInv
    <2>3. BufferInv'
      <3>1. Rising(buffer, Received')  BY <1>3, <1>6, RisingMore
      <3> QED BY <1>1, <1>6, <2>1, <3>1 DEF BufferInv
    <2>4. \A i \in Change : view'[i] \in Nat  BY <2>2 DEF TypeInv
    <2>5. CASE msg.t = "tick"
      <3>1. ~Greeting /\ Received' = Received + 1 /\ msg.at = Received'  BY <1>2, <2>5
      <3>2. ~paused /\ buffer = <<>> /\ ~overflowed  BY <1>6, <2>1, <2>5
      <3>3. \A i : ~Has(buffer, i)  BY <3>2, RisingEmpty
      <3>4. \A i \in Change : view'[i] = view[i] + (IF i = Received' THEN 1 ELSE 0)
        BY <2>1, <2>5, <3>1 DEF Holds
      <3>5. \A i \in Change : view[i] \in Nat /\ Counted(i) = view[i] /\ Counted(i)' = view'[i]
        BY <1>6, <2>1, <2>4, <3>3 DEF Counted
      <3>6. \A i \in Change :
              /\ i > Received => view[i] = 0
              /\ i <= Received => /\ Counted(i) <= 2
                                  /\ ~crossed => Counted(i) <= 1
                                  /\ ~overflowed => Counted(i) >= 1
        BY <1>1, <3>1 DEF ViewInv
      <3>7. crossed' = crossed  BY <2>1, <2>5
      <3>8. ASSUME NEW i \in Change
            PROVE  /\ i > Received' => view'[i] = 0
                   /\ i <= Received' => /\ Counted(i)' <= 2
                                        /\ ~crossed' => Counted(i)' <= 1
                                        /\ ~overflowed' => Counted(i)' >= 1
        <4>1. i \in Nat  BY <1>3
        <4>2. CASE i = Received'
          <5>1. view'[i] = 1  BY <1>3, <3>1, <3>4, <3>6, <4>1, <4>2
          <5> QED BY <1>3, <3>5, <4>1, <4>2, <5>1
        <4>3. CASE i # Received'
          <5>1. view'[i] = view[i]  BY <3>4, <3>5, <4>3
          <5> QED BY <1>3, <2>1, <3>1, <3>5, <3>6, <3>7, <4>1, <4>3, <5>1
        <4> QED BY <4>2, <4>3
      <3>9. ViewInv'  BY <3>8 DEF ViewInv
      <3> QED BY <1>2, <1>5, <2>2, <2>3, <3>9
    <2>6. CASE msg.t # "tick"
      <3>1. Received' = msg.at /\ crossed' = (buffer # <<>>)  BY <1>2, <2>1, <2>6
      <3>2. \A i \in Change : view'[i] = IF i <= Received' THEN 1 ELSE 0
        BY <2>1, <2>6, <3>1 DEF Holds
      <3>3. ~crossed' => \A i : ~Has(buffer, i)  BY <3>1, RisingEmpty
      <3>4. \A i \in Change : Counted(i)' = view'[i] + (IF Has(buffer, i) THEN 1 ELSE 0)
        BY <2>1 DEF Counted
      <3>5. ViewInv'  BY <1>3, <3>2, <3>3, <3>4 DEF ViewInv
      <3> QED BY <1>2, <1>5, <2>2, <2>3, <3>5
    <2> QED BY <2>5, <2>6
  <1> QED BY <1>8, <1>9 DEF Receive

(* Replaying the buffer moves what it counts into the view. *)
LEMMA ResumeInv == TransportInv /\ Resume => TransportInv'
  <1> SUFFICES ASSUME TransportInv, Resume  PROVE TransportInv'
    OBVIOUS
  <1> USE DEF TransportInv
  <1>1. /\ paused /\ paused' = FALSE /\ buffer' = <<>>
        /\ UNCHANGED <<made, wire, crossed, staticDemo, dropped>>
    BY DEF Resume, StartOver, Replay, demoVars
  <1>2. Greeting' = Greeting /\ Received' = Received
    BY <1>1 DEF Greeting, Received
  <1>3. <<>> \in Seq(Message)  OBVIOUS
  <1>4. \A n : Rising(buffer', n)  BY <1>1, RisingEmpty
  <1>5. \A i : ~Has(buffer', i)  BY <1>1, RisingEmpty
  <1>6. CASE StartOver
    <2>1. /\ overflowed /\ overflowed' = FALSE /\ view' = view
          /\ phase' = IF phase = "off" THEN phase ELSE "closing"
      BY <1>6 DEF StartOver
    <2>2. ~staticDemo  BY <2>1 DEF DemoInv
    <2>3. TypeInv'  BY <1>1, <1>3, <2>1 DEF TypeInv
    <2>4. PhaseInv'  BY <1>1, <2>1, <2>2 DEF PhaseInv
    <2>5. WireInv'  BY <1>1, <2>1 DEF WireInv
    <2>6. BufferInv'  BY <1>1, <1>4, <2>1 DEF BufferInv
    <2>7. ViewInv'  BY <2>1 DEF ViewInv
    <2>8. DemoInv'  BY <1>1, <2>2 DEF DemoInv
    <2> QED BY <2>3, <2>4, <2>5, <2>6, <2>7, <2>8
  <1>7. CASE Replay
    <2>1. /\ ~overflowed /\ overflowed' = overflowed /\ phase' = phase
          /\ view' = [i \in Change |-> view[i] + Times(buffer, i)]
      BY <1>7 DEF Replay
    <2>2. \A i : Times(buffer, i) = IF Has(buffer, i) THEN 1 ELSE 0
      <3>1. PICK n \in Nat : Rising(buffer, n)
        <4>1. made \in Nat  BY TransportAssumption DEF TypeInv
        <4>2. phase = "open" => Received \in Nat  BY <4>1 DEF WireInv
        <4> QED BY <4>1, <4>2 DEF BufferInv
      <3> QED BY <3>1, RisingTimes DEF TypeInv
    <2>3. \A i \in Change : view'[i] = Counted(i)  BY <2>1, <2>2 DEF Counted
    <2>4. \A i \in Change : Counted(i) \in Nat  BY DEF Counted, TypeInv
    <2>5. \A i \in Change : Counted(i)' = Counted(i)
      <3>1. \A i \in Change : Counted(i)' = view'[i] + 0  BY <1>5 DEF Counted
      <3> QED BY <2>3, <2>4, <3>1
    <2>6. TypeInv'
      <3>1. view' \in [Change -> Nat]  BY <2>1, <2>3, <2>4
      <3> QED BY <1>1, <1>3, <2>1, <3>1 DEF TypeInv
    <2>7. PhaseInv'  BY <1>1, <2>1 DEF PhaseInv
    <2>8. WireInv'  BY <1>1, <1>2, <2>1 DEF WireInv
    <2>9. BufferInv'  BY <1>1, <1>4, <2>1 DEF BufferInv
    <2>10. ViewInv'
      <3> SUFFICES ASSUME phase = "open", ~Greeting, NEW i \in Change
                   PROVE  /\ i > Received => view'[i] = 0
                          /\ i <= Received => /\ Counted(i) <= 2
                                              /\ ~crossed => Counted(i) <= 1
                                              /\ ~overflowed => Counted(i) >= 1
        BY <1>1, <1>2, <2>1, <2>5 DEF ViewInv
      <3>1. Received \in Nat /\ i \in Nat
        BY TransportAssumption DEF WireInv, TypeInv, Change
      <3>2. i > Received => ~Has(buffer, i)  BY <3>1, RisingBounds DEF BufferInv
      <3>3. i > Received => view'[i] = 0  BY <2>3, <3>2 DEF Counted, ViewInv
      <3> QED BY <3>3 DEF ViewInv
    <2>11. DemoInv'
      <3>1. DOMAIN buffer' = {}  BY <1>1
      <3> QED BY <1>1, <2>1, <2>5, <3>1 DEF DemoInv
    <2> QED BY <2>6, <2>7, <2>8, <2>9, <2>10, <2>11
  <1> QED BY <1>6, <1>7 DEF Resume

-----------------------------------------------------------------------------
(* The demo.                                                                *)

LEMMA DemoStartInv == TransportInv /\ DemoStart => TransportInv'
  <1> SUFFICES ASSUME TransportInv, DemoStart  PROVE TransportInv'
    OBVIOUS
  <1> USE DEF TransportInv
  <1>1. /\ staticDemo /\ phase = "connecting" /\ phase' \in {"running", "failed"}
        /\ UNCHANGED <<made, paused, buffer, view, dropped, staticDemo, wire, overflowed, crossed>>
    BY DEF DemoStart, demoSame
  <1>2. TypeInv'  BY <1>1 DEF TypeInv
  <1>3. PhaseInv'  BY <1>1 DEF PhaseInv
  <1>4. WireInv'  BY <1>1 DEF WireInv
  <1>5. BufferInv'  BY <1>1 DEF BufferInv
  <1>6. ViewInv'  BY <1>1 DEF ViewInv
  <1>7. DemoInv'  BY <1>1 DEF DemoInv, Counted
  <1> QED BY <1>2, <1>3, <1>4, <1>5, <1>6, <1>7

(* A tick of the demo is kept, dropped or applied.  One that is dropped is *)
(* behind everything in the buffer, which is full from then on.            *)
LEMMA DemoTickInv == TransportInv /\ DemoTick => TransportInv'
  <1> SUFFICES ASSUME TransportInv, DemoTick  PROVE TransportInv'
    OBVIOUS
  <1> USE DEF TransportInv
  <1> DEFINE next == made + 1
             tick == TickMessage(next)
  <1>1. /\ phase = "running" /\ made < MaxTicks /\ made' = next
        /\ UNCHANGED <<phase, paused, staticDemo, wire, overflowed, crossed>>
    BY DEF DemoTick, demoSame
  <1>2. staticDemo  BY <1>1 DEF PhaseInv
  <1>3. made \in Nat /\ MaxTicks \in Nat /\ MaxBuffer \in Nat \ {0}
    BY TransportAssumption DEF TypeInv
  <1>4. tick \in Message /\ tick.t = "tick" /\ tick.at = next /\ next \in Nat
    BY <1>3, MessageTypes
  <1>5. next \in Change /\ next \notin 1..made /\ made < next /\ 1..next = 1..made \cup {next}
    BY <1>1, <1>3 DEF Change
  <1>6. /\ buffer \in Seq(Message) /\ view \in [Change -> Nat]
        /\ wire \in Seq(Message) /\ crossed \in BOOLEAN
    BY DEF TypeInv
  <1>7. Rising(buffer, made)  BY <1>1 DEF BufferInv
  <1>8. /\ ~overflowed /\ dropped \subseteq 1..made
        /\ \A i \in Change : Counted(i) = IF i \in 1..made \ dropped THEN 1 ELSE 0
        /\ \A k \in DOMAIN buffer, i \in dropped : buffer[k].at < i \/ i < buffer[1].at
        /\ Len(buffer) < MaxBuffer => \A k \in DOMAIN buffer, i \in dropped : i < buffer[k].at
    BY <1>2 DEF DemoInv
  <1>9. /\ wire = <<>> /\ phase # "open" /\ phase # "closing"  BY <1>1 DEF WireInv
  <1>10. ~Has(buffer, next)  BY <1>3, <1>5, <1>7, RisingBounds
  <1>11. view[next] = 0
    <2>1. Counted(next) = 0  BY <1>5, <1>8
    <2>2. Counted(next) = view[next] + 0  BY <1>10 DEF Counted
    <2>3. view[next] \in Nat  BY <1>5, <1>6
    <2> HIDE DEF next
    <2> QED BY <2>1, <2>2, <2>3
  <1>12. made' \in 0..MaxTicks  BY <1>1, <1>3
  <1>13. PhaseInv'  BY <1>1 DEF PhaseInv
  <1>14. WireInv'  BY <1>1, <1>9 DEF WireInv
  <1>15. ViewInv'  BY <1>1, <1>9 DEF ViewInv
  <1> HIDE DEF tick, next
  <1>16. CASE paused /\ buffer' = Append(buffer, tick) /\ dropped' = dropped /\ view' = view
              /\ Len(buffer) < MaxBuffer
    <2>1. /\ buffer' \in Seq(Message) /\ Rising(buffer', next)
          /\ \A i : Has(buffer', i) <=> Has(buffer, i) \/ i = next
      BY <1>3, <1>4, <1>5, <1>6, <1>7, <1>16, RisingAppend
    <2>2. TypeInv'  BY <1>1, <1>6, <1>12, <1>16, <2>1 DEF TypeInv
    <2>3. BufferInv'  BY <1>1, <1>9, <1>16, <2>1 DEF BufferInv
    <2>4. \A i \in Change : Counted(i)' = IF i \in 1..made' \ dropped' THEN 1 ELSE 0
      <3> SUFFICES ASSUME NEW i \in Change
                   PROVE  Counted(i)' = IF i \in 1..made' \ dropped' THEN 1 ELSE 0
        OBVIOUS
      <3>1. CASE i = next
        <4>1. Counted(i)' = 1  BY <1>11, <1>16, <2>1, <3>1 DEF Counted
        <4>2. i \in 1..made' \ dropped'  BY <1>1, <1>5, <1>8, <1>16, <3>1
        <4> QED BY <4>1, <4>2
      <3>2. CASE i # next
        <4>1. Counted(i)' = Counted(i)  BY <1>16, <2>1, <3>2 DEF Counted
        <4>2. i \in 1..made' \ dropped' <=> i \in 1..made \ dropped  BY <1>1, <1>5, <1>16, <3>2
        <4> QED BY <1>8, <4>1, <4>2
      <3> QED BY <3>1, <3>2
    <2>5. \A k \in DOMAIN buffer', i \in dropped : i < buffer'[k].at
      <3> SUFFICES ASSUME NEW k \in DOMAIN buffer', NEW i \in dropped  PROVE i < buffer'[k].at
        OBVIOUS
      <3>1. /\ DOMAIN buffer = 1..Len(buffer) /\ DOMAIN buffer' = 1..(Len(buffer) + 1)
            /\ \A j \in 1..Len(buffer) : buffer'[j] = buffer[j]
            /\ buffer'[Len(buffer) + 1] = tick /\ Len(buffer) \in Nat
        BY <1>4, <1>6, <1>16
      <3>2. CASE k \in 1..Len(buffer)  BY <1>8, <1>16, <3>1, <3>2
      <3>3. CASE k = Len(buffer) + 1
        <4>1. buffer'[k].at = next  BY <1>4, <3>1, <3>3
        <4> QED BY <1>3, <1>5, <1>8, <4>1
      <3> QED BY <3>1, <3>2, <3>3
    <2>6. dropped' \subseteq 1..made'  BY <1>1, <1>5, <1>8, <1>16
    <2>7. \A k \in DOMAIN buffer', i \in dropped : i < buffer'[1].at
      <3> SUFFICES ASSUME NEW k \in DOMAIN buffer', NEW i \in dropped  PROVE i < buffer'[1].at
        OBVIOUS
      <3>1. 1 \in DOMAIN buffer'  BY <1>4, <1>6, <1>16
      <3> QED BY <2>5, <3>1
    <2>8. DemoInv'  BY <1>1, <1>8, <1>16, <2>4, <2>5, <2>6, <2>7 DEF DemoInv
    <2> QED BY <1>13, <1>14, <1>15, <2>2, <2>3, <2>8
  <1>17. CASE paused /\ buffer' = buffer /\ dropped' = dropped \cup {next} /\ view' = view
              /\ ~(Len(buffer) < MaxBuffer)
    <2>1. TypeInv'  BY <1>1, <1>6, <1>12, <1>17 DEF TypeInv
    <2>2. Rising(buffer, next)  BY <1>3, <1>4, <1>5, <1>7, RisingMore
    <2>3. BufferInv'  BY <1>1, <1>9, <1>17, <2>2 DEF BufferInv
    <2>4. \A i \in Change : Counted(i)' = Counted(i)  BY <1>17 DEF Counted
    <2>5. 1..made' \ dropped' = 1..made \ dropped  BY <1>1, <1>5, <1>17
    <2>6. dropped' \subseteq 1..made'  BY <1>1, <1>5, <1>8, <1>17
    <2>7. \A k \in DOMAIN buffer : buffer[k].at < next
      BY <1>3, <1>5, <1>7 DEF Rising
    <2>8. DemoInv'  BY <1>1, <1>8, <1>17, <2>4, <2>5, <2>6, <2>7 DEF DemoInv
    <2> QED BY <1>13, <1>14, <1>15, <2>1, <2>3, <2>8
  <1>18. CASE ~paused /\ view' = [view EXCEPT ![next] = @ + 1]
              /\ buffer' = buffer /\ dropped' = dropped
    <2>1. buffer = <<>> /\ \A i : ~Has(buffer, i)  BY <1>18, RisingEmpty DEF BufferInv
    <2>2. \A i \in Change : view'[i] = IF i = next THEN view[i] + 1 ELSE view[i]
      BY <1>6, <1>18
    <2>3. TypeInv'
      <3>1. view[next] + 1 \in Nat  BY <1>5, <1>6
      <3>2. view' \in [Change -> Nat]  BY <1>6, <1>18, <3>1
      <3> QED BY <1>1, <1>6, <1>12, <1>18, <3>2 DEF TypeInv
    <2>4. BufferInv'  BY <1>1, <1>8, <1>9, <1>18, <2>1, RisingEmpty DEF BufferInv
    <2>5. \A i \in Change : Counted(i)' = IF i \in 1..made' \ dropped' THEN 1 ELSE 0
      <3> SUFFICES ASSUME NEW i \in Change
                   PROVE  Counted(i)' = IF i \in 1..made' \ dropped' THEN 1 ELSE 0
        OBVIOUS
      <3>1. CASE i = next
        <4>1. Counted(i)' = 1  BY <1>11, <1>18, <2>1, <2>2, <3>1 DEF Counted
        <4>2. i \in 1..made' \ dropped'  BY <1>1, <1>5, <1>8, <1>18, <3>1
        <4> QED BY <4>1, <4>2
      <3>2. CASE i # next
        <4>1. Counted(i)' = Counted(i)  BY <1>18, <2>2, <3>2 DEF Counted
        <4>2. i \in 1..made' \ dropped' <=> i \in 1..made \ dropped  BY <1>1, <1>5, <1>18, <3>2
        <4> QED BY <1>8, <4>1, <4>2
      <3> QED BY <3>1, <3>2
    <2>6. dropped' \subseteq 1..made'  BY <1>1, <1>5, <1>8, <1>18
    <2>7. DOMAIN buffer' = {}  BY <1>18, <2>1
    <2>8. DemoInv'  BY <1>1, <1>8, <2>5, <2>6, <2>7 DEF DemoInv
    <2> QED BY <1>13, <1>14, <1>15, <2>3, <2>4, <2>8
  <1>19. \/ paused /\ buffer' = Append(buffer, tick) /\ dropped' = dropped /\ view' = view
              /\ Len(buffer) < MaxBuffer
         \/ paused /\ buffer' = buffer /\ dropped' = dropped \cup {next} /\ view' = view
              /\ ~(Len(buffer) < MaxBuffer)
         \/ ~paused /\ view' = [view EXCEPT ![next] = @ + 1]
              /\ buffer' = buffer /\ dropped' = dropped
    BY DEF DemoTick, DemoKeep, DemoApply, tick, next
  <1> QED BY <1>16, <1>17, <1>18, <1>19

LEMMA NextInv == TransportInv /\ [Next]_vars => TransportInv'
  <1> SUFFICES ASSUME TransportInv, [Next]_vars  PROVE TransportInv'
    OBVIOUS
  <1>1. CASE ServerTick  BY <1>1, ServerTickInv
  <1>2. CASE Open  BY <1>2, OpenInv
  <1>3. CASE Break \/ Closed
    <2>1. ~staticDemo /\ Lost  BY <1>3 DEF Break, Closed, TransportInv, PhaseInv
    <2> QED BY <2>1, LostInv
  <1>4. CASE Reconnect
    <2>1. /\ phase = "off" /\ phase' = "connecting"
          /\ UNCHANGED <<made, wire, paused, buffer, overflowed, view, crossed, staticDemo, dropped>>
      BY <1>4 DEF Reconnect, demoVars
    <2>2. TypeInv'  BY <2>1 DEF TransportInv, TypeInv
    <2>3. PhaseInv'  BY <2>1 DEF TransportInv, PhaseInv
    <2>4. WireInv'  BY <2>1 DEF TransportInv, WireInv
    <2>5. BufferInv'  BY <2>1 DEF TransportInv, BufferInv
    <2>6. ViewInv'  BY <2>1 DEF TransportInv, ViewInv
    <2>7. DemoInv'  BY <2>1 DEF TransportInv, DemoInv, Counted
    <2> QED BY <2>2, <2>3, <2>4, <2>5, <2>6, <2>7 DEF TransportInv
  <1>5. CASE Receive  BY <1>5, ReceiveInv
  <1>6. CASE Pause \/ UNCHANGED vars
    <2>1. /\ paused' = TRUE \/ paused' = paused
          /\ UNCHANGED <<made, phase, wire, buffer, overflowed, view, crossed, staticDemo, dropped>>
      BY <1>6 DEF Pause, vars, demoVars
    <2>2. Greeting' = Greeting /\ Received' = Received /\ \A i : Counted(i)' = Counted(i)
      BY <2>1 DEF Greeting, Received, Counted
    <2>3. TypeInv'  BY <2>1 DEF TransportInv, TypeInv
    <2>4. PhaseInv'  BY <2>1 DEF TransportInv, PhaseInv
    <2>5. WireInv'  BY <2>1, <2>2 DEF TransportInv, WireInv
    <2>6. BufferInv'  BY <2>1, <2>2 DEF TransportInv, BufferInv, TypeInv
    <2>7. ViewInv'  BY <2>1, <2>2 DEF TransportInv, ViewInv
    <2>8. DemoInv'  BY <2>1, <2>2 DEF TransportInv, DemoInv
    <2> QED BY <2>3, <2>4, <2>5, <2>6, <2>7, <2>8 DEF TransportInv
  <1>7. CASE Resume  BY <1>7, ResumeInv
  <1>8. CASE DemoStart  BY <1>8, DemoStartInv
  <1>9. CASE DemoTick  BY <1>9, DemoTickInv
  <1> QED BY <1>1, <1>2, <1>3, <1>4, <1>5, <1>6, <1>7, <1>8, <1>9 DEF Next

-----------------------------------------------------------------------------

(* What the wire of an open connection holds of each change: everything     *)
(* behind Received, and everything there is if the greeting is still on it. *)
LEMMA WireTimes ==
  ASSUME TransportInv, phase = "open", NEW i \in 1..made
  PROVE  Times(wire, i) = IF Greeting \/ i > Received THEN 1 ELSE 0
  <1> DEFINE before == made - Len(wire)
  <1>1. made \in Nat /\ wire \in Seq(Message) /\ Len(wire) \in Nat /\ DOMAIN wire = 1..Len(wire)
    BY TransportAssumption DEF TransportInv, TypeInv
  <1>2. /\ Received \in 0..made
        /\ \A k \in DOMAIN wire : wire[k].at = before + k /\ (k > 1 => wire[k].t = "tick")
    BY DEF TransportInv, WireInv
  <1>3. Greeting <=> wire # <<>> /\ wire[1].t = "snapshot"
    <2>1. wire # <<>> => Head(wire) = wire[1]  BY <1>1
    <2> QED BY <2>1 DEF Greeting
  <1>4. Greeting => Len(wire) >= 1  BY <1>1, <1>3
  <1>5. before \in Int /\ Received = IF Greeting THEN before + 1 ELSE before
    BY <1>1 DEF Received
  <1> HIDE DEF before
  (* The message about change i, if any, and the one that holds it. *)
  <1>6. \A k \in DOMAIN wire :
          Holds(wire[k], i) <=> \/ ~(Greeting /\ k = 1) /\ i = before + k
                                \/ Greeting /\ k = 1 /\ i <= before + 1
    <2> SUFFICES ASSUME NEW k \in DOMAIN wire
                 PROVE  Holds(wire[k], i) <=> \/ ~(Greeting /\ k = 1) /\ i = before + k
                                              \/ Greeting /\ k = 1 /\ i <= before + 1
      OBVIOUS
    <2>1. wire[k].at = before + k  BY <1>2
    <2>2. wire[k].t = "tick" <=> ~(Greeting /\ k = 1)
      <3>1. CASE k = 1
        <4>1. wire[1] \in Message  BY <1>1, <3>1
        <4>2. wire[1].t \in {"tick", "snapshot"}  BY <4>1 DEF Message
        <4>3. wire # <<>>  BY <1>1, <3>1
        <4> QED BY <1>3, <3>1, <4>2, <4>3
      <3>2. CASE k # 1  BY <1>1, <1>2, <3>2
      <3> QED BY <3>1, <3>2
    <2>3. CASE wire[k].t = "tick"  BY <2>1, <2>2, <2>3 DEF Holds
    <2>4. CASE wire[k].t # "tick"  BY <2>1, <2>2, <2>4 DEF Holds
    <2> QED BY <2>3, <2>4
  <1>7. \A k, l \in DOMAIN wire : Holds(wire[k], i) /\ Holds(wire[l], i) => k = l
    <2> SUFFICES ASSUME NEW k \in 1..Len(wire), NEW l \in 1..Len(wire),
                        Holds(wire[k], i), Holds(wire[l], i)
                 PROVE  k = l
      BY <1>1
    <2>1. \/ ~(Greeting /\ k = 1) /\ i = before + k
          \/ Greeting /\ k = 1 /\ i <= before + 1
      BY <1>1, <1>6
    <2>2. \/ ~(Greeting /\ l = 1) /\ i = before + l
          \/ Greeting /\ l = 1 /\ i <= before + 1
      BY <1>1, <1>6
    <2>3. i \in Int /\ k \in Nat /\ l \in Nat /\ k >= 1 /\ l >= 1  BY <1>1
    <2> QED BY <1>5, <2>1, <2>2, <2>3
  <1>8. Times(wire, i) = IF \E k \in DOMAIN wire : Holds(wire[k], i) THEN 1 ELSE 0
    BY <1>7, TimesOnce
  <1>9. (\E k \in DOMAIN wire : Holds(wire[k], i)) <=> Greeting \/ i > Received
    <2>0. i \in Int /\ i >= 1 /\ i <= made  BY <1>1
    <2>1. CASE Greeting
      <3>1. CASE i <= before + 1
        <4>1. 1 \in DOMAIN wire  BY <1>1, <1>4, <2>1
        <4>2. Holds(wire[1], i)  BY <1>6, <2>1, <3>1, <4>1
        <4> QED BY <2>1, <4>1, <4>2
      <3>2. CASE i > before + 1
        <4> DEFINE k == i - before
        <4>1. k \in 1..Len(wire) /\ k # 1 /\ i = before + k
          BY <1>1, <1>5, <2>0, <3>2 DEF before
        <4>2. k \in DOMAIN wire /\ Holds(wire[k], i)  BY <1>1, <1>6, <4>1
        <4> QED BY <2>1, <4>2
      <3> QED BY <1>5, <2>0, <3>1, <3>2
    <2>2. CASE ~Greeting
      <3>1. Received = before  BY <1>5, <2>2
      <3>2. ASSUME i > before  PROVE \E k \in DOMAIN wire : Holds(wire[k], i)
        <4> DEFINE k == i - before
        <4>1. k \in 1..Len(wire) /\ i = before + k
          BY <1>1, <1>5, <2>0, <3>2 DEF before
        <4>2. k \in DOMAIN wire /\ Holds(wire[k], i)  BY <1>1, <1>6, <2>2, <4>1
        <4> QED BY <4>2
      <3>3. ASSUME NEW k \in DOMAIN wire, Holds(wire[k], i)  PROVE i > before
        <4>1. i = before + k /\ k \in Nat /\ k >= 1  BY <1>1, <1>6, <2>2, <3>3
        <4> QED BY <1>5, <4>1
      <3> QED BY <2>2, <3>1, <3>2, <3>3
    <2> QED BY <2>1, <2>2
  <1> QED BY <1>8, <1>9

(* What an open page will have applied of a change, by where the change is. *)
LEMMA WillApplyOnce ==
  ASSUME TransportInv, phase = "open", NEW i \in 1..made
  PROVE  /\ Greeting => WillApply(i) = 1 + (IF Has(buffer, i) THEN 1 ELSE 0)
         /\ ~Greeting /\ i > Received => WillApply(i) = 1
         /\ ~Greeting /\ i <= Received => WillApply(i) = Counted(i)
  <1>1. /\ made \in Nat /\ MaxTicks \in Nat /\ made <= MaxTicks /\ i \in Nat
        /\ buffer \in Seq(Message)
    BY TransportAssumption DEF TransportInv, TypeInv
  <1>2. i \in Change /\ view[i] \in Nat  BY <1>1 DEF Change, TransportInv, TypeInv
  <1>3. Received \in Nat /\ Rising(buffer, Received)
    BY <1>1 DEF TransportInv, WireInv, BufferInv
  <1>4. Times(buffer, i) = IF Has(buffer, i) THEN 1 ELSE 0  BY <1>1, <1>3, RisingTimes
  <1>5. Times(wire, i) = IF Greeting \/ i > Received THEN 1 ELSE 0  BY WireTimes
  <1>6. i > Received => ~Has(buffer, i)  BY <1>1, <1>3, RisingBounds
  <1>7. ~Greeting /\ i > Received => view[i] = 0  BY <1>2 DEF TransportInv, ViewInv
  <1>8. WillApply(i) = (IF Greeting THEN 0 ELSE view[i]) + Times(wire, i) + Times(buffer, i)
    BY DEF WillApply
  <1>9. Counted(i) = view[i] + Times(buffer, i)  BY <1>4 DEF Counted
  <1>10. CASE Greeting
    <2>1. Times(wire, i) = 1  BY <1>5, <1>10
    <2> QED BY <1>4, <1>8, <1>10, <2>1
  <1>11. CASE ~Greeting /\ i > Received
    <2>1. Times(wire, i) = 1 /\ Times(buffer, i) = 0 /\ view[i] = 0
      BY <1>4, <1>5, <1>6, <1>7, <1>11
    <2> QED BY <1>1, <1>3, <1>8, <1>11, <2>1
  <1>12. CASE ~Greeting /\ i <= Received
    <2>1. Times(wire, i) = 0  BY <1>1, <1>3, <1>5, <1>12
    <2>2. Times(buffer, i) \in {0, 1}  BY <1>4
    <2> QED BY <1>1, <1>2, <1>3, <1>8, <1>9, <1>12, <2>1, <2>2
  <1> QED BY <1>1, <1>3, <1>10, <1>11, <1>12

(* The inductive invariant: wire, buffer and view account for every change of *)
(* the open connection (ws-client.ts onmessage, setPaused; demo-transport.ts). *)
THEOREM TransportInvariant == Spec => []TransportInv
  BY TransportInvInit, NextInv, PTL DEF Spec

(* As long as no tick overflowed, pausing loses nothing, whatever breaks, *)
(* pauses and resumes lie between.                                        *)
THEOREM PausingMissesNothing == Spec => []NothingMissed
  <1>1. TransportInv => NothingMissed
    <2> SUFFICES ASSUME TransportInv, phase = "open", ~overflowed, NEW i \in 1..made
                 PROVE  WillApply(i) >= 1
      BY DEF NothingMissed
    <2>1. made \in Nat /\ made <= MaxTicks /\ MaxTicks \in Nat /\ i \in Change
      BY TransportAssumption DEF TransportInv, TypeInv, Change
    <2>2. Received \in Nat  BY <2>1 DEF TransportInv, WireInv
    <2>3. CASE Greeting  BY <2>3, WillApplyOnce
    <2>4. CASE ~Greeting /\ i > Received  BY <2>4, WillApplyOnce
    <2>5. CASE ~Greeting /\ i <= Received
      BY <2>1, <2>5, WillApplyOnce DEF TransportInv, ViewInv
    <2> QED BY <2>1, <2>2, <2>3, <2>4, <2>5
  <1> QED BY <1>1, TransportInvariant, PTL

(* A change is counted twice only by a page that was paused across a       *)
(* reconnect, and more than twice never.                                   *)
THEOREM NeverTwiceOnOneConnection == Spec => []TwiceOnlyAcrossConnections
  <1>1. TransportInv => TwiceOnlyAcrossConnections
    <2> SUFFICES ASSUME TransportInv, phase = "open", NEW i \in 1..made
                 PROVE  WillApply(i) <= 2 /\ (~Greeting /\ ~crossed => WillApply(i) <= 1)
      BY DEF TwiceOnlyAcrossConnections
    <2>1. made \in Nat /\ made <= MaxTicks /\ MaxTicks \in Nat /\ i \in Change
      BY TransportAssumption DEF TransportInv, TypeInv, Change
    <2>2. Received \in Nat  BY <2>1 DEF TransportInv, WireInv
    <2>3. CASE Greeting  BY <2>3, WillApplyOnce
    <2>4. CASE ~Greeting /\ i > Received  BY <2>4, WillApplyOnce
    <2>5. CASE ~Greeting /\ i <= Received
      BY <2>1, <2>5, WillApplyOnce DEF TransportInv, ViewInv
    <2> QED BY <2>1, <2>2, <2>3, <2>4, <2>5
  <1> QED BY <1>1, TransportInvariant, PTL

(* A demo page that is not paused lacks exactly the ticks that found its      *)
(* buffer full, and what was kept precedes them (demo-transport.ts setPaused). *)
THEOREM DemoLacksOnlyDropped == Spec => []LacksOnlyDropped
  <1>1. TransportInv => LacksOnlyDropped
    <2> SUFFICES ASSUME TransportInv, staticDemo  PROVE LacksOnlyDropped
      BY DEF LacksOnlyDropped
    <2>1. ASSUME ~paused, NEW i \in 1..made  PROVE view[i] = IF i \in dropped THEN 0 ELSE 1
      <3>1. i \in Change  BY TransportAssumption DEF TransportInv, TypeInv, Change
      <3>2. ~Has(buffer, i)  BY <2>1, RisingEmpty DEF TransportInv, BufferInv
      <3>3. view[i] \in Nat /\ Counted(i) = view[i] + 0
        BY <3>1, <3>2 DEF Counted, TransportInv, TypeInv
      <3> QED BY <3>1, <3>3 DEF TransportInv, DemoInv
    <2>2. \A k \in DOMAIN buffer, i \in dropped : buffer[k].at < i \/ i < buffer[1].at
      BY DEF TransportInv, DemoInv
    <2> QED BY <2>1, <2>2 DEF LacksOnlyDropped
  <1> QED BY <1>1, TransportInvariant, PTL

=============================================================================
