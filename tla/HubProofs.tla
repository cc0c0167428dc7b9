----------------------------- MODULE HubProofs -----------------------------
(***************************************************************************)
(* Proofs about Hub for any browsers, any queue and any ResyncAfter.  What *)
(* the properties say of registered clients holds because of what is true  *)
(* of a client between its greeting and its registration, when the ticker, *)
(* the shutdown and other handlers may run; HubInv adds that.              *)
(*                                                                         *)
(* The second part follows the changes: what is in flight to a browser     *)
(* holds each change in at most one tick (Ordered), and a client without a *)
(* gap is reached by all that has been fanned out (Complete).  The lemmas  *)
(* on flights say how a queue behaves under the three things that happen   *)
(* to it: a message is added, arrives, or is lost with the connection.     *)
(***************************************************************************)
EXTENDS Hub, SequenceTheorems, FiniteSetTheorems, TLAPS

TypeInv ==
  /\ registered \subseteq Clients
  /\ closed \in [Clients -> BOOLEAN]
  /\ behind \in [Clients -> Nat]
  /\ resync \in [Clients -> BOOLEAN]
  /\ handler \in [Clients -> {"away", "greeted", "serving", "writing", "leaving"}]

(* A client is registered by a handler that has yet to take it out. *)
Owned ==
  \A c \in registered : ~closed[c] /\ handler[c] \in {"serving", "writing", "leaving"}

(* Nobody but its own handler knows a client that is not registered yet. *)
Fresh ==
  \A c \in Clients : handler[c] = "greeted" => ~closed[c] /\ behind[c] = 0 /\ ~resync[c]

DueExactly ==
  \A c \in registered : behind[c] <= ResyncAfter /\ (resync[c] <=> behind[c] = ResyncAfter)

HubInv == TypeInv /\ Owned /\ Fresh /\ DueExactly

-----------------------------------------------------------------------------

LEMMA HubInvInit == Init => HubInv
  BY DEF Init, HubInv, TypeInv, Owned, Fresh, DueExactly

(* One offer of the fan-out, taken or refused, keeps the flag and the count  *)
(* of refusals together.                                                    *)
LEMMA OfferKeepsDue ==
  ASSUME TypeInv, NEW c \in Clients,
         behind[c] <= ResyncAfter, resync[c] <=> behind[c] = ResyncAfter
  PROVE  /\ Refusals(c) \in Nat /\ Due(c) \in BOOLEAN
         /\ Refusals(c) <= ResyncAfter
         /\ Due(c) <=> Refusals(c) = ResyncAfter
  <1>1. behind[c] \in Nat /\ ResyncAfter \in Nat \ {0}  BY HubAssumption DEF TypeInv
  <1>2. CASE HasRoom(c)  BY <1>1, <1>2 DEF Refusals, Due
  <1>3. CASE ~HasRoom(c) /\ resync[c]  BY <1>1, <1>3 DEF Refusals, Due
  <1>4. CASE ~HasRoom(c) /\ ~resync[c]  BY <1>1, <1>4 DEF Refusals, Due
  <1> QED BY <1>2, <1>3, <1>4

(* The fan-out changes the books of registered clients only. *)
LEMMA FanOutKeeps == HubInv /\ FanOut => HubInv'
  <1> SUFFICES ASSUME HubInv, FanOut  PROVE HubInv'
    OBVIOUS
  <1> USE DEF HubInv
  <1>1. \A c \in registered :
          /\ Refusals(c) \in Nat /\ Due(c) \in BOOLEAN
          /\ Refusals(c) <= ResyncAfter
          /\ Due(c) <=> Refusals(c) = ResyncAfter
    BY OfferKeepsDue DEF DueExactly, TypeInv
  <1>2. /\ behind' = [c \in Clients |-> IF c \in registered THEN Refusals(c) ELSE behind[c]]
        /\ resync' = [c \in Clients |-> IF c \in registered THEN Due(c) ELSE resync[c]]
        /\ UNCHANGED <<registered, closed, handler>>
    BY DEF FanOut, handlerVars
  <1>3. TypeInv'  BY <1>1, <1>2 DEF TypeInv
  <1>4. Owned'  BY <1>2 DEF Owned
  <1>5. Fresh'  BY <1>2 DEF Fresh, Owned
  <1>6. DueExactly'  BY <1>1, <1>2 DEF DueExactly, TypeInv
  <1> QED BY <1>3, <1>4, <1>5, <1>6

(* The handler of one client, from the greeting to the deferred function. *)
LEMMA HandlerKeeps ==
  ASSUME HubInv, NEW c \in Clients, Connect(c) \/ Serve(c)
  PROVE  HubInv'
  <1> USE HubAssumption DEF HubInv, TypeInv, Owned, Fresh, DueExactly
  <1>1. CASE Connect(c)  BY <1>1 DEF Connect
  <1>2. CASE Register(c)  BY <1>2 DEF Register
  <1>3. CASE Receive(c)  BY <1>3 DEF Receive
  <1>4. CASE Stop(c)  BY <1>4 DEF Stop, clientVars
  <1>5. CASE Written(c)  BY <1>5 DEF Written, clientVars
  <1>6. CASE WriteFails(c)  BY <1>6 DEF WriteFails, clientVars
  <1>7. CASE Leave(c)  BY <1>7 DEF Leave
  <1> QED BY <1>1, <1>2, <1>3, <1>4, <1>5, <1>6, <1>7 DEF Serve

LEMMA HubInvNext == HubInv /\ [Next]_vars => HubInv'
  <1> SUFFICES ASSUME HubInv, [Next]_vars  PROVE HubInv'
    OBVIOUS
  <1>1. CASE Ingest  BY <1>1 DEF Ingest, clientVars, handlerVars, HubInv, TypeInv, Owned, Fresh, DueExactly
  <1>2. CASE TakeDelta
    BY <1>2 DEF TakeDelta, clientVars, handlerVars, HubInv, TypeInv, Owned, Fresh, DueExactly
  <1>3. CASE FanOut  BY <1>3, FanOutKeeps
  <1>4. CASE Shutdown
    BY <1>4 DEF Shutdown, handlerVars, HubInv, TypeInv, Owned, Fresh, DueExactly
  <1>5. CASE \E c \in Clients : Connect(c) \/ Serve(c)  BY <1>5, HandlerKeeps
  <1>6. CASE \E c \in Clients : BrowserLeaves(c)
    BY <1>6 DEF BrowserLeaves, clientVars, HubInv, TypeInv, Owned, Fresh, DueExactly
  <1>7. CASE UNCHANGED vars
    BY <1>7 DEF vars, clientVars, handlerVars, HubInv, TypeInv, Owned, Fresh, DueExactly
  <1> QED BY <1>1, <1>2, <1>3, <1>4, <1>5, <1>6, <1>7 DEF Next

LEMMA HubInvAlways == Spec => []HubInv
  <1> QED BY HubInvInit, HubInvNext, PTL DEF Spec

(* Whatever browsers come and go, and whenever the shutdown comes, the       *)
(* fan-out never offers to a closed channel, and no channel is closed twice  *)
(* (hub.go:238-242, :309).                                                  *)
THEOREM NeverSendsOnClosed == Spec => []NoSendOnClosed
  <1>1. HubInv => NoSendOnClosed
    BY DEF HubInv, TypeInv, Owned, NoSendOnClosed
  <1> QED BY <1>1, HubInvAlways, PTL

(* The flag that asks for a snapshot and the count of refusals never part,   *)
(* for any queue and any ResyncAfter of at least one (hub.go:244-265).       *)
THEOREM ResyncDueExactly == Spec => []ResyncIsDueExactly
  <1>1. HubInv => ResyncIsDueExactly
    BY DEF HubInv, DueExactly, ResyncIsDueExactly
  <1> QED BY <1>1, HubInvAlways, PTL

-----------------------------------------------------------------------------
(* Flights: sequences of messages, m, on their way to a browser that shows  *)
(* v, when everything up to change n has been fanned out.                   *)

Message == [t : {"hello", "snapshot", "tick", "none"}, from : Nat, to : Nat]

View == [Change -> Nat]

LastFrom(m, k) == \A l \in DOMAIN m : l > k => m[l].t # "snapshot"

(* If there are snapshots, one of them is the last. *)
HasLast(m) == LastFrom(m, 0) \/ \E k \in DOMAIN m : m[k].t = "snapshot" /\ LastFrom(m, k)

(* Ticks follow one another, up to n: no change is in two of them. *)
Ordered(m, n) ==
  /\ \A k \in DOMAIN m : m[k].t = "tick" => m[k].to <= n
  /\ \A k, l \in DOMAIN m : k < l /\ m[k].t = "tick" /\ m[l].t = "tick" => m[k].to <= m[l].from

(* What was applied twice is in no tick any more. *)
TwiceBehind(v, m, n) ==
  \A i \in Change :
    /\ v[i] <= 2
    /\ v[i] = 2 => i <= n /\ \A k \in DOMAIN m : m[k].t = "tick" => i <= m[k].from

Flight(m, v, n) ==
  m \in Seq(Message) /\ v \in View /\ HasLast(m) /\ Ordered(m, n) /\ TwiceBehind(v, m, n)

(* Change i will be there when the flight has arrived. *)
Reaches(m, v, i) ==
  \/ v[i] >= 1 /\ LastFrom(m, 0)
  \/ \E k \in DOMAIN m : m[k].t \in {"snapshot", "tick"} /\ Holds(m[k], i) /\ LastFrom(m, k)

Complete(m, v, n) == \A i \in Change : i <= n => Reaches(m, v, i)

LEMMA MessageBounds ==
  ASSUME NEW m \in Seq(Message)
  PROVE  \A k \in DOMAIN m : m[k] \in Message /\ m[k].from \in Nat /\ m[k].to \in Nat
  <1>1. \A k \in DOMAIN m : m[k] \in Message
    OBVIOUS
  <1> QED BY <1>1 DEF Message

(* A message that is added is a later tick, or a snapshot of all there is. *)
LEMMA AppendFacts ==
  ASSUME NEW m \in Seq(Message), NEW msg \in Message
  PROVE  /\ Append(m, msg) \in Seq(Message) /\ Len(m) \in Nat
         /\ DOMAIN m = 1..Len(m) /\ DOMAIN Append(m, msg) = 1..(Len(m) + 1)
         /\ \A k \in 1..Len(m) : Append(m, msg)[k] = m[k]
         /\ Append(m, msg)[Len(m) + 1] = msg
  OBVIOUS

LEMMA FlightTick ==
  ASSUME NEW m, NEW v, NEW n \in Nat, Flight(m, v, n),
         NEW msg \in Message, msg.t = "tick", msg.from = n, NEW n2 \in Nat, msg.to = n2, n <= n2
  PROVE  /\ Flight(Append(m, msg), v, n2)
         /\ Complete(m, v, n) => Complete(Append(m, msg), v, n2)
  <1> DEFINE u == Append(m, msg)
             last == Len(m) + 1
  <1>1. m \in Seq(Message) /\ v \in View  BY DEF Flight
  <1>2. /\ u \in Seq(Message) /\ Len(m) \in Nat
        /\ DOMAIN m = 1..Len(m) /\ DOMAIN u = 1..last
        /\ \A k \in DOMAIN m : u[k] = m[k]
        /\ u[last] = msg
    BY <1>1, AppendFacts
  <1>3. /\ \A k \in DOMAIN u : k \in DOMAIN m \/ k = last
        /\ \A k \in DOMAIN m : k \in Nat /\ k < last
        /\ last \in DOMAIN u /\ last \in Nat
    BY <1>2
  <1>3a. \A k \in DOMAIN m : m[k].from \in Nat /\ m[k].to \in Nat
    BY <1>1, MessageBounds
  <1> HIDE DEF u, last
  <1>4. \A k : LastFrom(m, k) => LastFrom(u, k)  BY <1>2, <1>3 DEF LastFrom
  <1>5. HasLast(u)  BY <1>2, <1>3, <1>4 DEF Flight, HasLast
  <1>6. Ordered(u, n2)
    <2>1. \A k \in DOMAIN u : u[k].t = "tick" => u[k].to <= n2
      BY <1>2, <1>3, <1>3a DEF Flight, Ordered
    <2>2. ASSUME NEW k \in DOMAIN u, NEW l \in DOMAIN u, k < l, u[k].t = "tick", u[l].t = "tick"
          PROVE  u[k].to <= u[l].from
      <3>1. k \in DOMAIN m  BY <1>3, <2>2
      <3>2. CASE l \in DOMAIN m  BY <1>2, <2>2, <3>1, <3>2 DEF Flight, Ordered
      <3>3. CASE l = last  BY <1>2, <2>2, <3>1, <3>3 DEF Flight, Ordered
      <3> QED BY <1>3, <3>2, <3>3
    <2> QED BY <2>1, <2>2 DEF Ordered
  <1>7. TwiceBehind(v, u, n2)
    <2> SUFFICES ASSUME NEW i \in Change
                 PROVE  /\ v[i] <= 2
                        /\ v[i] = 2 => /\ i <= n2
                                       /\ \A k \in DOMAIN u : u[k].t = "tick" => i <= u[k].from
      BY DEF TwiceBehind
    <2>1. i \in Nat /\ v[i] <= 2  BY DEF Flight, TwiceBehind, Change
    <2>2. v[i] = 2 => i <= n /\ \A k \in DOMAIN m : m[k].t = "tick" => i <= m[k].from
      BY DEF Flight, TwiceBehind
    <2> QED BY <1>2, <1>3, <2>1, <2>2
  <1>8. ASSUME Complete(m, v, n)  PROVE Complete(u, v, n2)
    <2> SUFFICES ASSUME NEW i \in Change, i <= n2  PROVE Reaches(u, v, i)
      BY DEF Complete
    <2>0. i \in Nat  BY DEF Change
    <2>1. CASE i <= n
      <3>1. Reaches(m, v, i)  BY <1>8, <2>1 DEF Complete
      <3> QED BY <1>2, <1>3, <1>4, <3>1 DEF Reaches
    <2>2. CASE i > n
      <3>1. Holds(u[last], i)  BY <1>2, <2>0, <2>2 DEF Holds
      <3>2. LastFrom(u, last)  BY <1>3 DEF LastFrom
      <3> QED BY <1>2, <1>3, <3>1, <3>2 DEF Reaches
    <2> QED BY <2>0, <2>1, <2>2
  <1> QED BY <1>1, <1>2, <1>5, <1>6, <1>7, <1>8 DEF Flight, u

LEMMA FlightSnapshot ==
  ASSUME NEW m, NEW v, NEW n \in Nat, Flight(m, v, n), NEW n2 \in Nat, n <= n2,
         NEW msg \in Message, msg.t = "snapshot", msg.from = 0, n2 <= msg.to
  PROVE  Flight(Append(m, msg), v, n2) /\ Complete(Append(m, msg), v, n2)
  <1> DEFINE u == Append(m, msg)
             last == Len(m) + 1
  <1>1. m \in Seq(Message) /\ v \in View  BY DEF Flight
  <1>2. /\ u \in Seq(Message) /\ Len(m) \in Nat
        /\ DOMAIN m = 1..Len(m) /\ DOMAIN u = 1..last
        /\ \A k \in DOMAIN m : u[k] = m[k]
        /\ u[last] = msg
    BY <1>1, AppendFacts
  <1>3. /\ \A k \in DOMAIN u : k \in DOMAIN m \/ k = last
        /\ \A k \in DOMAIN m : k \in Nat /\ k < last
        /\ last \in DOMAIN u /\ last \in Nat
    BY <1>2
  <1>3a. \A k \in DOMAIN m : m[k].from \in Nat /\ m[k].to \in Nat
    BY <1>1, MessageBounds
  <1> HIDE DEF u, last
  <1>4. LastFrom(u, last)  BY <1>3 DEF LastFrom
  <1>5. HasLast(u)  BY <1>2, <1>3, <1>4 DEF HasLast
  <1>6. \A k \in DOMAIN u : u[k].t = "tick" => k \in DOMAIN m /\ u[k] = m[k]  BY <1>2, <1>3
  <1>7. Ordered(u, n2)  BY <1>3a, <1>6 DEF Flight, Ordered
  <1>8. TwiceBehind(v, u, n2)
    <2> SUFFICES ASSUME NEW i \in Change
                 PROVE  /\ v[i] <= 2
                        /\ v[i] = 2 => /\ i <= n2
                                       /\ \A k \in DOMAIN u : u[k].t = "tick" => i <= u[k].from
      BY DEF TwiceBehind
    <2>1. i \in Nat /\ v[i] <= 2  BY DEF Flight, TwiceBehind, Change
    <2>2. v[i] = 2 => i <= n /\ \A k \in DOMAIN m : m[k].t = "tick" => i <= m[k].from
      BY DEF Flight, TwiceBehind
    <2> QED BY <1>6, <2>1, <2>2
  <1>9. Complete(u, v, n2)
    <2> SUFFICES ASSUME NEW i \in Change, i <= n2  PROVE Reaches(u, v, i)
      BY DEF Complete
    <2>1. i \in Nat /\ i >= 1 /\ msg.to \in Nat  BY DEF Change, Message
    <2>2. Holds(u[last], i)  BY <1>2, <2>1 DEF Holds
    <2> QED BY <1>2, <1>3, <1>4, <2>2 DEF Reaches
  <1> QED BY <1>1, <1>2, <1>5, <1>7, <1>8, <1>9 DEF Flight, u

(* What is on its way loses its head, which the browser applies ... *)
LEMMA TailFacts ==
  ASSUME NEW m \in Seq(Message), m # <<>>
  PROVE  /\ Tail(m) \in Seq(Message) /\ Head(m) \in Message
         /\ 1 \in DOMAIN m /\ Head(m) = m[1] /\ DOMAIN m \subseteq Nat \ {0}
         /\ \A k \in DOMAIN Tail(m) : k \in Nat \ {0} /\ k + 1 \in DOMAIN m /\ Tail(m)[k] = m[k + 1]
         /\ \A k \in DOMAIN m : k = 1 \/ (k - 1 \in DOMAIN Tail(m) /\ Tail(m)[k - 1] = m[k])
  <1>1. /\ Len(m) \in Nat /\ Len(m) >= 1 /\ DOMAIN m = 1..Len(m)
        /\ Tail(m) \in Seq(Message) /\ Head(m) \in Message
        /\ Head(m) = m[1] /\ Len(Tail(m)) = Len(m) - 1 /\ DOMAIN Tail(m) = 1..(Len(m) - 1)
        /\ \A k \in 1..(Len(m) - 1) : Tail(m)[k] = m[k + 1]
    OBVIOUS
  <1>2. ASSUME NEW k \in DOMAIN m, k # 1
        PROVE  k - 1 \in DOMAIN Tail(m) /\ Tail(m)[k - 1] = m[k]
    <2>1. k - 1 \in 1..(Len(m) - 1) /\ (k - 1) + 1 = k  BY <1>1, <1>2
    <2> QED BY <1>1, <2>1
  <1>3. ASSUME NEW k \in DOMAIN Tail(m)
        PROVE  k \in Nat \ {0} /\ k + 1 \in DOMAIN m /\ Tail(m)[k] = m[k + 1]
    BY <1>1
  <1> QED BY <1>1, <1>2, <1>3

LEMMA TailLast ==
  ASSUME NEW m \in Seq(Message), m # <<>>
  PROVE  /\ \A k \in DOMAIN m : k # 1 /\ LastFrom(m, k) => LastFrom(Tail(m), k - 1)
         /\ LastFrom(m, 1) => LastFrom(Tail(m), 0)
         /\ LastFrom(m, 0) => LastFrom(Tail(m), 0) /\ m[1].t # "snapshot"
         /\ HasLast(m) => HasLast(Tail(m))
  <1> DEFINE u == Tail(m)
  <1>1. /\ 1 \in DOMAIN m /\ DOMAIN m \subseteq Nat \ {0}
        /\ \A k \in DOMAIN u : k \in Nat \ {0} /\ k + 1 \in DOMAIN m /\ u[k] = m[k + 1]
        /\ \A k \in DOMAIN m : k = 1 \/ (k - 1 \in DOMAIN u /\ u[k - 1] = m[k])
    BY TailFacts
  <1> HIDE DEF u
  <1>2. \A k \in DOMAIN m : k # 1 /\ LastFrom(m, k) => LastFrom(u, k - 1)
    <2> SUFFICES ASSUME NEW k \in DOMAIN m, LastFrom(m, k), NEW l \in DOMAIN u, l > k - 1
                 PROVE  u[l].t # "snapshot"
      BY DEF LastFrom
    <2>1. l + 1 \in DOMAIN m /\ l + 1 > k /\ u[l] = m[l + 1]  BY <1>1
    <2> QED BY <2>1 DEF LastFrom
  <1>3. LastFrom(m, 1) => LastFrom(u, 0)
    <2> SUFFICES ASSUME LastFrom(m, 1), NEW l \in DOMAIN u  PROVE u[l].t # "snapshot"
      BY DEF LastFrom
    <2>1. l + 1 \in DOMAIN m /\ l + 1 > 1 /\ u[l] = m[l + 1]  BY <1>1
    <2> QED BY <2>1 DEF LastFrom
  <1>4. LastFrom(m, 0) => LastFrom(m, 1) /\ m[1].t # "snapshot"  BY <1>1 DEF LastFrom
  <1>5. HasLast(m) => HasLast(u)
    <2>1. CASE LastFrom(m, 0)  BY <1>3, <1>4, <2>1 DEF HasLast
    <2>2. ASSUME NEW k \in DOMAIN m, m[k].t = "snapshot", LastFrom(m, k)  PROVE HasLast(u)
      <3>1. CASE k = 1  BY <1>3, <2>2, <3>1 DEF HasLast
      <3>2. CASE k # 1
        <4>1. k - 1 \in DOMAIN u /\ u[k - 1].t = "snapshot" /\ LastFrom(u, k - 1)
          BY <1>1, <1>2, <2>2, <3>2
        <4> QED BY <4>1 DEF HasLast
      <3> QED BY <3>1, <3>2
    <2> QED BY <2>1, <2>2 DEF HasLast
  <1> QED BY <1>2, <1>3, <1>4, <1>5 DEF u

(* ... or that is lost with the connection. *)
LEMMA FlightLoses ==
  ASSUME NEW m, NEW v, NEW n \in Nat, Flight(m, v, n), m # <<>>
  PROVE  Flight(Tail(m), v, n)
  <1> DEFINE u == Tail(m)
  <1>1. m \in Seq(Message) /\ v \in View  BY DEF Flight
  <1>2. /\ u \in Seq(Message) /\ DOMAIN m \subseteq Nat \ {0}
        /\ \A k \in DOMAIN u : k \in Nat \ {0} /\ k + 1 \in DOMAIN m /\ u[k] = m[k + 1]
    BY <1>1, TailFacts
  <1>3. HasLast(u)  BY <1>1, TailLast DEF Flight
  <1> HIDE DEF u
  <1>4. Ordered(u, n)
    <2>1. \A k \in DOMAIN u : u[k].t = "tick" => u[k].to <= n
      BY <1>2 DEF Flight, Ordered
    <2>2. ASSUME NEW k \in DOMAIN u, NEW l \in DOMAIN u, k < l, u[k].t = "tick", u[l].t = "tick"
          PROVE  u[k].to <= u[l].from
      <3>1. k + 1 \in DOMAIN m /\ l + 1 \in DOMAIN m /\ k + 1 < l + 1  BY <1>2, <2>2
      <3>2. m[k + 1].t = "tick" /\ m[l + 1].t = "tick"  BY <1>2, <2>2
      <3>3. m[k + 1].to <= m[l + 1].from  BY <3>1, <3>2 DEF Flight, Ordered
      <3> QED BY <1>2, <3>3
    <2> QED BY <2>1, <2>2 DEF Ordered
  <1>5. TwiceBehind(v, u, n)  BY <1>2 DEF Flight, TwiceBehind
  <1> QED BY <1>1, <1>2, <1>3, <1>4, <1>5 DEF Flight, u

LEMMA ApplyFacts ==
  ASSUME NEW v \in View, NEW msg \in Message
  PROVE  /\ Apply(v, msg) \in View
         /\ msg.t = "snapshot" => \A i \in Change : Apply(v, msg)[i] = Once(Holds(msg, i))
         /\ msg.t = "tick" => \A i \in Change : Apply(v, msg)[i] = v[i] + Once(Holds(msg, i))
         /\ msg.t \notin {"snapshot", "tick"} => Apply(v, msg) = v
  <1>1. \A i : Once(Holds(msg, i)) \in Nat  BY DEF Once
  <1>2. \A i \in Change : v[i] \in Nat  BY DEF View
  <1>3. CASE msg.t = "snapshot"
    <2>1. Apply(v, msg) = [i \in Change |-> Once(Holds(msg, i))]  BY <1>3 DEF Apply
    <2> QED BY <1>1, <1>3, <2>1 DEF View
  <1>4. CASE msg.t = "tick"
    <2>1. Apply(v, msg) = [i \in Change |-> v[i] + Once(Holds(msg, i))]  BY <1>4 DEF Apply
    <2>2. Apply(v, msg) \in View  BY <1>1, <1>2, <2>1 DEF View
    <2> QED BY <1>4, <2>1, <2>2
  <1>5. CASE msg.t \notin {"snapshot", "tick"}  BY <1>5 DEF Apply
  <1> QED BY <1>3, <1>4, <1>5

LEMMA FlightApplies ==
  ASSUME NEW m, NEW v, NEW n \in Nat, Flight(m, v, n), m # <<>>
  PROVE  /\ Flight(Tail(m), Apply(v, Head(m)), n)
         /\ Complete(m, v, n) => Complete(Tail(m), Apply(v, Head(m)), n)
  <1> DEFINE u == Tail(m)
             msg == Head(m)
             w == Apply(v, msg)
  <1>1. m \in Seq(Message) /\ v \in View  BY DEF Flight
  <1>2. /\ msg \in Message /\ 1 \in DOMAIN m /\ msg = m[1] /\ DOMAIN m \subseteq Nat \ {0}
        /\ \A k \in DOMAIN u : k \in Nat \ {0} /\ k + 1 \in DOMAIN m /\ u[k] = m[k + 1]
        /\ \A k \in DOMAIN m : k = 1 \/ (k - 1 \in DOMAIN u /\ u[k - 1] = m[k])
    BY <1>1, TailFacts
  <1>3. /\ w \in View
        /\ msg.t = "snapshot" => \A i \in Change : w[i] = Once(Holds(msg, i))
        /\ msg.t = "tick" => \A i \in Change : w[i] = v[i] + Once(Holds(msg, i))
        /\ msg.t \notin {"snapshot", "tick"} => w = v
    BY <1>1, <1>2, ApplyFacts
  <1>4. Flight(u, v, n)  BY FlightLoses
  <1>5. /\ \A k \in DOMAIN m : k # 1 /\ LastFrom(m, k) => LastFrom(u, k - 1)
        /\ LastFrom(m, 1) => LastFrom(u, 0)
        /\ LastFrom(m, 0) => LastFrom(u, 0) /\ m[1].t # "snapshot"
    BY <1>1, TailLast
  <1> HIDE DEF u, msg, w
  <1>6. \A i \in Change : i \in Nat /\ v[i] \in Nat  BY <1>1 DEF View, Change
  <1>7. \A i : Once(Holds(msg, i)) = IF Holds(msg, i) THEN 1 ELSE 0  BY DEF Once
  <1>8. TwiceBehind(w, u, n)
    <2> SUFFICES ASSUME NEW i \in Change
                 PROVE  /\ w[i] <= 2
                        /\ w[i] = 2 => /\ i <= n
                                       /\ \A k \in DOMAIN u : u[k].t = "tick" => i <= u[k].from
      BY DEF TwiceBehind
    <2>1. /\ v[i] <= 2
          /\ v[i] = 2 => /\ i <= n
                         /\ \A k \in DOMAIN u : u[k].t = "tick" => i <= u[k].from
      BY <1>4 DEF Flight, TwiceBehind
    <2>2. CASE msg.t = "snapshot"
      <3>1. w[i] \in {0, 1}  BY <1>3, <1>7, <2>2
      <3> QED BY <3>1
    <2>3. CASE msg.t = "tick"
      <3>1. v[i] = 2 => i <= msg.from  BY <1>2, <2>3 DEF Flight, TwiceBehind
      <3>2. msg.from \in Nat /\ msg.to \in Nat  BY <1>2 DEF Message
      <3>3. CASE Holds(msg, i)
        <4>1. w[i] = v[i] + 1 /\ v[i] # 2 /\ i <= msg.to
          BY <1>3, <1>6, <1>7, <2>3, <3>1, <3>2, <3>3 DEF Holds
        <4>2. msg.to <= n  BY <1>2, <2>3 DEF Flight, Ordered
        <4>3. \A k \in DOMAIN u : u[k].t = "tick" => msg.to <= u[k].from
          <5> SUFFICES ASSUME NEW k \in DOMAIN u, u[k].t = "tick"  PROVE msg.to <= u[k].from
            OBVIOUS
          <5>1. k + 1 \in DOMAIN m /\ 1 < k + 1 /\ m[k + 1].t = "tick" /\ u[k] = m[k + 1]
            BY <1>2
          <5>2. m[1].to <= m[k + 1].from  BY <1>2, <2>3, <5>1 DEF Flight, Ordered
          <5> QED BY <1>2, <5>1, <5>2
        <4>4. \A k \in DOMAIN u : u[k].from \in Nat  BY <1>4, MessageBounds DEF Flight
        <4> QED BY <1>6, <2>1, <3>2, <4>1, <4>2, <4>3, <4>4
      <3>4. CASE ~Holds(msg, i)
        <4>1. w[i] = v[i]  BY <1>3, <1>6, <1>7, <2>3, <3>4
        <4> QED BY <2>1, <4>1
      <3> QED BY <3>3, <3>4
    <2>4. CASE msg.t \notin {"snapshot", "tick"}  BY <1>3, <2>1, <2>4
    <2> QED BY <2>2, <2>3, <2>4
  <1>9. ASSUME Complete(m, v, n)  PROVE Complete(u, w, n)
    <2> SUFFICES ASSUME NEW i \in Change, i <= n  PROVE Reaches(u, w, i)
      BY DEF Complete
    <2>1. Reaches(m, v, i)  BY <1>9 DEF Complete
    <2>2. CASE v[i] >= 1 /\ LastFrom(m, 0)
      <3>1. LastFrom(u, 0) /\ msg.t # "snapshot"  BY <1>2, <1>5, <2>2
      <3>2. w[i] >= 1
        <4>1. CASE msg.t = "tick"
          <5>1. w[i] = v[i] + Once(Holds(msg, i))  BY <1>3, <4>1
          <5> QED BY <1>6, <1>7, <2>2, <5>1
        <4>2. CASE msg.t \notin {"snapshot", "tick"}  BY <1>3, <2>2, <4>2
        <4> QED BY <3>1, <4>1, <4>2
      <3> QED BY <3>1, <3>2 DEF Reaches
    <2>3. ASSUME NEW k \in DOMAIN m, m[k].t \in {"snapshot", "tick"}, Holds(m[k], i), LastFrom(m, k)
          PROVE  Reaches(u, w, i)
      <3>1. CASE k = 1
        <4>1. LastFrom(u, 0) /\ Holds(msg, i) /\ msg.t \in {"snapshot", "tick"}
          BY <1>2, <1>5, <2>3, <3>1
        <4>2. w[i] >= 1
          <5>1. CASE msg.t = "snapshot"
            <6>1. w[i] = 1  BY <1>3, <1>7, <4>1, <5>1
            <6> QED BY <6>1
          <5>2. CASE msg.t = "tick"
            <6>1. w[i] = v[i] + 1  BY <1>3, <1>7, <4>1, <5>2
            <6> QED BY <1>6, <6>1
          <5> QED BY <4>1, <5>1, <5>2
        <4> QED BY <4>1, <4>2 DEF Reaches
      <3>2. CASE k # 1
        <4>1. k - 1 \in DOMAIN u /\ u[k - 1] = m[k] /\ LastFrom(u, k - 1)
          BY <1>2, <1>5, <2>3, <3>2
        <4> QED BY <2>3, <4>1 DEF Reaches
      <3> QED BY <3>1, <3>2
    <2> QED BY <2>1, <2>2, <2>3 DEF Reaches
  <1>10. Flight(u, w, n)  BY <1>3, <1>4, <1>8 DEF Flight
  <1> QED BY <1>9, <1>10 DEF u, w, msg

(* More may be fanned out to others. *)
LEMMA FlightMore ==
  ASSUME NEW m, NEW v, NEW n \in Nat, Flight(m, v, n), NEW n2 \in Nat, n <= n2
  PROVE  Flight(m, v, n2)
  <1>1. \A k \in DOMAIN m : m[k].to \in Nat  BY MessageBounds DEF Flight
  <1>2. Ordered(m, n2)  BY <1>1 DEF Flight, Ordered
  <1>3. \A i \in Change : i \in Nat  BY DEF Change
  <1>4. TwiceBehind(v, m, n2)  BY <1>3 DEF Flight, TwiceBehind
  <1> QED BY <1>2, <1>4 DEF Flight

-----------------------------------------------------------------------------
(* The hub sends flights.                                                   *)

(* Everything up to this change has been fanned out. *)
Sent == IF run = "fanning" THEN delta.from ELSE taken

QueueTypes ==
  /\ changes \in Nat /\ taken \in Nat /\ taken <= changes
  /\ run = "fanning" => delta \in Message /\ delta.t = "tick" /\ delta.from <= taken /\ delta.to = taken
  /\ send \in [Clients -> Seq(Message)]
  /\ writing \in [Clients -> Message]
  /\ view \in [Clients -> View]
  /\ gap \in [Clients -> {"none", "refused", "joining"}]

(* A greeting is unread until its client is registered. *)
Greeted(c) ==
  handler[c] = "greeted" =>
    \E n \in Nat : send[c] = <<Hello, Snapshot(n)>>

Flies(c) == Flight(InFlight(c), view[c], Sent)

Joins(c) == handler[c] = "greeted" \/ c \in Served

Reached(c) == Joins(c) /\ gap[c] = "none" => Complete(InFlight(c), view[c], Sent)

ClientFlies(c) == Greeted(c) /\ Flies(c) /\ Reached(c)

FlightInv == HubInv /\ QueueTypes /\ \A c \in Clients : ClientFlies(c)

-----------------------------------------------------------------------------

LEMMA SentBounds ==
  ASSUME QueueTypes
  PROVE  Sent \in Nat /\ Sent <= taken /\ taken <= changes /\ changes \in Nat /\ taken \in Nat
  <1>1. CASE run = "fanning"  BY <1>1 DEF QueueTypes, Sent, Message
  <1>2. CASE run # "fanning"  BY <1>2 DEF QueueTypes, Sent
  <1> QED BY <1>1, <1>2

(* A message that is being written is ahead of the queue. *)
LEMMA ConsFacts ==
  ASSUME NEW s \in Seq(Message), NEW msg \in Message
  PROVE  /\ <<msg>> \o s \in Seq(Message) /\ <<msg>> \o s # <<>> /\ <<>> \o s = s
         /\ Head(<<msg>> \o s) = msg /\ Tail(<<msg>> \o s) = s
         /\ \A x \in Message : Append(<<msg>> \o s, x) = <<msg>> \o Append(s, x)
         /\ s # <<>> => <<Head(s)>> \o Tail(s) = s
  <1>1. <<msg>> \o s \in Seq(Message) /\ <<msg>> \o s # <<>>
    OBVIOUS
  <1>2. Head(<<msg>> \o s) = msg
    OBVIOUS
  <1>3. Tail(<<msg>> \o s) = s
    OBVIOUS
  <1>4. ASSUME NEW x \in Message
        PROVE  Append(<<msg>> \o s, x) = <<msg>> \o Append(s, x)
    <2>1. Append(<<msg>> \o s, x) = (<<msg>> \o s) \o <<x>> /\ Append(s, x) = s \o <<x>>
      BY <1>1, AppendIsConcat
    <2>2. (<<msg>> \o s) \o <<x>> = <<msg>> \o (s \o <<x>>)
      BY ConcatAssociative
    <2> QED BY <2>1, <2>2
  <1>5. s # <<>> => <<Head(s)>> \o Tail(s) = s
    BY HeadTailProperties
  <1>6. <<>> \o s = s
    BY ConcatEmptySeq
  <1> QED BY <1>1, <1>2, <1>3, <1>4, <1>5, <1>6

LEMMA InFlightIs ==
  ASSUME QueueTypes, NEW c \in Clients
  PROVE  /\ handler[c] = "writing" =>
              /\ InFlight(c) = <<writing[c]>> \o send[c]
              /\ InFlight(c) # <<>> /\ Head(InFlight(c)) = writing[c] /\ Tail(InFlight(c)) = send[c]
         /\ handler[c] # "writing" => InFlight(c) = send[c]
         /\ \A x \in Message : Append(InFlight(c), x) =
              (IF handler[c] = "writing" THEN <<writing[c]>> ELSE <<>>) \o Append(send[c], x)
  <1>1. send[c] \in Seq(Message) /\ writing[c] \in Message  BY DEF QueueTypes
  <1>2. CASE handler[c] = "writing"  BY <1>1, <1>2, ConsFacts DEF InFlight
  <1>3. CASE handler[c] # "writing"
    <2>1. InFlight(c) = send[c]  BY <1>1, <1>3, ConsFacts DEF InFlight
    <2>2. \A x \in Message : <<>> \o Append(send[c], x) = Append(send[c], x)
      BY <1>1, ConsFacts
    <2> QED BY <1>3, <2>1, <2>2
  <1> QED BY <1>2, <1>3

(* What is true of a client stays so while its own handler is not scheduled *)
(* and nothing is fanned out; it may be taken out by the shutdown.          *)
LEMMA OthersFly ==
  ASSUME NEW c \in Clients, ClientFlies(c), Sent' = Sent,
         handler'[c] = handler[c], send'[c] = send[c], writing'[c] = writing[c],
         view'[c] = view[c], gap'[c] = gap[c], c \in registered' => c \in registered
  PROVE  ClientFlies(c)'
  <1>1. InFlight(c)' = InFlight(c)  BY DEF InFlight
  <1>2. Greeted(c)'  BY DEF ClientFlies, Greeted, Hello, Snapshot
  <1>3. Flies(c)'  BY <1>1 DEF ClientFlies, Flies
  <1>4. Joins(c)' => Joins(c)  BY DEF Joins, Served
  <1>5. Reached(c)'  BY <1>1, <1>4 DEF ClientFlies, Reached
  <1> QED BY <1>2, <1>3, <1>5 DEF ClientFlies

(* The greeting holds all there is. *)
LEMMA GreetingFlies ==
  ASSUME NEW n \in Nat, NEW n2 \in Nat, n <= n2
  PROVE  /\ Flight(<<Hello, Snapshot(n2)>>, Nothing, n)
         /\ \A v : Complete(<<Hello, Snapshot(n2)>>, v, n)
  <1> DEFINE m == <<Hello, Snapshot(n2)>>
  <1>1. /\ m \in Seq(Message) /\ DOMAIN m = {1, 2}
        /\ m[1] = Hello /\ m[2] = Snapshot(n2)
    BY DEF Hello, Snapshot, Message
  <1>2. /\ m[1].t = "hello" /\ m[2].t = "snapshot" /\ m[2].from = 0 /\ m[2].to = n2
    BY <1>1 DEF Hello, Snapshot
  <1> HIDE DEF m
  <1>3. \A i \in Change : i \in Nat /\ i >= 1 /\ Nothing[i] = 0  BY DEF Nothing, Change
  <1>4. Nothing \in View  BY DEF Nothing, View
  <1>5. LastFrom(m, 2)  BY <1>1 DEF LastFrom
  <1>6. HasLast(m)  BY <1>1, <1>2, <1>5 DEF HasLast
  <1>7. Ordered(m, n)  BY <1>1, <1>2 DEF Ordered
  <1>8. TwiceBehind(Nothing, m, n)  BY <1>3 DEF TwiceBehind
  <1>9. \A v : Complete(m, v, n)
    <2>1. \A i \in Change : i <= n => Holds(m[2], i)  BY <1>2, <1>3 DEF Holds
    <2> QED BY <1>1, <1>2, <1>5, <2>1 DEF Complete, Reaches
  <1> QED BY <1>1, <1>4, <1>6, <1>7, <1>8, <1>9 DEF Flight, m

-----------------------------------------------------------------------------

LEMMA FlightInvInit == Init => FlightInv
  <1> SUFFICES ASSUME Init  PROVE FlightInv
    OBVIOUS
  <1>1. HubInv  BY HubInvInit
  <1>2. QueueTypes
    BY DEF Init, QueueTypes, NoMessage, Message, Nothing, View
  <1>3. ASSUME NEW c \in Clients  PROVE ClientFlies(c)
    <2>1. handler[c] = "away" /\ send[c] = <<>> /\ view[c] = Nothing /\ c \notin registered
      BY DEF Init
    <2>2. InFlight(c) = <<>>  BY <1>2, <2>1, InFlightIs
    <2>3. Sent \in Nat  BY <1>2, SentBounds
    <2>4. Flight(<<>>, Nothing, Sent)
      BY DEF Flight, Nothing, View, HasLast, LastFrom, Ordered, TwiceBehind, Message, Change
    <2> QED BY <2>1, <2>2, <2>4 DEF ClientFlies, Greeted, Flies, Reached, Joins, Served
  <1> QED BY <1>1, <1>2, <1>3 DEF FlightInv

(* The source, the ticker and the shutdown touch nobody's queue. *)
LEMMA SourceFlies ==
  ASSUME FlightInv, Ingest \/ TakeDelta \/ Shutdown \/ UNCHANGED vars
  PROVE  QueueTypes' /\ \A c \in Clients : ClientFlies(c)'
  <1>1. /\ UNCHANGED <<send, handler, writing, view, gap>>
        /\ registered' \subseteq registered
    BY DEF Ingest, TakeDelta, Shutdown, vars, clientVars, handlerVars
  <1>2. QueueTypes' /\ Sent' = Sent
    <2>1. /\ send' \in [Clients -> Seq(Message)] /\ writing' \in [Clients -> Message]
          /\ view' \in [Clients -> View] /\ gap' \in [Clients -> {"none", "refused", "joining"}]
      BY <1>1 DEF FlightInv, QueueTypes
    <2>2. CASE Ingest
      <3>1. /\ changes' = changes + 1 /\ UNCHANGED <<taken, run, delta>>
        BY <2>2 DEF Ingest
      <3>2. changes' \in Nat /\ taken' \in Nat /\ taken' <= changes'
        BY <3>1 DEF FlightInv, QueueTypes
      <3> QED BY <2>1, <3>1, <3>2 DEF FlightInv, QueueTypes, Sent
    <2>3. CASE TakeDelta
      <3>1. /\ run # "fanning" /\ run' = "fanning" /\ delta' = TickMessage(taken, changes)
            /\ taken' = changes /\ changes' = changes
        BY <2>3 DEF TakeDelta
      <3>2. changes \in Nat /\ taken \in Nat /\ taken <= changes
        BY DEF FlightInv, QueueTypes
      <3>3. /\ delta' \in Message /\ delta'.t = "tick" /\ delta'.from = taken /\ delta'.to = changes
        BY <3>1, <3>2 DEF TickMessage, Message
      <3>4. changes <= changes  BY <3>2
      <3> QED BY <2>1, <3>1, <3>2, <3>3, <3>4 DEF QueueTypes, Sent
    <2>4. CASE Shutdown
      <3>1. /\ run # "fanning" /\ run' # "fanning" /\ UNCHANGED <<changes, taken>>
        BY <2>4 DEF Shutdown
      <3> QED BY <2>1, <3>1 DEF FlightInv, QueueTypes, Sent
    <2>5. CASE UNCHANGED vars
      BY <2>5 DEF vars, hubVars, clientVars, handlerVars, FlightInv, QueueTypes, Sent
    <2> QED BY <2>2, <2>3, <2>4, <2>5
  <1> QED BY <1>1, <1>2, OthersFly DEF FlightInv

(* The fan-out: an offer is taken, or refused, or not made. *)
LEMMA FanOutFlies ==
  ASSUME FlightInv, FanOut
  PROVE  QueueTypes' /\ \A c \in Clients : ClientFlies(c)'
  <1>1. /\ run = "fanning" /\ run' = "idle"
        /\ UNCHANGED <<changes, taken, registered, handler, writing, view>>
        /\ send' = [c \in Clients |-> IF c \in registered /\ HasRoom(c)
                                      THEN Append(send[c], Offered(c)) ELSE send[c]]
        /\ gap' = [c \in Clients |-> Gap(c)]
    BY DEF FanOut, handlerVars
  <1>2. /\ delta \in Message /\ delta.t = "tick" /\ delta.from = Sent /\ delta.to = taken
        /\ Sent' = taken
    BY <1>1 DEF FlightInv, QueueTypes, Sent
  <1>3. Sent \in Nat /\ Sent <= taken /\ taken <= changes /\ changes \in Nat /\ taken \in Nat
    BY SentBounds DEF FlightInv
  <1>4. Snapshot(changes) \in Message /\ Snapshot(changes).t = "snapshot"
        /\ Snapshot(changes).from = 0 /\ Snapshot(changes).to = changes
    BY <1>3 DEF Snapshot, Message
  <1>5. \A c \in Clients : Offered(c) \in Message  BY <1>2, <1>4 DEF Offered
  <1>6. QueueTypes'
    <2>1. send' \in [Clients -> Seq(Message)]  BY <1>1, <1>5 DEF FlightInv, QueueTypes
    <2>2. gap' \in [Clients -> {"none", "refused", "joining"}]
      BY <1>1 DEF Gap, FlightInv, QueueTypes
    <2> QED BY <1>1, <2>1, <2>2 DEF FlightInv, QueueTypes
  <1>7. ASSUME NEW c \in Clients  PROVE ClientFlies(c)'
    <2>1. ClientFlies(c) /\ Flight(InFlight(c), view[c], Sent)
      BY DEF FlightInv, ClientFlies, Flies
    <2>2. Joins(c)' = Joins(c)  BY <1>1 DEF Joins, Served
    <2>3. gap'[c] = Gap(c)  BY <1>1
    <2>4. c \in registered => handler[c] \in {"serving", "writing", "leaving"}
      BY DEF FlightInv, HubInv, Owned
    <2>5. CASE c \in registered /\ HasRoom(c)
      <3>1. send'[c] = Append(send[c], Offered(c))  BY <1>1, <2>5
      <3>2. InFlight(c)' = Append(InFlight(c), Offered(c))
        <4>1. InFlight(c)' = (IF handler[c] = "writing" THEN <<writing[c]>> ELSE <<>>) \o send'[c]
          BY <1>1 DEF InFlight
        <4> QED BY <1>5, <3>1, <4>1, InFlightIs DEF FlightInv
      <3>3. Greeted(c)'  BY <1>1, <2>4, <2>5 DEF Greeted
      <3>4. CASE resync[c]
        <4>1. Offered(c) = Snapshot(changes)  BY <3>4 DEF Offered
        <4>2. /\ Flight(Append(InFlight(c), Snapshot(changes)), view[c], taken)
              /\ Complete(Append(InFlight(c), Snapshot(changes)), view[c], taken)
          BY <1>3, <1>4, <2>1, FlightSnapshot
        <4> QED BY <1>1, <1>2, <3>2, <3>3, <4>1, <4>2 DEF ClientFlies, Flies, Reached
      <3>5. CASE ~resync[c]
        <4>1. Offered(c) = delta  BY <3>5 DEF Offered
        <4>2. /\ Flight(Append(InFlight(c), delta), view[c], taken)
              /\ Complete(InFlight(c), view[c], Sent)
                   => Complete(Append(InFlight(c), delta), view[c], taken)
          BY <1>2, <1>3, <2>1, FlightTick
        <4>3. gap'[c] = gap[c]  BY <2>3, <2>4, <2>5, <3>5 DEF Gap
        <4>4. Reached(c)'
          BY <1>1, <1>2, <2>1, <2>2, <3>2, <4>1, <4>2, <4>3 DEF ClientFlies, Reached
        <4> QED BY <1>1, <1>2, <3>2, <3>3, <4>1, <4>2, <4>4 DEF ClientFlies, Flies
      <3> QED BY <3>4, <3>5
    <2>6. CASE ~(c \in registered /\ HasRoom(c))
      <3>1. send'[c] = send[c]  BY <1>1, <2>6
      <3>2. InFlight(c)' = InFlight(c)  BY <1>1, <3>1 DEF InFlight
      <3>3. Greeted(c)'  BY <1>1, <2>1, <3>1 DEF ClientFlies, Greeted, Hello, Snapshot
      <3>4. Flies(c)'  BY <1>1, <1>2, <1>3, <2>1, <3>2, FlightMore DEF Flies
      <3>5. CASE c \in registered
        <4>1. ~HasRoom(c)  BY <2>6, <3>5
        <4>2. handler[c] # "greeted"  BY <2>4, <3>5
        <4>3. Gap(c) = "refused"  BY <3>5, <4>1, <4>2, Zenon DEF Gap
        <4> QED BY <2>3, <3>3, <3>4, <4>3 DEF ClientFlies, Reached
      <3>6. CASE c \notin registered /\ handler[c] = "greeted"
        <4>1. PICK n \in Nat : send[c] = <<Hello, Snapshot(n)>>
          BY <2>1, <3>6 DEF ClientFlies, Greeted
        <4>2. send[c][2].to = n  BY <4>1 DEF Snapshot
        <4>3. InFlight(c) = send[c]  BY <3>6, InFlightIs DEF FlightInv
        <4>4. gap'[c] = "none" => taken <= n
          <5>1. CASE taken > n
            <6>1. gap'[c] = "joining"  BY <1>2, <2>3, <3>6, <4>2, <5>1 DEF Gap
            <6> QED BY <6>1
          <5> QED BY <1>3, <5>1
        <4>5. taken <= n => Complete(<<Hello, Snapshot(n)>>, view[c], taken)
          BY <1>3, GreetingFlies
        <4>6. Reached(c)'  BY <1>1, <1>2, <3>2, <4>1, <4>3, <4>4, <4>5 DEF Reached
        <4> QED BY <3>3, <3>4, <4>6 DEF ClientFlies
      <3>7. CASE c \notin registered /\ handler[c] # "greeted"
        <4>1. ~Joins(c)  BY <3>7 DEF Joins, Served
        <4> QED BY <2>2, <3>3, <3>4, <4>1 DEF ClientFlies, Reached
      <3> QED BY <3>5, <3>6, <3>7
    <2> QED BY <2>5, <2>6
  <1> QED BY <1>6, <1>7

(* The handler of the client itself. *)
LEMMA HandlerFlies ==
  ASSUME FlightInv, NEW c \in Clients, Connect(c) \/ Serve(c) \/ BrowserLeaves(c)
  PROVE  QueueTypes' /\ ClientFlies(c)'
  <1>1. QueueTypes /\ ClientFlies(c) /\ Flight(InFlight(c), view[c], Sent)
        /\ Greeted(c) /\ Reached(c)
    BY DEF FlightInv, ClientFlies, Flies
  <1>2. /\ UNCHANGED <<changes, taken, run, delta>>
        /\ Sent' = Sent
    BY DEF Connect, Serve, Register, Receive, Stop, Written, WriteFails, Leave, BrowserLeaves,
           hubVars, Sent
  <1>3. Sent \in Nat /\ Sent <= taken /\ taken <= changes /\ changes \in Nat /\ taken \in Nat
    BY <1>1, SentBounds
  <1>4. /\ send \in [Clients -> Seq(Message)] /\ writing \in [Clients -> Message]
        /\ view \in [Clients -> View] /\ gap \in [Clients -> {"none", "refused", "joining"}]
        /\ handler \in [Clients -> {"away", "greeted", "serving", "writing", "leaving"}]
    BY DEF FlightInv, QueueTypes, HubInv, TypeInv
  <1>5. /\ send' \in [Clients -> Seq(Message)] /\ writing' \in [Clients -> Message]
        /\ view' \in [Clients -> View] /\ gap' \in [Clients -> {"none", "refused", "joining"}]
        => QueueTypes'
    BY <1>1, <1>2 DEF QueueTypes
  <1>6. CASE Connect(c)
    <2>1. /\ handler'[c] = "greeted" /\ send'[c] = <<Hello, Snapshot(changes)>> /\ view'[c] = Nothing
      BY <1>4, <1>6 DEF Connect
    <2>2. <<Hello, Snapshot(changes)>> \in Seq(Message)
      BY <1>3 DEF Hello, Snapshot, Message
    <2>3. QueueTypes'
      <3>1. Nothing \in View  BY DEF Nothing, View
      <3> QED BY <1>4, <1>5, <1>6, <2>2, <3>1 DEF Connect
    <2>4. InFlight(c)' = <<Hello, Snapshot(changes)>>
      BY <2>1, <2>2, ConcatEmptySeq DEF InFlight
    <2>5. /\ Flight(<<Hello, Snapshot(changes)>>, Nothing, Sent)
          /\ Complete(<<Hello, Snapshot(changes)>>, Nothing, Sent)
      <3>1. Sent <= changes  BY <1>3
      <3> QED BY <1>3, <3>1, GreetingFlies
    <2>6. Greeted(c)'  BY <1>2, <1>3, <2>1 DEF Greeted, Hello, Snapshot
    <2> QED BY <1>2, <2>1, <2>3, <2>4, <2>5, <2>6 DEF ClientFlies, Flies, Reached
  <1>7. CASE Register(c)
    <2>1. /\ handler[c] = "greeted" /\ handler'[c] = "serving"
          /\ UNCHANGED <<send, writing, view, gap>>
      BY <1>4, <1>7 DEF Register
    <2>2. InFlight(c)' = InFlight(c)  BY <2>1 DEF InFlight
    <2>3. Joins(c)  BY <2>1 DEF Joins
    <2>4. Reached(c)'  BY <1>1, <1>2, <2>1, <2>2, <2>3 DEF Reached
    <2> QED BY <1>1, <1>2, <1>4, <1>5, <2>1, <2>2, <2>4 DEF ClientFlies, Greeted, Flies
  <1>8. CASE Receive(c)
    <2>1. /\ handler[c] = "serving" /\ send[c] # <<>>
          /\ handler'[c] = "writing" /\ writing'[c] = Head(send[c]) /\ send'[c] = Tail(send[c])
          /\ UNCHANGED <<registered, view, gap>>
      BY <1>4, <1>8 DEF Receive
    <2>2. send[c] \in Seq(Message)  BY <1>4
    <2>3. Head(send[c]) \in Message /\ Tail(send[c]) \in Seq(Message)
      BY <2>1, <2>2, HeadTailProperties
    <2>4. QueueTypes'  BY <1>4, <1>5, <1>8, <2>3 DEF Receive
    <2>5. InFlight(c)' = InFlight(c)
      <3>1. <<Head(send[c])>> \o Tail(send[c]) = send[c]  BY <2>1, <2>2, <2>3, ConsFacts
      <3>2. InFlight(c) = send[c]  BY <1>1, <2>1, InFlightIs
      <3> QED BY <2>1, <3>1, <3>2 DEF InFlight
    <2>6. Joins(c)' => Joins(c)  BY <2>1 DEF Joins, Served
    <2> QED BY <1>1, <1>2, <2>1, <2>4, <2>5, <2>6 DEF ClientFlies, Greeted, Flies, Reached
  <1>9. CASE Stop(c)
    <2>1. /\ handler[c] = "serving" /\ handler'[c] = "leaving"
          /\ UNCHANGED <<registered, send, writing, view, gap>>
      BY <1>4, <1>9 DEF Stop, clientVars
    <2>2. InFlight(c)' = InFlight(c)  BY <2>1 DEF InFlight
    <2>3. ~Joins(c)'  BY <2>1 DEF Joins, Served
    <2> QED BY <1>1, <1>2, <1>4, <1>5, <2>1, <2>2, <2>3 DEF ClientFlies, Greeted, Flies, Reached
  <1>10. CASE Written(c)
    <2>1. /\ handler[c] = "writing" /\ handler'[c] = "serving"
          /\ view'[c] = Apply(view[c], writing[c])
          /\ UNCHANGED <<registered, send, gap>>
      BY <1>4, <1>10 DEF Written, clientVars
    <2>2. /\ InFlight(c) # <<>> /\ Head(InFlight(c)) = writing[c] /\ Tail(InFlight(c)) = send[c]
      BY <1>1, <2>1, InFlightIs
    <2>3. Apply(view[c], writing[c]) \in View  BY <1>4, ApplyFacts
    <2>4. QueueTypes'
      <3>1. NoMessage \in Message  BY DEF NoMessage, Message
      <3> QED BY <1>4, <1>5, <1>10, <2>3, <3>1 DEF Written, clientVars
    <2>5. InFlight(c)' = send[c]
      <3>1. send[c] \in Seq(Message)  BY <1>4
      <3> QED BY <2>1, <3>1, ConcatEmptySeq DEF InFlight
    <2>6. /\ Flight(send[c], Apply(view[c], writing[c]), Sent)
          /\ Complete(InFlight(c), view[c], Sent)
               => Complete(send[c], Apply(view[c], writing[c]), Sent)
      BY <1>1, <1>3, <2>2, FlightApplies
    <2>7. Joins(c)' => Joins(c)  BY <2>1 DEF Joins, Served
    <2>8. Reached(c)'  BY <1>1, <1>2, <2>1, <2>5, <2>6, <2>7 DEF Reached
    <2> QED BY <1>2, <2>1, <2>4, <2>5, <2>6, <2>8 DEF ClientFlies, Greeted, Flies
  <1>11. CASE WriteFails(c)
    <2>1. /\ handler[c] = "writing" /\ handler'[c] = "leaving"
          /\ UNCHANGED <<registered, send, view, gap>>
      BY <1>4, <1>11 DEF WriteFails, clientVars
    <2>2. InFlight(c) # <<>> /\ Tail(InFlight(c)) = send[c]
      BY <1>1, <2>1, InFlightIs
    <2>3. QueueTypes'
      <3>1. NoMessage \in Message  BY DEF NoMessage, Message
      <3> QED BY <1>4, <1>5, <1>11, <3>1 DEF WriteFails, clientVars
    <2>4. InFlight(c)' = send[c]
      <3>1. send[c] \in Seq(Message)  BY <1>4
      <3> QED BY <2>1, <3>1, ConcatEmptySeq DEF InFlight
    <2>5. Flight(send[c], view[c], Sent)  BY <1>1, <1>3, <2>2, FlightLoses
    <2>6. ~Joins(c)'  BY <2>1 DEF Joins, Served
    <2> QED BY <1>2, <2>1, <2>3, <2>4, <2>5, <2>6 DEF ClientFlies, Greeted, Flies, Reached
  <1>12. CASE Leave(c)
    <2>1. /\ handler'[c] = "away" /\ send'[c] = <<>> /\ registered' = registered \ {c}
          /\ UNCHANGED <<view, gap, writing>>
      BY <1>4, <1>12 DEF Leave
    <2>2. QueueTypes'  BY <1>4, <1>5, <1>12 DEF Leave
    <2>3. InFlight(c)' = <<>>
      <3>1. <<>> \o <<>> = <<>>  BY EmptySeq, ConcatEmptySeq
      <3> QED BY <2>1, <3>1 DEF InFlight
    <2>4. Flight(<<>>, view[c], Sent)
      BY <1>1 DEF Flight, HasLast, LastFrom, Ordered, TwiceBehind
    <2>5. ~Joins(c)'  BY <2>1 DEF Joins, Served
    <2> QED BY <1>2, <2>1, <2>2, <2>3, <2>4, <2>5 DEF ClientFlies, Greeted, Flies, Reached
  <1>13. CASE BrowserLeaves(c)
    <2>1. UNCHANGED <<registered, send, handler, writing, view, gap>>
      BY <1>13 DEF BrowserLeaves, clientVars
    <2> QED BY <1>1, <1>2, <1>4, <1>5, <2>1, OthersFly
  <1> QED BY <1>6, <1>7, <1>8, <1>9, <1>10, <1>11, <1>12, <1>13 DEF Serve

LEMMA FlightInvNext == FlightInv /\ [Next]_vars => FlightInv'
  <1> SUFFICES ASSUME FlightInv, [Next]_vars  PROVE FlightInv'
    OBVIOUS
  <1>1. HubInv'  BY HubInvNext DEF FlightInv
  <1>2. CASE Ingest \/ TakeDelta \/ Shutdown \/ UNCHANGED vars
    BY <1>1, <1>2, SourceFlies DEF FlightInv
  <1>3. CASE FanOut  BY <1>1, <1>3, FanOutFlies DEF FlightInv
  <1>4. ASSUME NEW c \in Clients, Connect(c) \/ Serve(c) \/ BrowserLeaves(c)
        PROVE  FlightInv'
    <2>1. QueueTypes' /\ ClientFlies(c)'  BY <1>4, HandlerFlies
    <2>2. ASSUME NEW d \in Clients, d # c  PROVE ClientFlies(d)'
      <3>1. UNCHANGED hubVars
        BY <1>4 DEF Connect, Serve, Register, Receive, Stop, Written, WriteFails, Leave, BrowserLeaves
      <3>2. Sent' = Sent  BY <3>1 DEF hubVars, Sent
      <3>3. /\ handler'[d] = handler[d] /\ send'[d] = send[d] /\ writing'[d] = writing[d]
            /\ view'[d] = view[d] /\ gap'[d] = gap[d] /\ (d \in registered' => d \in registered)
        BY <1>4, <2>2 DEF Connect, Serve, Register, Receive, Stop, Written, WriteFails, Leave,
                          BrowserLeaves, clientVars, FlightInv, HubInv, TypeInv, QueueTypes
      <3>4. ClientFlies(d)  BY DEF FlightInv
      <3> QED BY <3>2, <3>3, <3>4, OthersFly
    <2> QED BY <1>1, <2>1, <2>2 DEF FlightInv
  <1> QED BY <1>2, <1>3, <1>4 DEF Next

LEMMA FlightInvAlways == Spec => []FlightInv
  <1> QED BY FlightInvInit, FlightInvNext, PTL DEF Spec

-----------------------------------------------------------------------------
(* What the properties count of a flight.                                   *)

Snapshots(m) == {k \in DOMAIN m : m[k].t = "snapshot"}

TicksAfter(m, last, i) == {k \in DOMAIN m : k > last /\ m[k].t = "tick" /\ Holds(m[k], i)}

(* The last snapshot of a flight, as WillApply picks it, is followed by none. *)
LEMMA LastFacts ==
  ASSUME NEW m \in Seq(Message), HasLast(m), NEW last,
         last = IF Snapshots(m) = {} THEN 0
                ELSE CHOOSE k \in Snapshots(m) : \A j \in Snapshots(m) : j <= k
  PROVE  /\ last \in Nat /\ LastFrom(m, last)
         /\ last # 0 => last \in DOMAIN m /\ m[last].t = "snapshot"
         /\ \A k \in DOMAIN m : m[k].t = "snapshot" => k <= last
  <1>1. DOMAIN m \subseteq Nat \ {0}
    OBVIOUS
  <1>2. CASE Snapshots(m) = {}
    <2>1. last = 0  BY <1>2
    <2> QED BY <1>2, <2>1 DEF Snapshots, LastFrom
  <1>3. CASE Snapshots(m) # {}
    <2>1. ~LastFrom(m, 0)  BY <1>1, <1>3 DEF Snapshots, LastFrom
    <2>2. PICK k \in DOMAIN m : m[k].t = "snapshot" /\ LastFrom(m, k)  BY <2>1 DEF HasLast
    <2>3. k \in Snapshots(m) /\ \A j \in Snapshots(m) : j <= k
      BY <1>1, <2>2 DEF Snapshots, LastFrom
    <2>4. last \in Snapshots(m) /\ \A j \in Snapshots(m) : j <= last
      BY <1>3, <2>3
    <2>5. last \in DOMAIN m /\ m[last].t = "snapshot" /\ last \in Nat
      BY <1>1, <2>4 DEF Snapshots
    <2>6. \A l \in DOMAIN m : m[l].t = "snapshot" => l <= last
      BY <2>4 DEF Snapshots
    <2>7. LastFrom(m, last)
      <3> SUFFICES ASSUME NEW l \in DOMAIN m, l > last, m[l].t = "snapshot"  PROVE FALSE
        BY DEF LastFrom
      <3>1. l <= last  BY <2>6
      <3> QED BY <1>1, <2>5, <3>1
    <2> QED BY <2>5, <2>6, <2>7
  <1> QED BY <1>2, <1>3

(* No change is in two ticks of a flight. *)
LEMMA OneTick ==
  ASSUME NEW m \in Seq(Message), NEW n \in Nat, Ordered(m, n), NEW i \in Nat, NEW last
  PROVE  /\ Cardinality(TicksAfter(m, last, i)) \in {0, 1}
         /\ TicksAfter(m, last, i) # {} => Cardinality(TicksAfter(m, last, i)) = 1
  <1> DEFINE K == TicksAfter(m, last, i)
  <1>1. ASSUME NEW k \in K, NEW l \in K, k < l  PROVE FALSE
    <2>1. /\ k \in DOMAIN m /\ l \in DOMAIN m /\ m[k].t = "tick" /\ m[l].t = "tick"
          /\ i <= m[k].to /\ m[l].from < i
      BY DEF TicksAfter, Holds
    <2>2. m[k].to <= m[l].from  BY <1>1, <2>1 DEF Ordered
    <2>3. m[k].to \in Nat /\ m[l].from \in Nat  BY <2>1, MessageBounds
    <2> QED BY <2>1, <2>2, <2>3
  <1>2. \A k \in K : k \in Nat
    <2>1. DOMAIN m \subseteq Nat
      OBVIOUS
    <2> QED BY <2>1 DEF TicksAfter
  <1> HIDE DEF K
  <1>3. \A k, l \in K : k = l
    <2> SUFFICES ASSUME NEW k \in K, NEW l \in K  PROVE k = l
      OBVIOUS
    <2>1. ~(k < l) /\ ~(l < k)  BY <1>1
    <2> QED BY <1>2, <2>1
  <1>4. CASE K = {}  BY <1>4, FS_EmptySet DEF K
  <1>5. CASE K # {}
    <2>1. PICK k : k \in K  BY <1>5
    <2>2. K = {k}  BY <1>3, <2>1
    <2>3. Cardinality(K) = 1  BY <2>2, FS_Singleton
    <2> QED BY <2>3 DEF K
  <1> QED BY <1>4, <1>5

(* WillApply in terms of the flight. *)
LEMMA WillApplyIs ==
  ASSUME NEW c \in Clients, NEW i \in Change, NEW n \in Nat, Flight(InFlight(c), view[c], n)
  PROVE  \E last \in Nat :
           /\ LastFrom(InFlight(c), last)
           /\ last # 0 => last \in DOMAIN InFlight(c) /\ InFlight(c)[last].t = "snapshot"
           /\ \A k \in DOMAIN InFlight(c) : InFlight(c)[k].t = "snapshot" => k <= last
           /\ WillApply(c, i) = (IF last = 0 THEN view[c][i] ELSE Once(Holds(InFlight(c)[last], i)))
                                + Cardinality(TicksAfter(InFlight(c), last, i))
  <1> DEFINE m == InFlight(c)
             last == IF Snapshots(m) = {} THEN 0
                     ELSE CHOOSE k \in Snapshots(m) : \A j \in Snapshots(m) : j <= k
  <1>1. m \in Seq(Message) /\ HasLast(m)  BY DEF Flight
  <1>2. WillApply(c, i) = (IF last = 0 THEN view[c][i] ELSE Once(Holds(m[last], i)))
                          + Cardinality(TicksAfter(m, last, i))
    BY DEF WillApply, Snapshots, TicksAfter
  <1> HIDE DEF m
  <1>3. /\ last \in Nat /\ LastFrom(m, last)
        /\ last # 0 => last \in DOMAIN m /\ m[last].t = "snapshot"
        /\ \A k \in DOMAIN m : m[k].t = "snapshot" => k <= last
    BY <1>1, LastFacts
  <1> HIDE DEF last
  <1> QED BY <1>2, <1>3 DEF m

LEMMA FlightCountsTwice ==
  ASSUME NEW c \in Clients, NEW i \in Change, NEW n \in Nat, Flight(InFlight(c), view[c], n)
  PROVE  WillApply(c, i) <= 2
  <1> DEFINE m == InFlight(c)
             v == view[c]
  <1>1. m \in Seq(Message) /\ v \in View /\ Ordered(m, n) /\ TwiceBehind(v, m, n)
    BY DEF Flight
  <1>2. PICK last \in Nat :
          /\ LastFrom(m, last)
          /\ WillApply(c, i) = (IF last = 0 THEN v[i] ELSE Once(Holds(m[last], i)))
                               + Cardinality(TicksAfter(m, last, i))
    BY WillApplyIs
  <1> HIDE DEF m, v
  <1>3. i \in Nat /\ v[i] \in Nat  BY <1>1 DEF Change, View
  <1>4. /\ Cardinality(TicksAfter(m, last, i)) \in {0, 1}
        /\ TicksAfter(m, last, i) # {} => Cardinality(TicksAfter(m, last, i)) = 1
    BY <1>1, <1>3, OneTick
  <1>5. CASE last # 0
    <2>1. Once(Holds(m[last], i)) \in {0, 1}  BY DEF Once
    <2> QED BY <1>2, <1>4, <1>5, <2>1
  <1>6. CASE last = 0 /\ v[i] # 2
    <2>1. v[i] \in {0, 1}  BY <1>1, <1>3, <1>6 DEF TwiceBehind
    <2>2. WillApply(c, i) = v[i] + Cardinality(TicksAfter(m, last, i))  BY <1>2, <1>6
    <2> QED BY <1>4, <2>1, <2>2
  <1>7. CASE last = 0 /\ v[i] = 2
    <2>1. ASSUME NEW k \in TicksAfter(m, last, i)  PROVE FALSE
      <3>1. k \in DOMAIN m /\ m[k].t = "tick" /\ m[k].from < i  BY DEF TicksAfter, Holds
      <3>2. i <= m[k].from  BY <1>1, <1>7, <3>1 DEF TwiceBehind
      <3>3. m[k].from \in Nat  BY <1>1, <3>1, MessageBounds
      <3> QED BY <1>3, <3>1, <3>2, <3>3
    <2>2. TicksAfter(m, last, i) = {}  BY <2>1
    <2>3. Cardinality(TicksAfter(m, last, i)) = 0  BY <2>2, FS_EmptySet
    <2>4. WillApply(c, i) = v[i] + Cardinality(TicksAfter(m, last, i))  BY <1>2, <1>7
    <2> QED BY <1>7, <2>3, <2>4
  <1> QED BY <1>5, <1>6, <1>7

LEMMA FlightReaches ==
  ASSUME NEW c \in Clients, NEW i \in Change, NEW n \in Nat, Flight(InFlight(c), view[c], n),
         Reaches(InFlight(c), view[c], i)
  PROVE  WillApply(c, i) >= 1
  <1> DEFINE m == InFlight(c)
             v == view[c]
  <1>1. m \in Seq(Message) /\ v \in View /\ Ordered(m, n)  BY DEF Flight
  <1>2. PICK last \in Nat :
          /\ LastFrom(m, last)
          /\ last # 0 => last \in DOMAIN m /\ m[last].t = "snapshot"
          /\ \A k \in DOMAIN m : m[k].t = "snapshot" => k <= last
          /\ WillApply(c, i) = (IF last = 0 THEN v[i] ELSE Once(Holds(m[last], i)))
                               + Cardinality(TicksAfter(m, last, i))
    BY WillApplyIs
  <1> HIDE DEF m, v
  <1>3. i \in Nat /\ v[i] \in Nat /\ DOMAIN m \subseteq Nat \ {0}
    <2>1. DOMAIN m \subseteq Nat \ {0}  BY <1>1
    <2> QED BY <1>1, <2>1 DEF Change, View
  <1>4. /\ Cardinality(TicksAfter(m, last, i)) \in {0, 1}
        /\ TicksAfter(m, last, i) # {} => Cardinality(TicksAfter(m, last, i)) = 1
    BY <1>1, <1>3, OneTick
  <1>5. Once(Holds(m[last], i)) \in {0, 1} /\ (Holds(m[last], i) => Once(Holds(m[last], i)) = 1)
    BY DEF Once
  <1>6. CASE v[i] >= 1 /\ LastFrom(m, 0)
    <2>1. last = 0  BY <1>2, <1>3, <1>6 DEF LastFrom
    <2>2. WillApply(c, i) = v[i] + Cardinality(TicksAfter(m, last, i))  BY <1>2, <2>1
    <2> QED BY <1>3, <1>4, <1>6, <2>2
  <1>7. ASSUME NEW k \in DOMAIN m, m[k].t \in {"snapshot", "tick"}, Holds(m[k], i), LastFrom(m, k)
        PROVE  WillApply(c, i) >= 1
    <2>1. k \in Nat \ {0} /\ last <= k
      <3>1. CASE last = 0  BY <1>3, <3>1
      <3>2. CASE last # 0  BY <1>2, <1>3, <1>7, <3>2 DEF LastFrom
      <3> QED BY <3>1, <3>2
    <2>2. CASE k = last
      <3>1. WillApply(c, i) = Once(Holds(m[last], i)) + Cardinality(TicksAfter(m, last, i))
        BY <1>2, <2>1, <2>2
      <3>2. Once(Holds(m[last], i)) = 1  BY <1>5, <1>7, <2>2
      <3> QED BY <1>4, <3>1, <3>2
    <2>3. CASE k # last
      <3>1. k > last  BY <2>1, <2>3
      <3>2. m[k].t = "tick"
        <4>1. ~(k <= last)  BY <2>1, <3>1
        <4> QED BY <1>2, <1>7, <4>1
      <3>3. k \in TicksAfter(m, last, i)  BY <1>7, <3>1, <3>2 DEF TicksAfter
      <3>4. Cardinality(TicksAfter(m, last, i)) = 1  BY <1>4, <3>3
      <3>5. CASE last = 0
        <4>1. WillApply(c, i) = v[i] + 1  BY <1>2, <3>4, <3>5
        <4> QED BY <1>3, <4>1
      <3>6. CASE last # 0
        <4>1. WillApply(c, i) = Once(Holds(m[last], i)) + 1  BY <1>2, <3>4, <3>6
        <4> QED BY <1>5, <4>1
      <3> QED BY <3>5, <3>6
    <2> QED BY <2>2, <2>3
  <1>8. \/ v[i] >= 1 /\ LastFrom(m, 0)
        \/ \E k \in DOMAIN m : m[k].t \in {"snapshot", "tick"} /\ Holds(m[k], i) /\ LastFrom(m, k)
    BY DEF Reaches, m, v
  <1> QED BY <1>6, <1>7, <1>8

(* For any number of browsers, any queue and any schedule of ticker,         *)
(* handlers, flows and shutdown, a registered browser comes to lack a change *)
(* only where a tick was refused by its full queue, or a delta went out      *)
(* between its snapshot and its registration (hub.go:240-265, :305-310).    *)
THEOREM LossOnlyByTheseTwo == Spec => []LossOnlyByRefusalOrJoining
  <1>1. FlightInv => LossOnlyByRefusalOrJoining
    <2> SUFFICES ASSUME FlightInv, NEW c \in Served, gap[c] = "none", NEW i \in FannedOut
                 PROVE  WillApply(c, i) >= 1
      BY DEF LossOnlyByRefusalOrJoining
    <2>1. c \in Clients /\ i \in Change /\ i <= Sent
      BY DEF FlightInv, HubInv, TypeInv, Served, FannedOut, Sent
    <2>2. Sent \in Nat  BY SentBounds DEF FlightInv
    <2>3. Flight(InFlight(c), view[c], Sent) /\ Complete(InFlight(c), view[c], Sent)
      BY <2>1 DEF FlightInv, ClientFlies, Flies, Reached, Joins
    <2>4. Reaches(InFlight(c), view[c], i)  BY <2>1, <2>3 DEF Complete
    <2> QED BY <2>1, <2>2, <2>3, <2>4, FlightReaches
  <1> QED BY <1>1, FlightInvAlways, PTL

(* No browser ever counts a change three times, however often it is          *)
(* resynced: only one of the deltas that follow a snapshot overlaps it       *)
(* (hub.go:192, :240-265).                                                  *)
THEOREM NeverThreeTimes == Spec => []CountedAtMostTwice
  <1>1. FlightInv => CountedAtMostTwice
    <2> SUFFICES ASSUME FlightInv, NEW c \in registered, NEW i \in Change
                 PROVE  WillApply(c, i) <= 2
      BY DEF CountedAtMostTwice
    <2>1. c \in Clients  BY DEF FlightInv, HubInv, TypeInv
    <2>2. Sent \in Nat  BY SentBounds DEF FlightInv
    <2>3. Flight(InFlight(c), view[c], Sent)  BY <2>1 DEF FlightInv, ClientFlies, Flies
    <2> QED BY <2>1, <2>2, <2>3, FlightCountsTwice
  <1> QED BY <1>1, FlightInvAlways, PTL

=============================================================================
