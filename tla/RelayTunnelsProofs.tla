------------------------- MODULE RelayTunnelsProofs -------------------------
(***************************************************************************)
(* Proofs about the relay's SNI table and the driver loop for any number   *)
(* of gateways, host names and public connections and any channel size.    *)
(*                                                                         *)
(* Two arguments meet.  A route can only lead to a tunnel that has not     *)
(* come to its own removal yet, because a tunnel is in the table under the *)
(* one name it registered.  And the request channel and the request in     *)
(* hand partition the public connections that wait for a stream: each of   *)
(* them is in exactly one place, at a tunnel whose task still has to       *)
(* answer or drop it.                                                      *)
(***************************************************************************)
EXTENDS RelayTunnels, SequenceTheorems, TLAPS

Shape ==
    /\ tunnels \in [Snis -> Conns \cup {NoConn}]
    /\ pc \in [Conns -> PCs]
    /\ sni \in [Conns -> Snis \cup {NoSni}]
    /\ queue \in [Conns -> Seq(Clients)]
    /\ pending \in [Conns -> Clients \cup {NoClient}]
    /\ woken \in [Conns -> BOOLEAN]
    /\ rx_waker \in [Conns -> BOOLEAN]
    /\ io_waker \in [Conns -> BOOLEAN]
    /\ down \in [Conns -> BOOLEAN]
    /\ cpc \in [Clients -> CPCs]
    /\ csni \in [Clients -> Snis \cup {NoSni}]
    /\ via \in [Clients -> Conns \cup {NoConn}]

(* A control connection past its REGISTER line has a name. *)
Named == \A c \in Conns : pc[c] # "idle" => sni[c] \in Snis

(* A public connection past its lookup has a tunnel, and before it none. *)
Looked ==
    \A d \in Clients :
        /\ cpc[d] = "lookup" => csni[d] \in Snis
        /\ cpc[d] \in {"send", "wait", "write", "copy"} => via[d] \in Conns

(* The channel of a tunnel and the request in its hand. *)
ChannelOk(c) ==
    /\ Len(queue[c]) <= QueueCap
    /\ \A i \in 1..Len(queue[c]) :
          cpc[queue[c][i]] = "wait" /\ via[queue[c][i]] = c
    /\ pending[c] # NoClient => cpc[pending[c]] = "wait" /\ via[pending[c]] = c
    /\ \A i, j \in 1..Len(queue[c]) : queue[c][i] = queue[c][j] => i = j
    /\ \A i \in 1..Len(queue[c]) : queue[c][i] # pending[c]
    /\ ~RxOpen(c) => Len(queue[c]) = 0 /\ pending[c] = NoClient

ChannelsOk == \A c \in Conns : ChannelOk(c)

(* d is in the channel or in the hand of c. *)
HeldBy(c, d) ==
    pending[c] = d \/ \E i \in 1..Len(queue[c]) : queue[c][i] = d

(* A public connection that waits for its stream is in the request channel, or
   in the hand, of a tunnel whose task has not ended. *)
WaitersAreHeld ==
    \A d \in Clients : cpc[d] = "wait" =>
        via[d] \in Conns /\ RxOpen(via[d]) /\ HeldBy(via[d], d)

(* RoutesAreLive, by tunnel: it is in the table under its own name only, from
   its insertion to its removal. *)
Routed ==
    \A s \in Snis, c \in Conns : tunnels[s] = c =>
        sni[c] = s /\ pc[c] \in {"driving", "inbound", "remove"}

(* The inductive invariant. *)
IInv ==
    /\ Shape /\ Named /\ Looked /\ ChannelsOk /\ WaitersAreHeld
    /\ Routed /\ WakerLeft

(* The relay before its first connection. *)
LEMMA InitIInv == Init => IInv
<1> SUFFICES ASSUME Init PROVE IInv
  OBVIOUS
<1>0. << >> \in Seq(Clients) /\ Len(<< >>) = 0
  OBVIOUS
<1>1. Shape
  BY <1>0 DEF Init, Shape, PCs, CPCs
<1>2. Named /\ Looked /\ WaitersAreHeld
  BY DEF Init, Named, Looked, WaitersAreHeld
<1>3. ChannelsOk
  BY <1>0, QueueAssumption DEF Init, ChannelsOk, ChannelOk
<1>4. Routed /\ WakerLeft
  BY NoneAssumption DEF Init, Routed, WakerLeft
<1> QED
  BY <1>1, <1>2, <1>3, <1>4 DEF IInv

(* A control task that touches neither its channel nor a public connection, and
   does not drop its receiver. *)
LEMMA ChannelsUntouched ==
    ASSUME IInv, UNCHANGED <<queue, pending, cvars>>,
           \A c \in Conns : RxOpen(c) => RxOpen(c)'
    PROVE  Looked' /\ ChannelsOk' /\ WaitersAreHeld'
<1> USE DEF IInv
<1>1. Looked'
  BY DEF Looked, cvars
<1>2. ChannelsOk'
  BY DEF ChannelsOk, ChannelOk, cvars
<1>3. WaitersAreHeld'
  BY DEF WaitersAreHeld, HeldBy, cvars
<1> QED
  BY <1>1, <1>2, <1>3

(* The task of a control connection moves from one place to another that is not
   "driving", or to "driving" with a wake-up arranged. *)
LEMMA RoutesUntouched ==
    ASSUME IInv, NEW c \in Conns, NEW l \in PCs, Goto(c, l),
           UNCHANGED <<tunnels, sni>>,
           woken' \in [Conns -> BOOLEAN], io_waker' \in [Conns -> BOOLEAN],
           pc[c] \in {"driving", "inbound"}, l \in {"driving", "inbound", "remove"},
           \A b \in Conns : b # c =>
               woken'[b] = woken[b] /\ io_waker'[b] = io_waker[b],
           l = "driving" => woken'[c] \/ io_waker'[c]
    PROVE  Named' /\ Routed' /\ WakerLeft'
<1> USE DEF IInv
<1>0. /\ pc'[c] = l /\ \A b \in Conns : b # c => pc'[b] = pc[b]
  BY DEF Goto, Shape
<1>1. Named'
  BY <1>0 DEF Named
<1>2. Routed'
  BY <1>0, NoneAssumption DEF Routed, Shape
<1>3. WakerLeft'
  BY <1>0 DEF WakerLeft
<1> QED
  BY <1>1, <1>2, <1>3

(* Registration and tear-down: the steps that change the table. *)
LEMMA RegistrationPreserves ==
    ASSUME IInv, NEW c \in Conns,
           \/ \E s \in Snis : Register(c, s)
           \/ CheckExisting(c) \/ Insert(c) \/ RemoveRoute(c)
    PROVE  IInv'
<1> USE DEF IInv
<1>1. ASSUME NEW s \in Snis, Register(c, s) PROVE IInv'
  <2>1. Shape'
    BY <1>1 DEF Register, Goto, Shape, PCs, dvars, cvars
  <2>2. /\ pc'[c] = "check" /\ sni'[c] = s
        /\ \A b \in Conns : b # c => pc'[b] = pc[b] /\ sni'[b] = sni[b]
    BY <1>1 DEF Register, Goto, Shape
  <2>3. Named' /\ Routed' /\ WakerLeft'
    <3>1. Named'
      BY <2>2 DEF Named
    <3>2. Routed'
      BY <1>1, <2>2 DEF Register, At, Routed
    <3>3. WakerLeft'
      BY <1>1, <2>2 DEF Register, WakerLeft, dvars
    <3> QED
      BY <3>1, <3>2, <3>3
  <2>4. \A b \in Conns : RxOpen(b) => RxOpen(b)'
    BY <1>1, <2>2 DEF Register, At, RxOpen
  <2> QED
    BY <1>1, <2>1, <2>3, <2>4, ChannelsUntouched DEF Register, dvars
<1>2. CASE CheckExisting(c)
  <2>1. Shape'
    BY <1>2 DEF CheckExisting, Goto, Shape, PCs, dvars, cvars
  <2>2. /\ pc[c] = "check"
        /\ \/ pc'[c] = "idle"
           \/ pc'[c] = "insert" /\ sni'[c] = sni[c]
        /\ \A b \in Conns : b # c => pc'[b] = pc[b] /\ sni'[b] = sni[b]
    BY <1>2 DEF CheckExisting, At, Goto, Shape
  <2>3. Named' /\ Routed' /\ WakerLeft'
    <3>1. Named'
      BY <2>2 DEF Named
    <3>2. Routed'
      BY <1>2, <2>2 DEF CheckExisting, Routed
    <3>3. WakerLeft'
      BY <1>2, <2>2 DEF CheckExisting, WakerLeft, dvars
    <3> QED
      BY <3>1, <3>2, <3>3
  <2>4. \A b \in Conns : RxOpen(b) => RxOpen(b)'
    BY <2>2 DEF RxOpen
  <2> QED
    BY <1>2, <2>1, <2>3, <2>4, ChannelsUntouched DEF CheckExisting, dvars
<1>3. CASE Insert(c)
  <2>0. pc[c] = "insert" /\ sni[c] \in Snis
    BY <1>3 DEF Insert, At, Named
  <2>1. Shape'
    BY <1>3, <2>0 DEF Insert, Goto, Shape, PCs, cvars
  <2>2. /\ pc'[c] = "driving" /\ woken'[c]
        /\ \A b \in Conns : b # c => pc'[b] = pc[b] /\ woken'[b] = woken[b]
        /\ tunnels'[sni[c]] = c
        /\ \A s \in Snis : s # sni[c] => tunnels'[s] = tunnels[s]
    BY <1>3, <2>0 DEF Insert, Goto, Shape
  <2>3. Named' /\ Routed' /\ WakerLeft'
    BY <1>3, <2>0, <2>2, NoneAssumption
    DEF Insert, Named, Routed, WakerLeft, Shape
  <2>4. \A b \in Conns : RxOpen(b) => RxOpen(b)'
    BY <2>0, <2>2 DEF RxOpen
  <2> QED
    BY <1>3, <2>1, <2>3, <2>4, ChannelsUntouched DEF Insert
<1>4. CASE RemoveRoute(c)
  <2>0. pc[c] = "remove" /\ sni[c] \in Snis
    BY <1>4 DEF RemoveRoute, At, Named
  <2>1. Shape'
    BY <1>4, <2>0 DEF RemoveRoute, Goto, Shape, PCs, dvars, cvars
  <2>2. /\ pc'[c] = "drop" /\ \A b \in Conns : b # c => pc'[b] = pc[b]
        /\ tunnels'[sni[c]] # c
        /\ tunnels'[sni[c]] \in {tunnels[sni[c]], NoConn}
        /\ \A s \in Snis : s # sni[c] => tunnels'[s] = tunnels[s]
    BY <1>4, <2>0, NoneAssumption DEF RemoveRoute, Goto, Shape
  <2>3. Named' /\ Routed' /\ WakerLeft'
    <3>1. Named'
      BY <1>4, <2>0, <2>2 DEF RemoveRoute, Named
    <3>2. Routed'
      BY <1>4, <2>0, <2>2, NoneAssumption DEF RemoveRoute, Routed
    <3>3. WakerLeft'
      BY <1>4, <2>2 DEF RemoveRoute, WakerLeft, dvars
    <3> QED
      BY <3>1, <3>2, <3>3
  <2>4. \A b \in Conns : RxOpen(b) => RxOpen(b)'
    BY <2>0, <2>2 DEF RxOpen
  <2> QED
    BY <1>4, <2>1, <2>3, <2>4, ChannelsUntouched DEF RemoveRoute, dvars
<1> QED
  BY <1>1, <1>2, <1>3, <1>4

(* The head and the tail of a channel. *)
LEMMA ChannelHead ==
    ASSUME NEW q \in Seq(Clients), q # << >>
    PROVE  /\ Len(q) \in Nat /\ Len(q) >= 1
           /\ Head(q) = q[1] /\ Head(q) \in Clients
           /\ Tail(q) \in Seq(Clients) /\ Len(Tail(q)) = Len(q) - 1
           /\ \A i \in 1..Len(Tail(q)) : i + 1 \in 1..Len(q) /\ Tail(q)[i] = q[i + 1]
  OBVIOUS

(* What poll_recv leaves of the channel when the driver takes a request. *)
LEMMA PollTakes ==
    ASSUME IInv, NEW c \in Conns, BeginPoll(c)
    PROVE  /\ pc[c] = "driving"
           /\ queue' \in [Conns -> Seq(Clients)]
           /\ rx_waker' \in [Conns -> BOOLEAN] /\ woken' \in [Conns -> BOOLEAN]
           /\ \A b \in Conns : b # c => /\ queue'[b] = queue[b]
                                        /\ woken'[b] = woken[b]
           /\ Requested(c) \in Clients \cup {NoClient}
           /\ Requested(c) # NoClient =>
                 cpc[Requested(c)] = "wait" /\ via[Requested(c)] = c
           /\ Requested(c) = NoClient => queue' = queue /\ pending[c] = NoClient
           /\ Len(queue'[c]) <= QueueCap
           /\ \A i \in 1..Len(queue'[c]) :
                 /\ \E j \in 1..Len(queue[c]) : queue'[c][i] = queue[c][j]
                 /\ queue'[c][i] # Requested(c)
           /\ \A i, j \in 1..Len(queue'[c]) : queue'[c][i] = queue'[c][j] => i = j
           /\ \A d \in Clients : HeldBy(c, d) =>
                 \/ d = Requested(c)
                 \/ \E i \in 1..Len(queue'[c]) : queue'[c][i] = d
<1> USE DEF IInv
<1>0. /\ queue[c] \in Seq(Clients) /\ pending[c] \in Clients \cup {NoClient}
      /\ Len(queue[c]) \in Nat /\ ChannelOk(c) /\ queue \in [Conns -> Seq(Clients)]
  BY DEF Shape, ChannelsOk
<1>1. /\ pc[c] = "driving" /\ woken' = [woken EXCEPT ![c] = FALSE]
      /\ rx_waker' = [rx_waker EXCEPT ![c] = rx_waker[c] \/ Requested(c) = NoClient]
      /\ queue' = [queue EXCEPT ![c] =
                      IF pending[c] = NoClient /\ queue[c] # << >>
                      THEN Tail(queue[c]) ELSE queue[c]]
  BY DEF BeginPoll, At, PollRecv
<1>2. /\ rx_waker' \in [Conns -> BOOLEAN] /\ woken' \in [Conns -> BOOLEAN]
      /\ \A b \in Conns : b # c => queue'[b] = queue[b] /\ woken'[b] = woken[b]
  BY <1>1 DEF Shape
<1>3. CASE pending[c] # NoClient
  <2>1. Requested(c) = pending[c] /\ queue' = queue
    BY <1>0, <1>1, <1>3 DEF Requested
  <2> QED
    BY <1>0, <1>1, <1>2, <1>3, <2>1 DEF ChannelOk, HeldBy
<1>4. CASE pending[c] = NoClient /\ queue[c] = << >>
  <2>1. Requested(c) = NoClient /\ queue' = queue
    BY <1>0, <1>1, <1>4 DEF Requested
  <2>2. Len(queue[c]) = 0
    BY <1>4
  <2> QED
    BY <1>0, <1>1, <1>2, <1>4, <2>1, <2>2, NoneAssumption DEF ChannelOk, HeldBy
<1>5. CASE pending[c] = NoClient /\ queue[c] # << >>
  <2> DEFINE q == queue[c]
             t == queue'[c]
  <2>1. Requested(c) = Head(q) /\ queue' = [queue EXCEPT ![c] = Tail(q)]
    BY <1>1, <1>5 DEF Requested
  <2>2. t = Tail(q)
    BY <1>0, <2>1
  <2>3. /\ Head(q) = q[1] /\ Head(q) \in Clients /\ Len(q) >= 1
        /\ t \in Seq(Clients) /\ Len(t) = Len(q) - 1
        /\ \A i \in 1..Len(t) : i + 1 \in 1..Len(q) /\ t[i] = q[i + 1]
    BY <1>0, <1>5, <2>2, ChannelHead
  <2>4. queue' \in [Conns -> Seq(Clients)]
    BY <1>0, <2>1, <2>2, <2>3
  <2>5. \A i, j \in 1..Len(q) : q[i] = q[j] => i = j
    BY <1>0 DEF ChannelOk
  <2>6. 1 \in 1..Len(q)
    BY <1>0, <2>3
  <2>7. /\ \A i \in 1..Len(t) : /\ \E j \in 1..Len(q) : t[i] = q[j]
                                /\ t[i] # q[1]
        /\ \A i, j \in 1..Len(t) : t[i] = t[j] => i = j
    <3>1. ASSUME NEW i \in 1..Len(t)
          PROVE  (\E j \in 1..Len(q) : t[i] = q[j]) /\ t[i] # q[1]
      <4>1. i + 1 \in 1..Len(q) /\ t[i] = q[i + 1] /\ i + 1 # 1
        BY <2>3
      <4> QED
        BY <4>1, <2>5, <2>6
    <3>2. ASSUME NEW i \in 1..Len(t), NEW j \in 1..Len(t), t[i] = t[j]
          PROVE  i = j
      <4>1. /\ i + 1 \in 1..Len(q) /\ t[i] = q[i + 1]
            /\ j + 1 \in 1..Len(q) /\ t[j] = q[j + 1]
        BY <2>3
      <4>2. i + 1 = j + 1
        BY <3>2, <4>1, <2>5
      <4> QED
        BY <4>2
    <3> QED
      BY <3>1, <3>2
  <2>8. \A d \in Clients : HeldBy(c, d) =>
           d = Requested(c) \/ \E i \in 1..Len(t) : t[i] = d
    <3> SUFFICES ASSUME NEW d \in Clients, HeldBy(c, d), d # q[1]
                 PROVE  \E i \in 1..Len(t) : t[i] = d
      BY <2>1, <2>3
    <3>1. PICK j \in 1..Len(q) : q[j] = d
      BY <1>5, NoneAssumption DEF HeldBy
    <3>2. j - 1 \in 1..Len(t) /\ (j - 1) + 1 = j
      BY <1>0, <2>3, <3>1
    <3> QED
      BY <2>3, <3>1, <3>2
  <2>9. cpc[q[1]] = "wait" /\ via[q[1]] = c /\ Len(q) <= QueueCap
    BY <1>0, <2>6 DEF ChannelOk
  <2>10. Head(q) # NoClient
    BY <2>3, NoneAssumption
  <2>11. Len(t) <= QueueCap
    BY <1>0, <2>3, <2>9, QueueAssumption
  <2>12. /\ Requested(c) = q[1] /\ q[1] \in Clients /\ q[1] # NoClient
    BY <2>1, <2>3, <2>10
  <2>13. /\ Requested(c) \in Clients \cup {NoClient}
         /\ Requested(c) # NoClient =>
               cpc[Requested(c)] = "wait" /\ via[Requested(c)] = c
         /\ Requested(c) = NoClient => queue' = queue /\ pending[c] = NoClient
    BY <2>9, <2>12
  <2>14. \A i \in 1..Len(queue'[c]) :
            /\ \E j \in 1..Len(queue[c]) : queue'[c][i] = queue[c][j]
            /\ queue'[c][i] # Requested(c)
    BY <2>7, <2>12
  <2>15. \A i, j \in 1..Len(queue'[c]) : queue'[c][i] = queue'[c][j] => i = j
    BY <2>7
  <2> HIDE DEF q, t
  <2> QED
    BY <1>1, <1>2, <2>4, <2>8, <2>11, <2>13, <2>14, <2>15, Zenon DEF t
<1> QED
  BY <1>3, <1>4, <1>5

(* The driver answers the request it took, or keeps it in hand: the others stay
   where they are. *)
LEMMA TakenIsAnswered ==
    ASSUME IInv, NEW c \in Conns, BeginPoll(c), NEW r \in Clients,
           r = Requested(c), NEW l \in {"inbound", "remove"}, Goto(c, l),
           cpc' \in [Clients -> CPCs], pending' \in [Conns -> Clients \cup {NoClient}],
           \A d \in Clients : d # r => cpc'[d] = cpc[d] /\ via'[d] = via[d],
           \A b \in Conns : b # c => pending'[b] = pending[b],
           \/ pending'[c] = NoClient /\ cpc'[r] # "wait"
           \/ pending'[c] = r /\ cpc'[r] = "wait" /\ via'[r] = c
    PROVE  ChannelsOk' /\ WaitersAreHeld'
<1> USE DEF IInv
<1>0. /\ queue \in [Conns -> Seq(Clients)] /\ queue' \in [Conns -> Seq(Clients)]
      /\ pending \in [Conns -> Clients \cup {NoClient}]
      /\ \A b \in Conns : ChannelOk(b)
      /\ r # NoClient
  BY PollTakes, NoneAssumption DEF Shape, ChannelsOk
<1>1. /\ \A b \in Conns : b # c => queue'[b] = queue[b]
      /\ cpc[r] = "wait" /\ via[r] = c
      /\ Len(queue'[c]) <= QueueCap
      /\ \A i \in 1..Len(queue'[c]) :
            /\ \E j \in 1..Len(queue[c]) : queue'[c][i] = queue[c][j]
            /\ queue'[c][i] # r
      /\ \A i, j \in 1..Len(queue'[c]) : queue'[c][i] = queue'[c][j] => i = j
      /\ \A d \in Clients : HeldBy(c, d) =>
            d = r \/ \E i \in 1..Len(queue'[c]) : queue'[c][i] = d
  BY <1>0, PollTakes
<1>2. \A b \in Conns : RxOpen(b)' <=> RxOpen(b)
  BY PollTakes DEF Goto, RxOpen, Shape
<1>3. RxOpen(c)
  BY PollTakes DEF RxOpen
<1>4. ASSUME NEW b \in Conns PROVE ChannelOk(b)'
  <2>1. CASE b # c
    <3>1. /\ queue'[b] = queue[b] /\ pending'[b] = pending[b] /\ ChannelOk(b)
          /\ RxOpen(b)' <=> RxOpen(b)
      BY <1>0, <1>1, <1>2, <2>1
    <3>2. \A i \in 1..Len(queue[b]) : queue[b][i] \in Clients
      BY <1>0
    <3>3. \A i \in 1..Len(queue[b]) : queue[b][i] # r
      BY <1>1, <2>1, <3>1 DEF ChannelOk
    <3>4. pending[b] # NoClient => pending[b] \in Clients /\ pending[b] # r
      BY <1>0, <1>1, <2>1, <3>1 DEF ChannelOk
    <3> QED
      BY <3>1, <3>2, <3>3, <3>4 DEF ChannelOk
  <2>2. CASE b = c
    <3>1. \A i \in 1..Len(queue'[c]) :
             /\ queue'[c][i] \in Clients /\ queue'[c][i] # r
             /\ cpc[queue'[c][i]] = "wait" /\ via[queue'[c][i]] = c
      <4> SUFFICES ASSUME NEW i \in 1..Len(queue'[c])
                   PROVE  /\ queue'[c][i] \in Clients /\ queue'[c][i] # r
                          /\ cpc[queue'[c][i]] = "wait" /\ via[queue'[c][i]] = c
        OBVIOUS
      <4>1. PICK j \in 1..Len(queue[c]) : queue'[c][i] = queue[c][j]
        BY <1>1
      <4>2. queue[c][j] \in Clients
        BY <1>0
      <4>3. cpc[queue[c][j]] = "wait" /\ via[queue[c][j]] = c
        BY <1>0 DEF ChannelOk
      <4>4. queue'[c][i] # r
        BY <1>1
      <4> QED
        BY <4>1, <4>2, <4>3, <4>4
    <3>2. \A i \in 1..Len(queue'[c]) :
             cpc'[queue'[c][i]] = "wait" /\ via'[queue'[c][i]] = c
      BY <3>1
    <3>3. \A i \in 1..Len(queue'[c]) : queue'[c][i] # pending'[c]
      BY <1>0, <3>1, NoneAssumption
    <3> QED
      BY <1>1, <1>2, <1>3, <2>2, <3>2, <3>3 DEF ChannelOk
  <2> QED
    BY <2>1, <2>2
<1>5. WaitersAreHeld'
  <2> SUFFICES ASSUME NEW d \in Clients, cpc'[d] = "wait"
               PROVE  via'[d] \in Conns /\ RxOpen(via[d])' /\ HeldBy(via[d], d)'
    BY DEF WaitersAreHeld
  <2>1. CASE d = r
    <3>1. pending'[c] = r /\ via'[r] = c
      BY <2>1
    <3> QED
      BY <1>2, <1>3, <2>1, <3>1 DEF HeldBy, RxOpen
  <2>2. CASE d # r
    <3>1. /\ via'[d] = via[d] /\ via[d] \in Conns /\ RxOpen(via[d])
          /\ HeldBy(via[d], d)
      BY <2>2 DEF WaitersAreHeld
    <3>2. CASE via[d] = c
      BY <1>1, <1>2, <1>3, <2>2, <3>1, <3>2 DEF HeldBy, RxOpen
    <3>3. CASE via[d] # c
      BY <1>1, <1>2, <3>1, <3>3 DEF HeldBy, RxOpen
    <3> QED
      BY <3>2, <3>3
  <2> QED
    BY <2>1, <2>2
<1> QED
  BY <1>4, <1>5 DEF ChannelsOk

(* One poll of the driver, up to poll_new_outbound. *)
LEMMA OutboundPreserves ==
    ASSUME IInv, NEW c \in Conns, PollOutbound(c)
    PROVE  IInv'
<1> USE DEF IInv
<1>0. BeginPoll(c)
  BY DEF PollOutbound, PollNoRequest, PollOpened, PollRefused, PollBacklogged
<1>1. /\ pc[c] = "driving"
      /\ queue' \in [Conns -> Seq(Clients)]
      /\ rx_waker' \in [Conns -> BOOLEAN] /\ woken' \in [Conns -> BOOLEAN]
      /\ \A b \in Conns : b # c => woken'[b] = woken[b]
      /\ Requested(c) \in Clients \cup {NoClient}
      /\ Requested(c) # NoClient =>
            cpc[Requested(c)] = "wait" /\ via[Requested(c)] = c
      /\ Requested(c) = NoClient => queue' = queue /\ pending[c] = NoClient
  BY <1>0, PollTakes
<1>2. UNCHANGED <<tunnels, sni, io_waker, down>>
  BY <1>0 DEF BeginPoll
<1>3. PICK l \in {"inbound", "remove"} : Goto(c, l)
  BY DEF PollOutbound, PollNoRequest, PollOpened, PollRefused, PollBacklogged
<1>4. Named' /\ Routed' /\ WakerLeft'
  <2>1. l \in PCs /\ l \in {"driving", "inbound", "remove"} /\ l # "driving"
    BY DEF PCs
  <2>2. io_waker' \in [Conns -> BOOLEAN] /\ io_waker' = io_waker
    BY <1>2 DEF Shape
  <2> QED
    BY <1>1, <1>2, <1>3, <2>1, <2>2, RoutesUntouched
<1>5. /\ tunnels' \in [Snis -> Conns \cup {NoConn}]
      /\ pc' \in [Conns -> PCs]
      /\ sni' \in [Conns -> Snis \cup {NoSni}]
      /\ io_waker' \in [Conns -> BOOLEAN] /\ down' \in [Conns -> BOOLEAN]
  BY <1>2, <1>3 DEF Shape, Goto, PCs
<1>6. CASE PollNoRequest(c)
  <2>1. Shape'
    BY <1>1, <1>5, <1>6 DEF Shape, PollNoRequest, cvars
  <2>2. queue' = queue /\ pending' = pending /\ UNCHANGED cvars
    BY <1>1, <1>6 DEF PollNoRequest
  <2>3. \A b \in Conns : RxOpen(b) => RxOpen(b)'
    BY <1>3 DEF RxOpen, Goto, Shape
  <2> QED
    BY <1>4, <2>1, <2>2, <2>3, ChannelsUntouched
<1>7. CASE PollOpened(c) \/ PollRefused(c) \/ PollBacklogged(c)
  <2>0. Requested(c) # NoClient
    BY <1>7 DEF PollOpened, PollRefused, PollBacklogged
  <2>1. PICK r \in Clients : r = Requested(c)
    BY <1>1, <2>0
  <2>2. cpc[r] = "wait" /\ via[r] = c
    BY <1>1, <2>0, <2>1
  <2>3. /\ cpc' \in [Clients -> CPCs]
        /\ csni' \in [Clients -> Snis \cup {NoSni}]
        /\ via' \in [Clients -> Conns \cup {NoConn}]
        /\ pending' \in [Conns -> Clients \cup {NoClient}]
        /\ \A d \in Clients : d # r =>
              cpc'[d] = cpc[d] /\ via'[d] = via[d] /\ csni'[d] = csni[d]
        /\ \A b \in Conns : b # c => pending'[b] = pending[b]
        /\ \/ pending'[c] = NoClient /\ cpc'[r] = "write" /\ via'[r] = c
           \/ pending'[c] = NoClient /\ cpc'[r] = "idle"
           \/ pending'[c] = r /\ cpc'[r] = "wait" /\ via'[r] = c
    <3>1. CASE PollOpened(c)
      BY <2>1, <2>2, <3>1 DEF PollOpened, CGoto, Shape, CPCs
    <3>2. CASE PollRefused(c)
      BY <2>1, <3>2 DEF PollRefused, Leave, Shape, CPCs
    <3>3. CASE PollBacklogged(c)
      BY <2>1, <2>2, <3>3 DEF PollBacklogged, cvars, Shape
    <3> QED
      BY <1>7, <3>1, <3>2, <3>3
  <2>4. Shape'
    BY <1>1, <1>5, <2>3 DEF Shape
  <2>5. Looked'
    BY <2>3 DEF Looked
  <2>6. ChannelsOk' /\ WaitersAreHeld'
    BY <1>0, <1>3, <2>1, <2>3, TakenIsAnswered
  <2> QED
    BY <1>4, <2>4, <2>5, <2>6
<1> QED
  BY <1>6, <1>7 DEF PollOutbound

(* The rest of the poll, poll_next_inbound, and the events of the socket. *)
LEMMA InboundPreserves ==
    ASSUME IInv, NEW c \in Conns, PollInbound(c) \/ IoEvent(c) \/ LinkFails(c)
    PROVE  IInv'
<1> USE DEF IInv
<1>0. /\ UNCHANGED <<tunnels, sni, queue, pending, rx_waker>> /\ UNCHANGED cvars
  BY DEF PollInbound, PollQuiet, PollUnexpected, PollEnded, IoEvent, LinkFails,
         tvars, dvars
<1>1. CASE PollInbound(c)
  <2>1. PICK l \in {"driving", "remove"} :
           /\ Goto(c, l) /\ pc[c] = "inbound"
           /\ l = "driving" => woken'[c] \/ io_waker'[c]
    BY <1>1 DEF PollInbound, PollQuiet, PollUnexpected, PollEnded, At, Shape
  <2>2. /\ woken' \in [Conns -> BOOLEAN] /\ io_waker' \in [Conns -> BOOLEAN]
        /\ down' = down
        /\ \A b \in Conns : b # c =>
               woken'[b] = woken[b] /\ io_waker'[b] = io_waker[b]
    BY <1>1 DEF PollInbound, PollQuiet, PollUnexpected, PollEnded, Shape, dvars
  <2>3. l \in PCs /\ l \in {"driving", "inbound", "remove"}
    BY DEF PCs
  <2>4. Shape'
    BY <1>0, <2>1, <2>2, <2>3 DEF Shape, Goto, cvars
  <2>5. Named' /\ Routed' /\ WakerLeft'
    BY <1>0, <2>1, <2>2, <2>3, RoutesUntouched
  <2>6. \A b \in Conns : RxOpen(b) => RxOpen(b)'
    BY <2>1 DEF RxOpen, Goto, Shape
  <2> QED
    BY <1>0, <2>4, <2>5, <2>6, ChannelsUntouched
<1>2. CASE IoEvent(c) \/ LinkFails(c)
  <2>1. WakeIo(c) /\ pc' = pc
    BY <1>2 DEF IoEvent, LinkFails, tvars
  <2>2. Shape'
    BY <1>0, <1>2, <2>1 DEF Shape, IoEvent, LinkFails, WakeIo, cvars
  <2>3. WakerLeft'
    BY <2>1 DEF WakerLeft, WakeIo, Shape
  <2>4. Named' /\ Routed'
    BY <1>0, <2>1 DEF Named, Routed
  <2>5. \A b \in Conns : RxOpen(b) => RxOpen(b)'
    BY <2>1 DEF RxOpen
  <2> QED
    BY <1>0, <2>2, <2>3, <2>4, <2>5, ChannelsUntouched
<1> QED
  BY <1>1, <1>2

(* The end of the task: exactly those its channel or its hand held are told. *)
LEMMA DropPreserves ==
    ASSUME IInv, NEW c \in Conns, DropRx(c)
    PROVE  IInv'
<1> USE DEF IInv
<1>0. << >> \in Seq(Clients) /\ Len(<< >>) = 0
  OBVIOUS
<1>1. /\ pc[c] = "drop" /\ pc'[c] = "idle" /\ queue'[c] = << >>
      /\ pending'[c] = NoClient
      /\ \A b \in Conns : b # c =>
            /\ pc'[b] = pc[b] /\ sni'[b] = sni[b]
            /\ queue'[b] = queue[b] /\ pending'[b] = pending[b]
            /\ woken'[b] = woken[b] /\ io_waker'[b] = io_waker[b]
      /\ tunnels' = tunnels
  BY DEF DropRx, At, Goto, Shape
<1>2. /\ cpc' = [d \in Clients |-> IF d \in Waiting(c) THEN "idle" ELSE cpc[d]]
      /\ csni' = [d \in Clients |-> IF d \in Waiting(c) THEN NoSni ELSE csni[d]]
      /\ via' = [d \in Clients |-> IF d \in Waiting(c) THEN NoConn ELSE via[d]]
  BY DEF DropRx, Leave
<1>3. \A d \in Clients : d \in Waiting(c) <=> HeldBy(c, d)
  BY NoneAssumption DEF Waiting, HeldBy, ToSet
<1>4. \A d \in Clients : HeldBy(c, d) => cpc[d] = "wait" /\ via[d] = c
  BY NoneAssumption DEF HeldBy, ChannelsOk, ChannelOk
<1>5. Shape'
  <2>1. /\ tunnels' \in [Snis -> Conns \cup {NoConn}]
        /\ pc' \in [Conns -> PCs]
        /\ sni' \in [Conns -> Snis \cup {NoSni}]
        /\ woken' \in [Conns -> BOOLEAN]
        /\ rx_waker' \in [Conns -> BOOLEAN]
        /\ io_waker' \in [Conns -> BOOLEAN]
        /\ down' \in [Conns -> BOOLEAN]
    BY DEF DropRx, Goto, Shape, PCs
  <2>2. /\ queue' \in [Conns -> Seq(Clients)]
        /\ pending' \in [Conns -> Clients \cup {NoClient}]
    BY <1>0 DEF DropRx, Shape
  <2>3. /\ cpc' \in [Clients -> CPCs]
        /\ csni' \in [Clients -> Snis \cup {NoSni}]
        /\ via' \in [Clients -> Conns \cup {NoConn}]
    BY <1>2 DEF Shape, CPCs
  <2> QED
    BY <2>1, <2>2, <2>3 DEF Shape
<1>6. Named' /\ Routed' /\ WakerLeft'
  <2>1. Named'
    BY <1>1 DEF Named
  <2>2. Routed'
    BY <1>1 DEF Routed
  <2>3. WakerLeft'
    BY <1>1 DEF WakerLeft
  <2> QED
    BY <2>1, <2>2, <2>3
<1>7. Looked'
  BY <1>2 DEF Looked
<1>8. ASSUME NEW b \in Conns PROVE ChannelOk(b)'
  <2>1. CASE b = c
    BY <1>0, <1>1, <2>1, QueueAssumption DEF ChannelOk
  <2>2. CASE b # c
    <3>1. /\ queue'[b] = queue[b] /\ pending'[b] = pending[b] /\ ChannelOk(b)
          /\ RxOpen(b)' <=> RxOpen(b)
      BY <1>1, <2>2 DEF ChannelsOk, RxOpen
    <3>2. \A i \in 1..Len(queue[b]) : queue[b][i] \in Clients
      BY DEF Shape
    <3>3. \A d \in Clients : via[d] = b => cpc'[d] = cpc[d] /\ via'[d] = via[d]
      BY <1>2, <1>3, <1>4, <2>2
    <3>4. pending[b] # NoClient => pending[b] \in Clients
      BY DEF Shape
    <3> QED
      BY <3>1, <3>2, <3>3, <3>4 DEF ChannelOk
  <2> QED
    BY <2>1, <2>2
<1>9. WaitersAreHeld'
  <2> SUFFICES ASSUME NEW d \in Clients, cpc'[d] = "wait"
               PROVE  via'[d] \in Conns /\ RxOpen(via[d])' /\ HeldBy(via[d], d)'
    BY DEF WaitersAreHeld
  <2>1. ~HeldBy(c, d) /\ cpc[d] = "wait" /\ via'[d] = via[d]
    BY <1>2, <1>3
  <2>2. via[d] \in Conns /\ RxOpen(via[d]) /\ HeldBy(via[d], d) /\ via[d] # c
    BY <2>1 DEF WaitersAreHeld
  <2> QED
    BY <1>1, <2>1, <2>2 DEF HeldBy, RxOpen
<1> QED
  BY <1>5, <1>6, <1>7, <1>8, <1>9 DEF ChannelsOk

(* The task of a public connection that neither was nor is now waiting. *)
LEMMA NotWaiting ==
    ASSUME IInv, NEW d \in Clients, UNCHANGED <<pc, queue, pending>>,
           cpc[d] # "wait", cpc'[d] # "wait",
           \A e \in Clients : e # d => cpc'[e] = cpc[e] /\ via'[e] = via[e]
    PROVE  ChannelsOk' /\ WaitersAreHeld'
<1> USE DEF IInv
<1>1. ASSUME NEW b \in Conns PROVE ChannelOk(b)'
  <2>1. ChannelOk(b)
    BY DEF ChannelsOk
  <2>2. \A i \in 1..Len(queue[b]) : queue[b][i] \in Clients /\ queue[b][i] # d
    <3>1. \A i \in 1..Len(queue[b]) : queue[b][i] \in Clients
      BY DEF Shape
    <3> QED
      BY <2>1, <3>1 DEF ChannelOk
  <2>3. pending[b] # NoClient => pending[b] \in Clients /\ pending[b] # d
    BY <2>1 DEF Shape, ChannelOk
  <2> QED
    BY <2>1, <2>2, <2>3 DEF ChannelOk, RxOpen
<1>2. WaitersAreHeld'
  <2> SUFFICES ASSUME NEW e \in Clients, cpc'[e] = "wait"
               PROVE  via'[e] \in Conns /\ RxOpen(via[e])' /\ HeldBy(via[e], e)'
    BY DEF WaitersAreHeld
  <2>1. cpc[e] = "wait" /\ via'[e] = via[e]
    OBVIOUS
  <2> QED
    BY <2>1 DEF WaitersAreHeld, HeldBy, RxOpen
<1> QED
  BY <1>1, <1>2 DEF ChannelsOk

(* A public connection's task, but for the request it sends. *)
LEMMA ClientPreserves ==
    ASSUME IInv, NEW d \in Clients,
           \/ \E s \in Snis : Arrive(d, s)
           \/ Lookup(d) \/ SendClosed(d) \/ Write(d) \/ Finish(d)
    PROVE  IInv'
<1> USE DEF IInv
<1>1. /\ UNCHANGED <<tvars, queue, pending, rx_waker, down>>
      /\ \/ UNCHANGED <<woken, io_waker>>
         \/ WakeIo(via[d]) /\ via[d] \in Conns
  BY DEF Arrive, Lookup, SendClosed, Write, Finish, dvars, CAt, Looked
<1>2. /\ woken' \in [Conns -> BOOLEAN] /\ io_waker' \in [Conns -> BOOLEAN]
      /\ WakerLeft'
  BY <1>1 DEF WakeIo, WakerLeft, Shape, tvars
<1>3. /\ cpc' \in [Clients -> CPCs]
      /\ csni' \in [Clients -> Snis \cup {NoSni}]
      /\ via' \in [Clients -> Conns \cup {NoConn}]
      /\ cpc[d] # "wait" /\ cpc'[d] # "wait"
      /\ \A e \in Clients : e # d =>
            cpc'[e] = cpc[e] /\ via'[e] = via[e] /\ csni'[e] = csni[e]
      /\ cpc'[d] = "lookup" => csni'[d] \in Snis
      /\ cpc'[d] \in {"send", "wait", "write", "copy"} => via'[d] \in Conns
  <2>1. CASE \E s \in Snis : Arrive(d, s)
    BY <2>1 DEF Arrive, CAt, CGoto, Shape, CPCs
  <2>2. CASE Lookup(d)
    <3>1. cpc[d] = "lookup" /\ tunnels[csni[d]] \in Conns \cup {NoConn}
      BY <2>2 DEF Lookup, CAt, Looked, Shape
    <3>2. CASE tunnels[csni[d]] = NoConn
      BY <2>2, <3>1, <3>2 DEF Lookup, Leave, Shape, CPCs
    <3>3. CASE tunnels[csni[d]] # NoConn
      <4>1. PICK c \in Conns : c = tunnels[csni[d]]
        BY <3>1, <3>3
      <4>2. /\ via' = [via EXCEPT ![d] = c] /\ cpc' = [cpc EXCEPT ![d] = "send"]
            /\ csni' = csni
        BY <2>2, <3>3, <4>1 DEF Lookup, CGoto
      <4> QED
        BY <3>1, <4>2 DEF Shape, CPCs
    <3> QED
      BY <3>2, <3>3
  <2>3. CASE SendClosed(d) \/ Finish(d)
    BY <2>3 DEF SendClosed, Finish, CAt, Leave, Shape, CPCs
  <2>4. CASE Write(d)
    BY <2>4 DEF Write, CAt, CGoto, Shape, CPCs, Looked
  <2> QED
    BY <2>1, <2>2, <2>3, <2>4
<1>4. Shape'
  BY <1>1, <1>2, <1>3 DEF Shape, tvars
<1>5. Looked'
  BY <1>3 DEF Looked
<1>6. Named' /\ Routed'
  BY <1>1 DEF Named, Routed, tvars
<1>7. ChannelsOk' /\ WaitersAreHeld'
  BY <1>1, <1>3, NotWaiting DEF tvars
<1> QED
  BY <1>2, <1>4, <1>5, <1>6, <1>7

(* The end of a channel with one more request. *)
LEMMA ChannelAppend ==
    ASSUME NEW q \in Seq(Clients), NEW d \in Clients
    PROVE  /\ Append(q, d) \in Seq(Clients) /\ Len(q) \in Nat
           /\ Len(Append(q, d)) = Len(q) + 1 /\ Append(q, d)[Len(q) + 1] = d
           /\ \A i \in 1..Len(q) : Append(q, d)[i] = q[i] /\ q[i] \in Clients
  OBVIOUS

(* A public connection asks a tunnel for a stream. *)
LEMMA SendPreserves ==
    ASSUME IInv, NEW d \in Clients, Send(d)
    PROVE  IInv'
<1> USE DEF IInv
<1>0. PICK c \in Conns : c = via[d]
  BY DEF Send, CAt, Looked
<1> DEFINE q == queue[c]
           t == queue'[c]
<1>1. /\ cpc[d] = "send" /\ RxOpen(c) /\ Len(q) < QueueCap /\ q \in Seq(Clients)
      /\ queue' = [queue EXCEPT ![c] = Append(q, d)]
      /\ cpc' = [cpc EXCEPT ![d] = "wait"] /\ via' = via /\ csni' = csni
      /\ woken' = [woken EXCEPT ![c] = woken[c] \/ rx_waker[c]]
      /\ rx_waker' = [rx_waker EXCEPT ![c] = FALSE]
      /\ UNCHANGED <<tunnels, pc, sni, pending, io_waker, down>>
  BY <1>0 DEF Send, CAt, CGoto, tvars, Shape
<1>2. /\ t = Append(q, d) /\ t \in Seq(Clients)
      /\ Len(q) \in Nat /\ Len(t) = Len(q) + 1 /\ t[Len(q) + 1] = d
      /\ \A i \in 1..Len(q) : t[i] = q[i] /\ q[i] \in Clients
      /\ \A b \in Conns : b # c => queue'[b] = queue[b]
  <2>1. t = Append(q, d) /\ \A b \in Conns : b # c => queue'[b] = queue[b]
    BY <1>1 DEF Shape
  <2> QED
    BY <1>1, <2>1, ChannelAppend
<1>3. /\ cpc'[d] = "wait"
      /\ \A e \in Clients : e # d => cpc'[e] = cpc[e]
  BY <1>1 DEF Shape
<1>4. Shape'
  <2>1. queue' \in [Conns -> Seq(Clients)]
    BY <1>1, <1>2 DEF Shape
  <2>2. woken' \in [Conns -> BOOLEAN] /\ rx_waker' \in [Conns -> BOOLEAN]
    BY <1>1 DEF Shape
  <2>3. cpc' \in [Clients -> CPCs]
    BY <1>1 DEF Shape, CPCs
  <2> HIDE DEF q
  <2> QED
    BY <1>1, <2>1, <2>2, <2>3 DEF Shape
<1>5. Named' /\ Routed'
  BY <1>1 DEF Named, Routed
<1>6. WakerLeft'
  BY <1>1 DEF WakerLeft, Shape
<1>7. Looked'
  BY <1>0, <1>1, <1>3 DEF Looked
<1>8. ASSUME NEW b \in Conns PROVE ChannelOk(b)'
  <2>1. ChannelOk(b) /\ (RxOpen(b)' <=> RxOpen(b)) /\ pending'[b] = pending[b]
    BY <1>1 DEF ChannelsOk, RxOpen
  <2>2. \A i \in 1..Len(queue[b]) : queue[b][i] \in Clients
    BY DEF Shape
  <2>3. \A i \in 1..Len(queue[b]) :
           /\ queue[b][i] # d /\ cpc'[queue[b][i]] = "wait"
           /\ via'[queue[b][i]] = b
    BY <1>1, <1>3, <2>1, <2>2 DEF ChannelOk
  <2>4. pending[b] # NoClient =>
           /\ pending[b] # d /\ cpc'[pending[b]] = "wait" /\ via'[pending[b]] = b
    <3>1. pending[b] \in Clients \cup {NoClient}
      BY DEF Shape
    <3> QED
      BY <1>1, <1>3, <2>1, <3>1 DEF ChannelOk
  <2>5. CASE b # c
    <3>1. queue'[b] = queue[b]
      BY <1>2, <2>5
    <3> QED
      BY <2>1, <2>3, <2>4, <3>1 DEF ChannelOk
  <2>6. CASE b = c
    <3>1. Len(t) <= QueueCap
      BY <1>1, <1>2, QueueAssumption
    <3>2. \A i \in 1..Len(t) : i \in 1..Len(q) \/ i = Len(q) + 1
      BY <1>2
    <3>3. \A i \in 1..Len(t) : cpc'[t[i]] = "wait" /\ via'[t[i]] = c
      BY <1>0, <1>1, <1>2, <1>3, <2>3, <2>6, <3>2
    <3>4. \A i, j \in 1..Len(t) : t[i] = t[j] => i = j
      <4> SUFFICES ASSUME NEW i \in 1..Len(t), NEW j \in 1..Len(t), t[i] = t[j]
                   PROVE  i = j
        OBVIOUS
      <4>1. CASE i \in 1..Len(q) /\ j \in 1..Len(q)
        BY <1>2, <2>1, <2>6, <4>1 DEF ChannelOk
      <4>2. \A k \in 1..Len(q) : t[k] # d
        BY <1>2, <2>3, <2>6
      <4> QED
        BY <1>2, <3>2, <4>1, <4>2
    <3>5. \A i \in 1..Len(t) : t[i] # pending'[c]
      <4> SUFFICES ASSUME NEW i \in 1..Len(t) PROVE t[i] # pending'[c]
        OBVIOUS
      <4>1. CASE i \in 1..Len(q)
        BY <1>2, <2>1, <2>6, <4>1 DEF ChannelOk
      <4>2. CASE i = Len(q) + 1
        BY <1>2, <2>1, <2>4, <2>6, <4>2, NoneAssumption
      <4> QED
        BY <3>2, <4>1, <4>2
    <3>6. RxOpen(c)'
      BY <1>1, <2>1, <2>6
    <3> QED
      BY <2>1, <2>4, <2>6, <3>1, <3>3, <3>4, <3>5, <3>6 DEF ChannelOk
  <2> QED
    BY <2>5, <2>6
<1>9. WaitersAreHeld'
  <2> SUFFICES ASSUME NEW e \in Clients, cpc'[e] = "wait"
               PROVE  via'[e] \in Conns /\ RxOpen(via[e])' /\ HeldBy(via[e], e)'
    BY DEF WaitersAreHeld
  <2>1. CASE e = d
    <3>1. Len(q) + 1 \in 1..Len(t)
      BY <1>2
    <3> QED
      BY <1>0, <1>1, <1>2, <2>1, <3>1 DEF HeldBy, RxOpen
  <2>2. CASE e # d
    <3>1. /\ via'[e] = via[e] /\ via[e] \in Conns /\ RxOpen(via[e])
          /\ HeldBy(via[e], e)
      BY <1>1, <1>3, <2>2 DEF WaitersAreHeld
    <3>2. CASE via[e] # c
      BY <1>1, <1>2, <3>1, <3>2 DEF HeldBy, RxOpen
    <3>3. CASE via[e] = c
      <4>1. \A i \in 1..Len(q) : i \in 1..Len(t) /\ t[i] = q[i]
        BY <1>2
      <4> QED
        BY <1>1, <3>1, <3>3, <4>1 DEF HeldBy, RxOpen
    <3> QED
      BY <3>2, <3>3
  <2> QED
    BY <2>1, <2>2
<1> HIDE DEF q, t
<1> QED
  BY <1>4, <1>5, <1>6, <1>7, <1>8, <1>9 DEF ChannelsOk

(* Every step of the relay keeps the invariant. *)
LEMMA Inductive == IInv /\ [Next]_vars => IInv'
<1> SUFFICES ASSUME IInv, [Next]_vars PROVE IInv'
  OBVIOUS
<1>1. CASE UNCHANGED vars
  <2>1. ChannelsOk' /\ WaitersAreHeld'
    BY <1>1 DEF IInv, vars, ChannelsOk, ChannelOk, WaitersAreHeld, HeldBy, RxOpen
  <2>2. Shape' /\ Named' /\ Looked' /\ Routed' /\ WakerLeft'
    BY <1>1 DEF IInv, vars, Shape, Named, Looked, Routed, WakerLeft
  <2> QED
    BY <2>1, <2>2 DEF IInv
<1>2. ASSUME NEW c \in Conns,
             \/ \E s \in Snis : Register(c, s)
             \/ Control(c) \/ IoEvent(c) \/ LinkFails(c)
      PROVE  IInv'
  <2>1. CASE (\E s \in Snis : Register(c, s)) \/ IoEvent(c) \/ LinkFails(c)
    BY <2>1, RegistrationPreserves, InboundPreserves
  <2>2. CASE Control(c)
    BY <2>2, RegistrationPreserves, OutboundPreserves, InboundPreserves,
       DropPreserves DEF Control
  <2> QED
    BY <1>2, <2>1, <2>2
<1>3. ASSUME NEW d \in Clients,
             (\E s \in Snis : Arrive(d, s)) \/ Data(d) \/ Finish(d)
      PROVE  IInv'
  BY <1>3, ClientPreserves, SendPreserves DEF Data
<1> QED
  BY <1>1, <1>2, <1>3 DEF Next

(* The invariant holds in every behaviour. *)
LEMMA Invariance == Spec => []IInv
  BY InitIInv, Inductive, PTL DEF Spec

(* Every variable keeps its type, and no request channel outgrows its capacity
   however many public connections of a name ask for a stream at once. *)
THEOREM TypeCorrect == Spec => []TypeOK
<1>1. IInv => TypeOK
  BY DEF IInv, Shape, ChannelsOk, ChannelOk, TypeOK
<1> QED
  BY <1>1, Invariance, PTL

(* Whatever registrations, removals and failures interleave, the session map
   never leads a public connection to a tunnel of another name or to one whose
   receiver is gone. *)
THEOREM RoutesLive == Spec => []RoutesAreLive
<1>1. IInv => RoutesAreLive
  BY DEF IInv, Routed, Shape, RoutesAreLive
<1> QED
  BY <1>1, Invariance, PTL

(* The driver loop never sleeps without a waker in yamux. *)
THEOREM WakersLeft == Spec => []WakerLeft
  BY Invariance, PTL DEF IInv

(* No request for a stream is lost: while its public connection waits, it is in
   the channel or in the hand of the very tunnel it was sent to, whose task has
   not ended. *)
THEOREM NoRequestLost == Spec => []WaitersAreHeld
  BY Invariance, PTL DEF IInv

(* remove_if compares generations: a route disappears only in the removal step
   of its own tunnel, so an old connection cannot delete the entry of the one
   that replaced it. *)
THEOREM NewTunnelsSurvive == Spec => NewTunnelSurvives
<1> DEFINE Survives == \A s \in Snis :
              tunnels[s] # NoConn /\ tunnels'[s] = NoConn
                  => pc[tunnels[s]] = "remove"
<1>1. IInv /\ [Next]_vars => [Survives]_vars
  <2> SUFFICES ASSUME IInv, Next, NEW s \in Snis,
                      tunnels[s] # NoConn, tunnels'[s] = NoConn
               PROVE  pc[tunnels[s]] = "remove"
    BY DEF vars
  <2>1. PICK c \in Conns : Insert(c) \/ RemoveRoute(c)
    BY DEF Next, Control, Register, CheckExisting, PollOutbound, PollNoRequest,
           PollOpened, PollRefused, PollBacklogged, BeginPoll, PollInbound,
           PollQuiet, PollUnexpected, PollEnded, DropRx, IoEvent, LinkFails,
           Arrive, Data, Lookup, Send, SendClosed, Write, Finish, tvars
  <2>2. CASE Insert(c)
    BY <2>2, NoneAssumption DEF Insert, IInv, Shape
  <2>3. CASE RemoveRoute(c)
    BY <2>3 DEF RemoveRoute, At, IInv, Shape
  <2> QED
    BY <2>1, <2>2, <2>3
<1> QED
  BY <1>1, Invariance, PTL DEF Spec, NewTunnelSurvives
=============================================================================
