------------------------------ MODULE UdpFinder ------------------------------
(***************************************************************************)
(* The other way to be found in the local network (udp_finder.c with       *)
(* FINDER_USING_UDP): whoever sends a datagram that begins with the        *)
(* password is told the device's identity.  Datagrams are read into one    *)
(* buffer, which still holds the end of an earlier and longer one.         *)
(*                                                                         *)
(* is_running is set and cleared by this thread alone, which looks at it   *)
(* only between the two; pc says as much.                                  *)
(***************************************************************************)
EXTENDS Integers, Sequences

CONSTANTS
  Password,     \* beep_espush_finder, as bytes that are not 0
  RecvSize,     \* size of recv_data
  Datagrams,    \* what hosts send: [from, data]
  Sockets,      \* sockets of the stack
  MaxQueued,    \* bound: datagrams that wait in a socket
  MaxReceived,  \* bound: datagrams that are read
  MaxFaults     \* bound: calls that fail and losses of the network

UdpFinderAssumption ==
  /\ RecvSize \in Nat /\ Password \in Seq(Nat \ {0}) /\ Len(Password) < RecvSize
  /\ \A d \in Datagrams : d.data \in Seq(Nat)
  /\ Sockets \in Nat \ {0} /\ {MaxQueued, MaxReceived, MaxFaults} \subseteq Nat

VARIABLES
  upc,         \* of udp_finder_task: "wait", "socket", "bind", "select", "recv", "close"
  used,        \* sockets in use
  queue,       \* datagrams in the bound socket
  recv_data,
  ready,       \* rt_wlan_is_ready
  received,    \* what was read: [from, data, failed], failed if sendto fails
  told,        \* hosts that were sent the identity
  faults

uvars == <<upc, used, queue, recv_data, ready, received, told, faults>>

Fails == faults < MaxFaults /\ faults' = faults + 1
Keeps == UNCHANGED <<recv_data, received, told>>

\* wait_network asks again after half a second.
wait_network ==
  /\ upc = "wait" /\ ready /\ upc' = "socket"
  /\ UNCHANGED <<used, queue, ready, faults>> /\ Keeps

\* Without a socket the task waits a second.
socket ==
  /\ upc = "socket"
  /\ \/ used < Sockets /\ used' = used + 1 /\ upc' = "bind" /\ UNCHANGED faults
     \/ (IF used = Sockets THEN UNCHANGED faults ELSE Fails) /\ upc' = "wait" /\ UNCHANGED used
  /\ UNCHANGED <<queue, ready>> /\ Keeps

\* The beginning of finder_main.
bind ==
  /\ upc = "bind"
  /\ \/ upc' = "select" /\ UNCHANGED faults
     \/ Fails /\ upc' = "close"
  /\ recv_data' = [i \in 1 .. RecvSize |-> 0]
  /\ UNCHANGED <<used, queue, ready, received, told>>

\* select reports a datagram, or fails; without either it is asked again.
select ==
  /\ upc = "select" /\ upc' = "recv"
  /\ \/ queue # <<>> /\ UNCHANGED faults
     \/ Fails
  /\ UNCHANGED <<used, queue, ready>> /\ Keeps

\* handle_recv looks for the password in the buffer.
Filled_open(data) == [i \in 1 .. RecvSize |-> IF i <= Len(data) THEN data[i] ELSE recv_data[i]]
Filled(data) ==
  [i \in 1 .. RecvSize |-> IF i <= Len(data) THEN data[i] ELSE IF i = Len(data) + 1 THEN 0 ELSE recv_data[i]]
handle_recv(d, failed) ==
  told' = IF SubSeq(recv_data', 1, Len(Password)) = Password /\ ~failed THEN Append(told, d.from) ELSE told

\* recvfrom takes what fits; an empty datagram is passed over.  After an error
\* finder_main returns.
recvfrom ==
  /\ upc = "recv"
  /\ \/ /\ queue # <<>> /\ queue' = Tail(queue) /\ upc' = "select"
        /\ LET d    == Head(queue)
               data == SubSeq(d.data, 1, IF Len(d.data) < RecvSize THEN Len(d.data) ELSE RecvSize - 1)
           IN IF data = <<>> THEN Keeps /\ UNCHANGED faults
              ELSE /\ recv_data' = Filled(data)
                   /\ \E failed \in BOOLEAN :
                        /\ IF failed THEN Fails ELSE UNCHANGED faults
                        /\ handle_recv(d, failed)
                        /\ received' = Append(received, [from |-> d.from, data |-> d.data, failed |-> failed])
     \/ Fails /\ upc' = "close" /\ UNCHANGED queue /\ Keeps
  /\ UNCHANGED <<used, ready>>

\* closesocket
Closed_not == used
Closed == used - 1
closesocket ==
  /\ upc = "close" /\ upc' = "wait" /\ used' = Closed /\ queue' = <<>>
  /\ UNCHANGED <<ready, faults>> /\ Keeps

udp_finder_task == wait_network \/ socket \/ bind \/ select \/ recvfrom \/ closesocket

-----------------------------------------------------------------------------
(* The network                                                             *)

Arrives(d) ==
  /\ ready /\ upc \in {"select", "recv"} /\ Len(queue) < MaxQueued /\ Len(received) + Len(queue) < MaxReceived
  /\ queue' = Append(queue, d) /\ UNCHANGED <<upc, used, ready, faults>> /\ Keeps
Lost == ready /\ Fails /\ ready' = FALSE /\ UNCHANGED <<upc, used, queue>> /\ Keeps
Back == ~ready /\ ready' = TRUE /\ UNCHANGED <<upc, used, queue, faults>> /\ Keeps

Init ==
  /\ upc = "wait" /\ used = 0 /\ queue = <<>> /\ recv_data = [i \in 1 .. RecvSize |-> 0]
  /\ ready \in BOOLEAN /\ received = <<>> /\ told = <<>> /\ faults = 0

Next == udp_finder_task \/ (\E d \in Datagrams : Arrives(d)) \/ Lost \/ Back

\* The task is scheduled, and the network comes back.
Stirs == upc \in {"socket", "bind", "close"} \/ (upc = "wait" /\ ready) \/ queue # <<>>
FinderSpec ==
  /\ Init /\ [][Next]_uvars
  /\ []<>~Stirs \/ []<><<udp_finder_task>>_uvars
  /\ []<>ready \/ []<><<Back>>_uvars

-----------------------------------------------------------------------------
\* Every variable has a value of its type.
TypeOK ==
  /\ upc \in {"wait", "socket", "bind", "select", "recv", "close"} /\ used \in 0 .. Sockets
  /\ queue \in Seq(Datagrams) /\ Len(queue) <= MaxQueued /\ recv_data \in [1 .. RecvSize -> Nat]
  /\ ready \in BOOLEAN /\ faults \in 0 .. MaxFaults /\ Len(told) <= Len(received)

\* Told are those whose own datagram begins with the password, in the order
\* they asked, unless sendto failed: a shorter datagram is not completed by
\* what an earlier one left in the buffer.
Knocks(data) == Len(Password) <= Len(data) /\ SubSeq(data, 1, Len(Password)) = Password
Called == {i \in DOMAIN received : Knocks(received[i].data) /\ ~received[i].failed}
TellsCallers ==
  \E asked \in [DOMAIN told -> Called] :
    /\ \A i, j \in DOMAIN told : i < j => asked[i] < asked[j]
    /\ \A k \in Called : \E i \in DOMAIN told : asked[i] = k
    /\ \A i \in DOMAIN told : told[i] = received[asked[i]].from

\* What of it is inductive: the task has one socket, or none.
OneSocket == used = IF upc \in {"wait", "socket"} THEN 0 ELSE 1
Histories == /\ told \in Seq({d.from : d \in Datagrams})
             /\ received \in Seq([from : {d.from : d \in Datagrams}, data : Seq(Nat), failed : BOOLEAN])
FinderInv == TypeOK /\ TellsCallers /\ OneSocket /\ Histories

\* Whatever fails, the task listens again: it runs out of neither sockets nor
\* attempts.
ListensAgain == [](upc = "wait" => <>(upc = "select"))
=============================================================================
