-------------------------- MODULE Supervisor_proofs -------------------------
(***************************************************************************)
(* Proofs about Supervisor, for every number of descriptors and retries.   *)
(***************************************************************************)
EXTENDS Supervisor, FiniteSetTheorems, TLAPS

\* What FreeAnswer adds to lost is a number.
LEMMA LostCounts ==
  ASSUME NEW S \in SUBSET Blocks
  PROVE  Cardinality(S \intersect {"frame_buf"}) \in Nat
<1>1. IsFiniteSet(S \intersect {"frame_buf"})
  BY FS_EmptySet, FS_Singleton, FS_Subset
<1> QED  BY <1>1, FS_CardinalityType

LEMMA TypeStep ==
  ASSUME TypeOK, [Next]_vars
  PROVE  TypeOK'
<1>0. DnsTries \in Nat \ {0} /\ ConnectTries \in Nat \ {0} /\ MaxFaults \in Nat
  BY SupervisorAssumption
<1> USE DEF TypeOK, Trying, Online, Closing, Offline, Stopped
<1>f. Fault => faults' \in 0..MaxFaults
  BY <1>0 DEF Fault
<1>1. CASE UNCHANGED vars
  BY <1>1 DEF vars
<1>2. CASE NetUp
  BY <1>2 DEF NetUp
<1>3. CASE Goes
  <2>1. CASE Start
    BY <1>0, <2>1 DEF Start
  <2>2. CASE Wake
    BY <2>2 DEF Wake
  <2>3. CASE BootstrapDone \/ BootstrapNoSocket
    BY <1>0, <2>3 DEF BootstrapDone, BootstrapNoSocket
  <2>4. CASE DnsDone
    BY <1>0, <2>4 DEF DnsDone
  <2>5. CASE OpenSocket
    BY <2>5 DEF OpenSocket
  <2>6. CASE Connect
    BY <2>6 DEF Connect
  <2>7. CASE SendLogin
    BY <2>7 DEF SendLogin, Blocks
  <2>8. CASE RecvHead
    BY <2>8 DEF RecvHead, Blocks
  <2>9. CASE RecvBody
    BY <2>9 DEF RecvBody, Blocks
  <2>10. CASE Accepted
    BY <2>10, LostCounts DEF Accepted, FreeAnswer
  <2>11. CASE NoAnswer
    BY <2>11, LostCounts DEF NoAnswer, FreeAnswer
  <2>12. CASE Clean
    <3>1. pc' \in Offline /\ pc' \notin {"dns", "socket", "connecting"}
      BY <2>12 DEF Clean
    <3>2. open' \subseteq Fds /\ sock' \in Fds \union {NoSock}
      BY <2>12 DEF Clean
    <3> QED  BY <2>12, <3>1, <3>2 DEF Clean
  <2> QED
    BY <1>3, <2>1, <2>2, <2>3, <2>4, <2>5, <2>6, <2>7, <2>8, <2>9, <2>10, <2>11, <2>12
    DEF Goes
<1>4. CASE GoesWrong
  <2>1. CASE NetDown
    BY <1>f, <2>1 DEF NetDown
  <2>2. CASE BootstrapNoMemory
    BY <1>f, <2>2 DEF BootstrapNoMemory
  <2>3. CASE BootstrapFails
    BY <1>f, <2>3 DEF BootstrapFails
  <2>4. CASE BootstrapGarbled
    BY <1>f, <2>4 DEF BootstrapGarbled
  <2>5. CASE DnsFails
    BY <1>0, <1>f, <2>5 DEF DnsFails
  <2>6. CASE SocketFails
    BY <1>f, <2>6 DEF SocketFails
  <2>7. CASE ConnectFails
    BY <1>0, <1>f, <2>7 DEF ConnectFails
  <2>8. CASE SendLoginFails
    BY <1>f, <2>8 DEF SendLoginFails
  <2>9. CASE RecvHeadFails
    BY <1>f, <2>9 DEF RecvHeadFails
  <2>10. CASE RecvBodyFails \/ RecvNoBody \/ RecvBodyOverruns
    <3>1. pc' \in {"clean_hour", "answered", "fault"} /\ blocks' \subseteq Blocks
      BY <2>10 DEF RecvBodyFails, RecvNoBody, RecvBodyOverruns, Blocks
    <3> QED  BY <1>f, <2>10, <3>1 DEF RecvBodyFails, RecvNoBody, RecvBodyOverruns
  <2>11. CASE Refused
    <3>1. lost' \in Nat
      BY <2>11, LostCounts DEF Refused, FreeAnswer
    <3>2. blocks' = {} /\ pc' = "clean_hour"
      BY <2>11 DEF Refused, FreeAnswer
    <3> QED  BY <1>f, <2>11, <3>1, <3>2 DEF Refused
  <2>12. CASE SessionOver
    BY <1>f, <2>12 DEF SessionOver
  <2>13. CASE BootstrapRedirected
    <3>1. lost' \in Nat
      BY <2>13 DEF BootstrapRedirected, SessionBlocks
    <3>2. pc' \in {"bootstrap", "fault", "hour", "short", "dns"}
      BY <2>13 DEF BootstrapRedirected
    <3>3. open' \subseteq Fds /\ left' \subseteq Fds /\ refused' \in BOOLEAN
      BY <2>13 DEF BootstrapRedirected
    <3>4. tries' \in Nat /\ (pc' = "dns" => tries' < DnsTries)
      BY <1>0, <2>13 DEF BootstrapRedirected
    <3> QED  BY <1>f, <2>13, <3>1, <3>2, <3>3, <3>4 DEF BootstrapRedirected
  <2> QED
    BY <1>4, <2>1, <2>2, <2>3, <2>4, <2>5, <2>6, <2>7, <2>8, <2>9, <2>10, <2>11, <2>12,
       <2>13
    DEF GoesWrong
<1> QED  BY <1>1, <1>2, <1>3, <1>4 DEF Next

\* Every variable keeps its type, and the retries of names and connections
\* stay within their numbers.
THEOREM TypeCorrect == Spec => []TypeOK
<1>1. Init => TypeOK
  <2>1. 0 \in 0..MaxFaults /\ 0 \in Nat  BY SupervisorAssumption
  <2> QED  BY <2>1 DEF Init, TypeOK, Offline
<1> QED  BY <1>1, TypeStep, PTL DEF Spec

LEMMA SocketStep ==
  ASSUME OneSocket, [Next]_vars
  PROVE  OneSocket'
<1> USE DEF OneSocket, Trying, Online, Closing, Offline
<1>1. CASE UNCHANGED vars \/ NetUp
  BY <1>1 DEF vars, NetUp
<1>2. CASE Goes
  <2>1. CASE \/ Start \/ Wake \/ BootstrapDone \/ BootstrapNoSocket \/ DnsDone
             \/ OpenSocket \/ Connect
    BY <2>1 DEF Start, Wake, BootstrapDone, BootstrapNoSocket, DnsDone, OpenSocket, Connect
  <2>2. CASE SendLogin \/ RecvHead \/ RecvBody \/ Accepted \/ NoAnswer
    BY <2>2 DEF SendLogin, RecvHead, RecvBody, Accepted, NoAnswer
  <2>3. CASE Clean
    BY <2>3 DEF Clean, Closing
  <2> QED  BY <1>2, <2>1, <2>2, <2>3 DEF Goes
<1>3. CASE GoesWrong
  <2>1. CASE NetDown \/ BootstrapNoMemory \/ BootstrapFails \/ BootstrapGarbled
    BY <2>1 DEF NetDown, BootstrapNoMemory, BootstrapFails, BootstrapGarbled
  <2>4. CASE BootstrapRedirected
    BY <2>4 DEF BootstrapRedirected
  <2>2. CASE DnsFails \/ SocketFails \/ ConnectFails
    BY <2>2 DEF DnsFails, SocketFails, ConnectFails
  <2>3. CASE SendLoginFails \/ RecvHeadFails \/ RecvBodyFails \/ Refused \/ SessionOver
    BY <2>3 DEF SendLoginFails, RecvHeadFails, RecvBodyFails, Refused, SessionOver
  <2>5. CASE RecvNoBody \/ RecvBodyOverruns
    BY <2>5 DEF RecvNoBody, RecvBodyOverruns
  <2> QED  BY <1>3, <2>1, <2>2, <2>3, <2>4, <2>5 DEF GoesWrong
<1> QED  BY <1>1, <1>2, <1>3 DEF Next

\* At most one socket is open, it is the one sock_task works with, and every
\* way out of sock_task closes it.
THEOREM SocketsClosed == Spec => []OneSocket
<1>1. Init => OneSocket  BY DEF Init, OneSocket, Trying, Online, Closing, Offline
<1> QED  BY <1>1, SocketStep, PTL DEF Spec

\* What a step adds: to lost, to what outside failures account for, to the
\* sockets left behind.
LEMMA CardinalityLeft ==
  ASSUME TypeOK
  PROVE  /\ Cardinality(left) \in Nat
         /\ \A fd \in Fds \ left : Cardinality(left \union {fd}) = Cardinality(left) + 1
<1>1. IsFiniteSet(left)
  BY SupervisorAssumption, FS_Subset DEF TypeOK
<1> QED  BY <1>1, FS_CardinalityType, FS_AddElement

LEMMA FreedAnswer ==
  ASSUME TypeOK, FreeAnswer
  PROVE  lost' \in {lost, lost + 1} /\ blocks' = {}
<1>1. CASE "frame_buf" \in blocks
  <2>1. blocks \intersect {"frame_buf"} = {"frame_buf"}  BY <1>1
  <2>2. Cardinality({"frame_buf"}) = 1  BY FS_Singleton
  <2> QED  BY <2>1, <2>2 DEF FreeAnswer
<1>2. CASE "frame_buf" \notin blocks
  <2>1. blocks \intersect {"frame_buf"} = {}  BY <1>2
  <2>2. Cardinality({}) = 0  BY FS_EmptySet
  <2> QED  BY <2>1, <2>2 DEF FreeAnswer, TypeOK
<1> QED  BY <1>1, <1>2

LEMMA Within ==
  ASSUME NEW l \in Nat, NEW f \in Nat, NEW n \in Nat, NEW s \in Nat, l <= 2 * f + 5 * n
  PROVE  l <= 2 * f + 5 * n + s
OBVIOUS

LEMMA Later ==
  ASSUME NEW l \in Nat, NEW k \in Nat, NEW f \in Nat, NEW g \in Nat, NEW n \in Nat,
         l <= 2 * f + 5 * n + k, g = f \/ g = f + 1
  PROVE  l <= 2 * g + 5 * n + k
OBVIOUS

LEMMA LaterFull ==
  ASSUME NEW l \in Nat, NEW f \in Nat, NEW g \in Nat, NEW n \in Nat,
         l <= 2 * f + 5 * n, g = f \/ g = f + 1
  PROVE  l <= 2 * g + 5 * n
OBVIOUS

LEMMA LossStep ==
  ASSUME TypeOK, TypeOK', OneSocket, LossInv, [Next]_vars
  PROVE  LossInv'
<1> DEFINE left_n == Cardinality(left)
<1>0. /\ lost \in Nat /\ lost' \in Nat /\ faults \in Nat /\ faults' \in Nat
      /\ SessionBlocks = 5 /\ left_n \in Nat
  BY SupervisorAssumption, CardinalityLeft DEF TypeOK, SessionBlocks
<1>1. Fault => faults' = faults + 1  BY DEF Fault
<1> HIDE DEF left_n
<1>2. /\ left \subseteq open
      /\ pc = "answered" /\ "data" \notin blocks => lost + 1 <= 2 * faults + 5 * left_n
      /\ lost <= 2 * faults + 5 * left_n + Spare
  BY <1>0 DEF LossInv, left_n
<1>3. SUFFICES ASSUME \/ left' = left
                      \/ Cardinality(left') = left_n + 1
               PROVE  LossInv'
  <2>1. CASE BootstrapRedirected
    <3>1. left' = left \/ \E fd \in Fds \ left : left' = left \union {fd}
      BY <1>2, <2>1 DEF BootstrapRedirected
    <3> QED  BY <1>3, <3>1, CardinalityLeft DEF left_n
  <2>2. CASE ~BootstrapRedirected
    <3>1. left' = left
      BY <2>2 DEF Next, vars, NetUp, Goes, Start, Wake, BootstrapDone, BootstrapNoSocket,
         DnsDone, OpenSocket, Connect, SendLogin, RecvHead, RecvBody, Accepted, NoAnswer,
         Clean, GoesWrong, NetDown, BootstrapNoMemory, BootstrapFails, BootstrapGarbled,
         DnsFails, SocketFails, ConnectFails, SendLoginFails, RecvHeadFails,
         RecvBodyFails, RecvNoBody, RecvBodyOverruns, Refused, SessionOver
    <3> QED  BY <1>3, <3>1
  <2> QED  BY <2>1, <2>2
<1>4. ASSUME left' = left, left' \subseteq open',
             pc' = "answered" /\ "data" \notin blocks' =>
               lost' + 1 <= 2 * faults' + 5 * left_n,
             lost' <= 2 * faults' + 5 * left_n + Spare'
      PROVE  LossInv'
  BY <1>0, <1>4 DEF LossInv, left_n
<1>13. ASSUME left' = left, left' \subseteq open',
              pc' = "answered" /\ "data" \notin blocks' =>
                lost' + 1 <= 2 * faults' + 5 * left_n,
              lost' <= 2 * faults' + 5 * left_n
       PROVE  LossInv'
  <2>1. Spare' \in Nat  BY DEF Spare
  <2>2. lost' <= 2 * faults' + 5 * left_n + Spare'
    BY <1>0, <1>13, <2>1, Within
  <2> QED  BY <1>4, <1>13, <2>2
<1>5. /\ Spare = 0 \/ Spare = 1
      /\ Spare' = 0 \/ Spare' = 1
      /\ Spare \in Nat /\ Spare' \in Nat
  BY DEF Spare
<1>6. CASE UNCHANGED vars \/ NetUp \/ NetDown
  <2>1. /\ left' = left /\ open' = open /\ lost' = lost /\ pc' = pc /\ blocks' = blocks
        /\ faults' = faults \/ faults' = faults + 1
        /\ Spare' = Spare
    BY <1>1, <1>6 DEF vars, NetUp, NetDown, Spare
  <2>2. lost' <= 2 * faults' + 5 * left_n + Spare
    BY <1>0, <1>2, <1>5, <2>1, Later
  <2>3. pc' = "answered" /\ "data" \notin blocks' =>
          lost' + 1 <= 2 * faults' + 5 * left_n
    <3>1. SUFFICES ASSUME pc = "answered", "data" \notin blocks
                   PROVE  lost + 1 <= 2 * faults' + 5 * left_n
      BY <2>1
    <3>2. lost + 1 <= 2 * faults + 5 * left_n  BY <1>0, <1>2, <3>1
    <3>3. lost + 1 \in Nat  BY <1>0
    <3>4. lost + 1 <= 2 * faults' + 5 * left_n
      BY <1>0, <2>1, <3>2, <3>3, LaterFull
    <3> QED  BY <3>4
  <2> QED  BY <1>2, <1>4, <2>1, <2>2, <2>3
<1>7. CASE \/ Start \/ Wake \/ BootstrapDone \/ BootstrapNoSocket \/ DnsDone
           \/ Connect \/ SendLogin \/ RecvHead \/ RecvBody \/ OpenSocket
  <2>1. /\ left' = left /\ open \subseteq open' /\ lost' = lost /\ faults' = faults
        /\ pc' = "answered" => "data" \in blocks'
        /\ Spare = 0
    BY <1>7 DEF Start, Wake, BootstrapDone, BootstrapNoSocket, DnsDone, Connect, SendLogin,
       RecvHead, RecvBody, OpenSocket, Spare
  <2>2. lost' <= 2 * faults' + 5 * left_n  BY <1>0, <1>2, <2>1
  <2> QED  BY <1>2, <1>13, <2>1, <2>2
<1>8. CASE Accepted
  <2>1. /\ left' = left /\ open' = open /\ faults' = faults /\ pc' = "session"
        /\ pc = "answered" /\ lost' \in {lost, lost + 1} /\ Spare = 0 /\ Spare' = 1
    BY <1>8, FreedAnswer DEF Accepted, Spare
  <2> QED  BY <1>0, <1>2, <1>4, <2>1
<1>9. CASE NoAnswer
  <2>1. /\ left' = left /\ open' = open /\ faults' = faults /\ pc' = "clean_hour"
        /\ pc = "answered" /\ "data" \notin blocks
        /\ lost' \in {lost, lost + 1} /\ Spare' = 0
    BY <1>9, FreedAnswer DEF NoAnswer, Spare
  <2> QED  BY <1>0, <1>2, <1>4, <2>1
<1>10. CASE Clean
  <2>1. /\ left' = left /\ faults' = faults /\ lost' = lost /\ Spare = 0
        /\ pc' \in {"short", "hour"}
    BY <1>10 DEF Clean, Closing, Spare
  <2>2. left' \subseteq open'
    <3>1. sock \notin left  BY <1>10 DEF Clean, OneSocket
    <3> QED  BY <1>2, <1>10, <3>1 DEF Clean
  <2>3. lost' <= 2 * faults' + 5 * left_n  BY <1>0, <1>2, <2>1
  <2> QED  BY <1>13, <2>1, <2>2, <2>3
<1>11. CASE GoesWrong /\ ~NetDown /\ ~BootstrapRedirected
  <2>1. left' = left
    BY <1>11 DEF GoesWrong, BootstrapNoMemory, BootstrapFails, BootstrapGarbled, DnsFails,
       SocketFails, ConnectFails, SendLoginFails, RecvHeadFails, RecvBodyFails, RecvNoBody,
       RecvBodyOverruns, Refused, SessionOver
  <2>2. left' \subseteq open'
    <3>1. CASE ConnectFails
      <4>1. sock \notin left  BY <3>1 DEF ConnectFails, OneSocket, Trying
      <4> QED  BY <1>2, <2>1, <3>1, <4>1 DEF ConnectFails
    <3>2. CASE ~ConnectFails
      <4>1. open' = open
        BY <1>11, <3>2 DEF GoesWrong, BootstrapNoMemory, BootstrapFails, BootstrapGarbled,
           DnsFails, SocketFails, SendLoginFails, RecvHeadFails, RecvBodyFails,
           RecvNoBody, RecvBodyOverruns, Refused, SessionOver
      <4> QED  BY <1>2, <2>1, <4>1
    <3> QED  BY <3>1, <3>2
  <2>3. CASE SocketFails
    <3>1. /\ lost' = lost /\ pc' = "short" /\ Spare = 0
          /\ faults' = faults \/ faults' = faults + 1
      BY <1>1, <2>3 DEF SocketFails, Spare
    <3>2. lost' <= 2 * faults' + 5 * left_n
      <4>1. lost' <= 2 * faults + 5 * left_n  BY <1>0, <1>2, <3>1
      <4>2. lost' <= 2 * faults' + 5 * left_n  BY <1>0, <3>1, <4>1, LaterFull
      <4> QED  BY <4>2
    <3> QED  BY <1>13, <2>1, <2>2, <3>1, <3>2
  <2>4. CASE ~SocketFails
    <3>1. faults' = faults + 1
      BY <1>1, <1>11, <2>4 DEF GoesWrong, BootstrapNoMemory, BootstrapFails,
         BootstrapGarbled, DnsFails, ConnectFails, SendLoginFails, RecvHeadFails,
         RecvBodyFails, RecvNoBody, RecvBodyOverruns, Refused, SessionOver
    <3>2. lost' <= lost + 1 \/ (Spare = 0 /\ lost' <= lost + 2 /\ pc' = "short")
      <4>1. CASE Refused
        <5>1. lost' \in {lost, lost + 1}  BY <4>1, FreedAnswer DEF Refused
        <5> QED  BY <1>0, <5>1
      <4>2. CASE BootstrapGarbled
        BY <1>0, <4>2 DEF BootstrapGarbled, Spare
      <4>3. CASE ~Refused /\ ~BootstrapGarbled
        <5>1. lost' = lost
          BY <1>11, <4>3 DEF GoesWrong, BootstrapNoMemory, BootstrapFails, DnsFails,
             SocketFails, ConnectFails, SendLoginFails, RecvHeadFails, RecvBodyFails,
             RecvNoBody, RecvBodyOverruns, SessionOver
        <5> QED  BY <1>0, <5>1
      <4> QED  BY <4>1, <4>2, <4>3
    <3>3. Spare = 0 \/ (Spare = 1 /\ lost' = lost /\ pc' = "clean_short")
      <4>1. CASE pc = "session"
        BY <1>11, <4>1 DEF GoesWrong, BootstrapNoMemory, BootstrapFails, BootstrapGarbled,
           DnsFails, SocketFails, ConnectFails, SendLoginFails, RecvHeadFails,
           RecvBodyFails, RecvNoBody, RecvBodyOverruns, Refused, SessionOver, Spare
      <4>2. CASE pc # "session"  BY <4>2 DEF Spare
      <4> QED  BY <4>1, <4>2
    <3>4. pc' = "answered" => lost' = lost
      BY <1>11 DEF GoesWrong, BootstrapNoMemory, BootstrapFails, BootstrapGarbled,
         DnsFails, SocketFails, ConnectFails, SendLoginFails, RecvHeadFails,
         RecvBodyFails, RecvNoBody, RecvBodyOverruns, Refused, SessionOver
    <3>5. lost' <= 2 * faults' + 5 * left_n
      BY <1>0, <1>2, <3>1, <3>2, <3>3
    <3>6. pc' = "answered" => lost' + 1 <= 2 * faults' + 5 * left_n
      BY <1>0, <1>2, <3>1, <3>3, <3>4
    <3>7. lost' <= 2 * faults' + 5 * left_n + Spare'
      BY <1>0, <1>5, <3>5, Within
    <3> QED  BY <1>4, <2>1, <2>2, <3>6, <3>7
  <2> QED  BY <2>3, <2>4
<1>12. CASE BootstrapRedirected
  <2>1. faults' = faults + 1 /\ pc = "bootstrap" /\ Spare = 0 /\ pc' # "answered"
    BY <1>1, <1>12 DEF BootstrapRedirected, Spare
  <2>2. left' \subseteq open'  BY <1>2, <1>12 DEF BootstrapRedirected
  <2>3. CASE left' = left
    <3>1. lost' <= lost + 2
      BY <1>0, <1>12, <2>3 DEF BootstrapRedirected
    <3>2. lost' <= 2 * faults' + 5 * left_n
      BY <1>0, <1>2, <2>1, <3>1
    <3> QED  BY <1>13, <2>1, <2>2, <2>3, <3>2
  <2>4. CASE left' # left
    <3>1. lost' <= lost + 2 + 5
      BY <1>0, <1>12, <2>4 DEF BootstrapRedirected
    <3>2. Cardinality(left') = left_n + 1  BY <1>3, <2>4
    <3>4. lost' <= 2 * faults' + 5 * (left_n + 1)
      BY <1>0, <1>2, <2>1, <3>1
    <3>5. left_n + 1 \in Nat  BY <1>0
    <3>3. lost' <= 2 * faults' + 5 * (left_n + 1) + Spare'
      BY <1>0, <1>5, <3>4, <3>5, Within
    <3> QED  BY <1>0, <2>1, <2>2, <3>2, <3>3 DEF LossInv
  <2> QED  BY <2>3, <2>4
<1> QED  BY <1>6, <1>7, <1>8, <1>9, <1>10, <1>11, <1>12 DEF Next, Goes, GoesWrong

\* The heap blocks nobody frees: the frame_buf of one answered login, and beyond
\* that two for each failure outside the program and a session for each socket
\* that a redirection of bootstrap left; attempts alone, however many, cost
\* nothing more.
THEOREM LossIsBounded == Spec => []LossBounded
<1>1. Init => LossInv
  <2>1. Cardinality({}) = 0  BY FS_EmptySet
  <2> QED  BY <2>1 DEF Init, LossInv, Spare, SessionBlocks
<1>2. TypeOK /\ TypeOK' /\ OneSocket /\ LossInv /\ [Next]_vars => LossInv'
  BY LossStep
<1>3. TypeOK /\ LossInv => LossBounded
  BY CardinalityLeft, SupervisorAssumption
  DEF LossInv, LossBounded, Spare, SessionBlocks, TypeOK
<1> QED  BY <1>1, <1>2, <1>3, TypeCorrect, SocketsClosed, PTL DEF Spec

\* A device that was turned down is on its way to its hour, in it, or past it.
Waiting == refused => pc \in {"clean_hour", "hour", "wlan"}

LEMMA WaitingStep ==
  ASSUME Waiting, [Next]_vars
  PROVE  Waiting'
<1> USE DEF Waiting
<1>1. CASE UNCHANGED vars \/ NetUp
  BY <1>1 DEF vars, NetUp
<1>2. CASE Goes
  <2>1. CASE \/ Start \/ Wake \/ BootstrapDone \/ BootstrapNoSocket \/ DnsDone
             \/ OpenSocket \/ Connect
    BY <2>1 DEF Start, Wake, BootstrapDone, BootstrapNoSocket, DnsDone, OpenSocket, Connect
  <2>2. CASE SendLogin \/ RecvHead \/ RecvBody \/ Accepted \/ NoAnswer
    BY <2>2 DEF SendLogin, RecvHead, RecvBody, Accepted, NoAnswer
  <2>3. CASE Clean
    BY <2>3 DEF Clean, Closing
  <2> QED  BY <1>2, <2>1, <2>2, <2>3 DEF Goes
<1>3. CASE GoesWrong
  <2>1. CASE NetDown \/ BootstrapNoMemory \/ BootstrapFails \/ BootstrapGarbled
    BY <2>1 DEF NetDown, BootstrapNoMemory, BootstrapFails, BootstrapGarbled
  <2>4. CASE BootstrapRedirected
    BY <2>4 DEF BootstrapRedirected
  <2>2. CASE DnsFails \/ SocketFails \/ ConnectFails
    BY <2>2 DEF DnsFails, SocketFails, ConnectFails
  <2>3. CASE SendLoginFails \/ RecvHeadFails \/ RecvBodyFails \/ Refused \/ SessionOver
    BY <2>3 DEF SendLoginFails, RecvHeadFails, RecvBodyFails, Refused, SessionOver
  <2>5. CASE RecvNoBody \/ RecvBodyOverruns
    BY <2>5 DEF RecvNoBody, RecvBodyOverruns
  <2> QED  BY <1>3, <2>1, <2>2, <2>3, <2>4, <2>5 DEF GoesWrong
<1> QED  BY <1>1, <1>2, <1>3 DEF Next

\* No attempt follows a refusal before its hour is over.
THEOREM RefusalCostsAnHour == Spec => TurnedDownWaits
<1>1. Init => Waiting
  BY DEF Init, Waiting
<1>2. Spec => []Waiting
  BY <1>1, WaitingStep, PTL DEF Spec
<1>3. Waiting /\ [Next]_vars => [pc # "wlan" /\ pc' = "wlan" /\ refused => pc = "hour"]_vars
  <2>1. ASSUME Waiting, Next, pc # "wlan", pc' = "wlan"
        PROVE  Wake
    BY <2>1 DEF Next, NetUp, Goes, Start, Wake, BootstrapDone, BootstrapNoSocket, DnsDone,
       OpenSocket, Connect, SendLogin, RecvHead, RecvBody, Accepted, NoAnswer, Clean, GoesWrong, NetDown,
       BootstrapNoMemory, BootstrapFails, BootstrapGarbled, BootstrapRedirected, DnsFails, SocketFails, ConnectFails,
       SendLoginFails, RecvHeadFails, RecvBodyFails, RecvNoBody, RecvBodyOverruns, Refused, SessionOver
  <2> QED  BY <2>1 DEF Waiting, Wake
<1> QED  BY <1>2, <1>3, PTL DEF Spec, TurnedDownWaits
=============================================================================
