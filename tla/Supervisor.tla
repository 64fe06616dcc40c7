------------------------------ MODULE Supervisor ----------------------------
(***************************************************************************)
(* The life of the espush thread around its sessions: espush_task (app.c)  *)
(* waits for the network and calls sock_task (espush.c), which asks the    *)
(* bootstrap server for an address (bootstrap.c), resolves it, connects,   *)
(* logs in and talks to the cloud until the session ends, and decides how  *)
(* long to sleep before the next attempt.                                  *)
(*                                                                         *)
(* The session itself is one state here; Session has its inside.  Whatever *)
(* fails for a reason outside the program counts against MaxFaults, so     *)
(* that the world is well behaved in the end.                              *)
(***************************************************************************)
EXTENDS Integers, FiniteSets

CONSTANTS
  Fds,           \* descriptors of sockets
  DnsTries,      \* dns_query_times
  ConnectTries,  \* the 5 of create_socket_and_connect
  NullStore,     \* what out->data[left-2] = 0 may do when data is NULL
  MaxFaults      \* bound: things that go wrong

ASSUME SupervisorAssumption ==
  /\ Fds # {} /\ IsFiniteSet(Fds)
  /\ DnsTries \in Nat \ {0} /\ ConnectTries \in Nat \ {0}
  /\ NullStore \subseteq {"ignored", "fault"}
  /\ MaxFaults \in Nat

VARIABLES
  net,      \* rt_wlan_is_ready
  pc,       \* where the espush thread is
  tries,    \* i of the loop it is in
  open,     \* the sockets that are open
  left,     \* those of them that a redirection of bootstrap left behind
  sock,     \* the socket in sock_task, or NoSock
  blocks,   \* heap blocks of the login that are in use
  lost,     \* heap blocks nobody points to any more
  led,      \* "blink" or "on"
  refused,  \* history: the last attempt was turned down by a server
  faults    \* things that went wrong

vars == <<net, pc, tries, open, left, sock, blocks, lost, led, refused, faults>>

NoSock == "none"

Blocks == {"login", "rsp", "frame_buf", "data"}

\* A webclient_session, its header, the buffer of that, host and req_url.
SessionBlocks == 5

\* States in which sock_task has a socket.
Trying  == {"connecting"}
Online  == {"send_login", "recv_head", "recv_body", "answered", "session"}
Closing == {"clean_short", "clean_hour"}
Offline == {"wlan", "bootstrap", "dns", "socket", "short", "hour"}
Stopped == {"fault"}   \* a hard fault: nothing goes on

Init ==
  /\ net \in BOOLEAN
  /\ pc = "wlan" /\ tries = 0
  /\ open = {} /\ left = {} /\ sock = NoSock
  /\ blocks = {} /\ lost = 0
  /\ led = "blink" /\ refused = FALSE /\ faults = 0

\* Something outside the program goes wrong once more.
Fault == faults < MaxFaults /\ faults' = faults + 1

-----------------------------------------------------------------------------
(* The network.                                                            *)

NetUp ==
  /\ ~net /\ net' = TRUE
  /\ UNCHANGED <<pc, tries, open, left, sock, blocks, lost, led, refused, faults>>

NetDown ==
  /\ net /\ net' = FALSE /\ Fault
  /\ UNCHANGED <<pc, tries, open, left, sock, blocks, lost, led, refused>>

-----------------------------------------------------------------------------
(* espush_task.                                                            *)

\* The network is ready: sock_task is called.
Start ==
  /\ pc = "wlan" /\ net
  /\ pc' = "bootstrap" /\ refused' = FALSE
  /\ UNCHANGED <<net, tries, open, left, sock, blocks, lost, led, faults>>

\* Fault variant: a device that was put off for an hour never wakes up.
WakeShortOnly ==
  /\ pc = "short" /\ pc' = "wlan"
  /\ UNCHANGED <<net, tries, open, left, sock, blocks, lost, led, refused, faults>>

\* The sleep after an attempt is over: a second, or an hour when sock_task
\* returned response_authorization_fail.
Wake ==
  /\ pc \in {"short", "hour"} /\ pc' = "wlan"
  /\ UNCHANGED <<net, tries, open, left, sock, blocks, lost, led, refused, faults>>

-----------------------------------------------------------------------------
(* bootstrap and the name.                                                 *)

\* An address was found in the answer; the session is closed, result and root
\* are freed.
BootstrapDone ==
  /\ pc = "bootstrap" /\ open # Fds
  /\ pc' = "dns" /\ tries' = 0
  /\ UNCHANGED <<net, open, left, sock, blocks, lost, led, refused, faults>>

\* No session for want of memory: rsp_code is still 0.
BootstrapNoMemory ==
  /\ pc = "bootstrap" /\ pc' = "short" /\ Fault
  /\ UNCHANGED <<net, tries, open, left, sock, blocks, lost, led, refused>>

\* No socket for it, for redirections have left them all behind.  The error of
\* webclient_connect becomes the rsp_code.
BootstrapNoSocket ==
  /\ pc = "bootstrap" /\ open = Fds
  /\ pc' = "hour"
  /\ UNCHANGED <<net, tries, open, left, sock, blocks, lost, led, refused, faults>>

\* webclient_get did not return 200.  A status of the server and an error of
\* the connection both leave rsp_code other than 0, and so does an answer
\* that has no body: the attempt counts as turned down.
BootstrapFails ==
  /\ pc = "bootstrap" /\ pc' = "hour" /\ Fault
  /\ refused' \in BOOLEAN
  /\ UNCHANGED <<net, tries, open, left, sock, blocks, lost, led>>

\* parse_response fails: result is not freed, nor is what cJSON_Parse made
\* when a field is missing.
BootstrapGarbled ==
  /\ pc = "bootstrap" /\ open # Fds
  /\ pc' = "short" /\ Fault
  /\ lost' \in {lost + 1, lost + 2}
  /\ UNCHANGED <<net, tries, open, left, sock, blocks, led, refused>>

\* 301 or 302 from the bootstrap server: webclient_get frees the session that
\* bootstrap goes on to read and to close, and makes another one.  Either that
\* lies where the first was, and all is as without it; or the first is freed
\* twice, at which the heap may stop the device, and read when it is gone, which
\* gives anything.  The session and the socket of the other one are left behind
\* then, or new_url if there was no memory for it.
BootstrapRedirected ==
  /\ pc = "bootstrap" /\ open # Fds /\ Fault
  /\ \/ pc' = pc /\ UNCHANGED <<tries, open, left, lost, refused>>
     \/ pc' = "fault" /\ UNCHANGED <<tries, open, left, lost, refused>>
     \/ /\ \/ \E fd \in Fds \ open : /\ open' = open \union {fd}
                                     /\ left' = left \union {fd}
           \/ UNCHANGED <<open, left>>
        /\ \E n \in 0..2 :
             lost' = lost + n + (IF left' # left THEN SessionBlocks ELSE 0)
        /\ \/ pc' = "hour" /\ refused' \in BOOLEAN /\ UNCHANGED tries
           \/ pc' = "short" /\ UNCHANGED <<tries, refused>>
           \/ pc' = "dns" /\ tries' = 0 /\ UNCHANGED refused
  /\ UNCHANGED <<net, sock, blocks, led>>

\* Fault variant: the connects are counted from where the names left off.
DnsDoneKeeps ==
  /\ pc = "dns" /\ pc' = "socket"
  /\ UNCHANGED <<net, tries, open, left, sock, blocks, lost, led, refused, faults>>

DnsDone ==
  /\ pc = "dns" /\ pc' = "socket" /\ tries' = 0
  /\ UNCHANGED <<net, open, left, sock, blocks, lost, led, refused, faults>>

\* gethostbyname fails, a second later it is tried again, DnsTries times.
DnsFails ==
  /\ pc = "dns" /\ Fault
  /\ tries' = tries + 1
  /\ pc' = IF tries' = DnsTries THEN "short" ELSE "dns"
  /\ UNCHANGED <<net, open, left, sock, blocks, lost, led, refused>>

-----------------------------------------------------------------------------
(* create_socket_and_connect.                                              *)

\* Any descriptor that is not in use.
OpenSocket ==
  /\ pc = "socket" /\ pc' = "connecting"
  /\ \E fd \in Fds \ open : sock' = fd /\ open' = open \union {fd}
  /\ UNCHANGED <<net, tries, left, blocks, lost, led, refused, faults>>

\* No memory, or no descriptor is free.
SocketFails ==
  /\ pc = "socket" /\ pc' = "short"
  /\ Fault \/ (open = Fds /\ UNCHANGED faults)
  /\ UNCHANGED <<net, tries, open, left, sock, blocks, lost, led, refused>>

Connect ==
  /\ pc = "connecting" /\ pc' = "send_login"
  /\ UNCHANGED <<net, tries, open, left, sock, blocks, lost, led, refused, faults>>

\* Fault variant: a socket that could not connect is left open.
ConnectFailsOpen ==
  /\ pc = "connecting" /\ Fault
  /\ UNCHANGED open /\ sock' = NoSock
  /\ tries' = tries + 1
  /\ pc' = IF tries' = ConnectTries THEN "short" ELSE "socket"
  /\ UNCHANGED <<net, left, blocks, lost, led, refused>>

\* connect fails: after the delay the socket is closed and the next is made,
\* ConnectTries times.
ConnectFails ==
  /\ pc = "connecting" /\ Fault
  /\ open' = open \ {sock} /\ sock' = NoSock
  /\ tries' = tries + 1
  /\ pc' = IF tries' = ConnectTries THEN "short" ELSE "socket"
  /\ UNCHANGED <<net, left, blocks, lost, led, refused>>

-----------------------------------------------------------------------------
(* cloud_authorization.  Whatever it returns below 0 becomes               *)
(* response_authorization_fail.                                            *)

\* Fault variant: the login frame is not freed.
SendLoginKeeps ==
  /\ pc = "send_login" /\ pc' = "recv_head" /\ blocks' = {"rsp"}
  /\ lost' = lost + 1
  /\ UNCHANGED <<net, tries, open, left, sock, led, refused, faults>>

\* The login frame is sent and freed, a frame for the answer is there.
SendLogin ==
  /\ pc = "send_login" /\ pc' = "recv_head" /\ blocks' = {"rsp"}
  /\ UNCHANGED <<net, tries, open, left, sock, lost, led, refused, faults>>

\* No memory for one of the frames, or send fails; the login frame is freed.
SendLoginFails ==
  /\ pc = "send_login" /\ pc' = "clean_hour" /\ Fault
  /\ UNCHANGED <<net, tries, open, left, sock, blocks, lost, led, refused>>

\* recv_frame: one recv for the head.
RecvHead ==
  /\ pc = "recv_head" /\ pc' = "recv_body"
  /\ blocks' = blocks \union {"frame_buf"}
  /\ UNCHANGED <<net, tries, open, left, sock, lost, led, refused, faults>>

\* Less than a head, an error, the end of the stream, or no memory: the
\* length of the answer is still 0.
RecvHeadFails ==
  /\ pc = "recv_head" /\ pc' = "clean_hour" /\ Fault
  /\ blocks' = {}
  /\ UNCHANGED <<net, tries, open, left, sock, lost, led, refused>>

\* One recv for the body; deserialize_frame copies it to a block of its own.
RecvBody ==
  /\ pc = "recv_body" /\ pc' = "answered"
  /\ blocks' = blocks \union {"data"}
  /\ UNCHANGED <<net, tries, open, left, sock, lost, led, refused, faults>>

\* The body is cut short or too long: the block of the frame is freed and the
\* length is 0.  Or no memory for its copy: the length is set already and the
\* answer goes on to be looked at.
RecvBodyFails ==
  /\ pc = "recv_body" /\ Fault
  /\ \/ pc' = "clean_hour" /\ blocks' = {}
     \/ pc' = "answered" /\ blocks' = {"rsp"}
  /\ UNCHANGED <<net, tries, open, left, sock, lost, led, refused>>

\* The answer has no body: deserialize_frame allocates no data and stores the
\* terminating zero through NULL all the same.  If that is ignored it is no
\* error of recv_frame.
RecvNoBody ==
  /\ pc = "recv_body" /\ Fault
  /\ \/ "ignored" \in NullStore /\ pc' = "answered"
     \/ "fault" \in NullStore /\ pc' = "fault"
  /\ UNCHANGED <<net, tries, open, left, sock, blocks, lost, led, refused>>

\* The length in the head is 0 or 1: recv is told to take nearly 2^32 bytes,
\* and what it gets is written beyond the block.  Its result is not the -1 or
\* -2 that is expected, or it is when recv fails, and then there is no memory
\* for such a body.
RecvBodyOverruns ==
  /\ pc = "recv_body" /\ Fault
  /\ \/ pc' = "fault" /\ UNCHANGED blocks
     \/ pc' = "clean_hour" /\ blocks' = {}
     \/ pc' = "answered" /\ blocks' = {"rsp"}
  /\ UNCHANGED <<net, tries, open, left, sock, lost, led, refused>>

\* free_frame(rsp); nothing refers to frame_buf any more.
FreeAnswer ==
  /\ blocks' = {}
  /\ lost' = lost + Cardinality(blocks \intersect {"frame_buf"})

\* The code in the answer is auth_success.  With no memory for the body the
\* code is whatever is found at address 0.
Accepted ==
  /\ pc = "answered" /\ pc' = "session" /\ FreeAnswer
  /\ "frame_buf" \in blocks => "data" \in blocks
  /\ led' = "on"
  /\ UNCHANGED <<net, tries, open, left, sock, refused, faults>>

\* An answer of length 0 is as good as a refusal.
NoAnswer ==
  /\ pc = "answered" /\ pc' = "clean_hour" /\ FreeAnswer
  /\ "frame_buf" \in blocks /\ "data" \notin blocks
  /\ UNCHANGED <<net, tries, open, left, sock, led, refused, faults>>

\* The server says no, or so does what is found at address 0.
Refused ==
  /\ pc = "answered" /\ pc' = "clean_hour" /\ FreeAnswer /\ Fault
  /\ "frame_buf" \in blocks => "data" \in blocks
  /\ refused' = ("data" \in blocks)
  /\ UNCHANGED <<net, tries, open, left, sock, led>>

-----------------------------------------------------------------------------
(* The session, and task_clean.                                            *)

\* cloud_wait_forever returns, always with -1.
SessionOver ==
  /\ pc = "session" /\ pc' = "clean_short" /\ Fault
  /\ UNCHANGED <<net, tries, open, left, sock, blocks, lost, led, refused>>

\* Fault variant: every way out of sock_task returns the same.
CleanShort ==
  /\ pc \in Closing
  /\ open' = open \ {sock} /\ sock' = NoSock /\ pc' = "short"
  /\ UNCHANGED <<net, tries, left, blocks, lost, led, refused, faults>>

\* closesocket, return.
Clean ==
  /\ pc \in Closing
  /\ open' = open \ {sock} /\ sock' = NoSock
  /\ pc' = IF pc = "clean_hour" THEN "hour" ELSE "short"
  /\ UNCHANGED <<net, tries, left, blocks, lost, led, refused, faults>>

Goes ==
  \/ Start \/ Wake \/ BootstrapDone \/ BootstrapNoSocket \/ DnsDone \/ OpenSocket \/ Connect
  \/ SendLogin \/ RecvHead \/ RecvBody \/ Accepted
  \/ NoAnswer \/ Clean

GoesWrong ==
  \/ NetDown \/ BootstrapNoMemory \/ BootstrapFails \/ BootstrapGarbled
  \/ BootstrapRedirected \/ DnsFails \/ SocketFails \/ ConnectFails \/ SendLoginFails
  \/ RecvHeadFails \/ RecvBodyFails \/ RecvNoBody \/ RecvBodyOverruns \/ Refused \/ SessionOver

Next == NetUp \/ Goes \/ GoesWrong

Spec == Init /\ [][Next]_vars

\* The network comes back, and the thread goes on: its sleeps end, and the
\* calls it blocks in return.
FairSpec == Spec /\ WF_vars(NetUp) /\ WF_vars(Goes)

-----------------------------------------------------------------------------
(* Properties.                                                             *)

\* Types; the retries stay within their numbers.
TypeOK ==
  /\ net \in BOOLEAN
  /\ pc \in Trying \union Online \union Closing \union Offline \union Stopped
  /\ tries \in Nat /\ lost \in Nat /\ faults \in 0..MaxFaults
  /\ pc = "dns" => tries < DnsTries
  /\ pc \in {"socket", "connecting"} => tries < ConnectTries
  /\ open \subseteq Fds /\ left \subseteq Fds /\ sock \in Fds \union {NoSock}
  /\ blocks \subseteq Blocks
  /\ led \in {"blink", "on"} /\ refused \in BOOLEAN

\* The thread never has more than the one socket it works with, works with it
\* only while it is open, and sleeps, looks for the network and asks for
\* addresses with none: no way out of sock_task leaves a socket behind, but for
\* one that a redirected bootstrap may leave open for ever.
OneSocket ==
  /\ pc \in Offline => open = left
  /\ pc \in Trying \union Online \union Closing =>
       sock \in Fds \ left /\ open = left \union {sock}

\* Left alone a device loses one heap block, that of the answer to its login,
\* and no more, in however many attempts; beyond that a failure from outside
\* costs at most two, a socket left by a redirection its session besides.
LossBounded ==
  lost <= 2 * faults + SessionBlocks * Cardinality(left) + 1

\* What makes it inductive: the one block is that of the session under way, and
\* an answer without data had its failure already.
Spare == IF pc = "session" THEN 1 ELSE 0
LossInv ==
  /\ left \subseteq open
  /\ pc = "answered" /\ "data" \notin blocks =>
       lost + 1 <= 2 * faults + SessionBlocks * Cardinality(left)
  /\ lost <= 2 * faults + SessionBlocks * Cardinality(left) + Spare

\* However an attempt ended, there is another one, until a session is
\* established ("if it ends for any reason, wait for the network again"); but
\* for an answer at which the device stops, and when redirections have used up
\* the sockets.
Reconnects ==
  (pc # "session") ~> (pc = "session" \/ pc \in Stopped \/ left = Fds)

\* A device that a server turned down is not back before its hour is over,
\* whichever of the two servers it was and whatever is cleaned up in between.
TurnedDownWaits == [][pc # "wlan" /\ pc' = "wlan" /\ refused => pc = "hour"]_vars
=============================================================================
