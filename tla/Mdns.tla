-------------------------------- MODULE Mdns --------------------------------
(***************************************************************************)
(* The mDNS responder (mdns.c) and the thread that sets it up and lets it  *)
(* announce every three seconds (mdns_finder.c), in this build: IPv4, one  *)
(* host, one service.                                                      *)
(*                                                                         *)
(* The finder's thread is preempted by lwIP's, which answers questions,    *)
(* each in one step, and changes the address of the interface.  A packet   *)
(* is what it holds: records, of which DnsNames makes the bytes.           *)
(***************************************************************************)
EXTENDS DnsNames, FiniteSets

CONSTANTS
  Addrs,          \* addresses, sequences of four labels
  Questions,      \* the packets with questions that come in
  OUTPACKET_SIZE

NoAddr == <<"0", "0", "0", "0">>

VARIABLES
  pc, ret,        \* the finder's thread, and where it goes on after announcing
  addr,           \* the address of the interface
  host,           \* client data of the interface: none, raw memory, ready, freed
  service,        \* the service is there
  txt,            \* service->txtdata, shared by both threads
  mask,           \* what the announcement under way answers
  out,            \* its records so far
  sent,           \* the packet the last step sent, if any
  cache,          \* the address a listener in the group has for the host
  found,          \* what the last step took for the mdns_host, or "unasked"
  torn,           \* history: the text was prepared anew under the announcement
  moved           \* history: the address changed between two records of it

Places == {"wait_network", "alloc_id", "add_netif", "fill", "join", "undo", "add_service",
           "sleep", "announce", "a", "ptr", "prepare", "length", "copy", "txt", "send", "down"}

finder == <<pc, ret>>
state  == <<host, service>>
annc   == <<mask, out, moved>>
vars   == <<pc, ret, addr, host, service, txt, mask, out, sent, cache, found, torn, moved>>

-----------------------------------------------------------------------------
(* Names and records.                                                      *)

mdns_build_host_domain    == <<"lighter", "local">>
mdns_build_dnssd_domain   == <<"_services", "_dns-sd", "_udp", "local">>
ServiceType               == <<"_espush", "_tcp", "local">>
ServiceInstance           == <<"lighter", "_espush", "_tcp", "local">>
\* Fault variant: the address the way it is.
mdns_build_reverse_v4_domain_straight(a) == a \o <<"in-addr", "arpa">>
mdns_build_reverse_v4_domain(a) == Reverse(a) \o <<"in-addr", "arpa">>

\* A record: its data is bytes, and a name after them.
Record(name, type, buf, size, dom, ttl) ==
  [name |-> name, type |-> type, buf |-> buf, size |-> size, dom |-> dom, ttl |-> ttl]

HostTTL == 64
ServiceTTL == 3600

\* Fault variant: the bytes of the address in the host's order.
mdns_add_a_answer_swapped(a) ==
  Record(mdns_build_host_domain, "A", Reverse(a), 4, <<>>, HostTTL)
mdns_add_a_answer(a) ==
  Record(mdns_build_host_domain, "A", a, 4, <<>>, HostTTL)
mdns_add_hostv4_ptr_answer(a) ==
  Record(mdns_build_reverse_v4_domain(a), "PTR", <<>>, 0, mdns_build_host_domain, HostTTL)
mdns_add_servicetype_ptr_answer ==
  Record(mdns_build_dnssd_domain, "PTR", <<>>, 0, ServiceType, ServiceTTL)
mdns_add_servicename_ptr_answer ==
  Record(ServiceType, "PTR", <<>>, 0, ServiceInstance, ServiceTTL)
mdns_add_srv_answer ==
  Record(ServiceInstance, "SRV", <<"0", "0", "80">>, 6, mdns_build_host_domain, ServiceTTL)

\* The text: an item is its length byte, "L", and its six characters, "P".
Text == <<"L", "P">>
TextSize(t) == FoldLeft(LAMBDA n, c : n + (IF c = "L" THEN 1 ELSE 6), 0, t)
mdns_add_txt_answer(t) ==
  Record(ServiceInstance, "TXT", t, TextSize(t), <<>>, ServiceTTL)

-----------------------------------------------------------------------------
(* Questions.                                                              *)

HasClass(rr) == rr.class \in {"IN", "ANY"}

\* The answers the host has for a question, or a known answer, about rr.
check_host(rr, a) ==
  {r \in {"A", "PTR_V4"} :
     /\ HasClass(rr) /\ a # NoAddr
     /\ rr.name = IF r = "A" THEN mdns_build_host_domain ELSE mdns_build_reverse_v4_domain(a)
     /\ rr.type \in {"ANY", IF r = "A" THEN "A" ELSE "PTR"}}

ServiceName == [TYPE_PTR |-> mdns_build_dnssd_domain, NAME_PTR |-> ServiceType,
                SRV |-> ServiceInstance, TXT |-> ServiceInstance]
ServiceRR   == [TYPE_PTR |-> "PTR", NAME_PTR |-> "PTR", SRV |-> "SRV", TXT |-> "TXT"]

check_service(rr) ==
  {r \in DOMAIN ServiceName :
     /\ HasClass(rr) /\ rr.name = ServiceName[r] /\ rr.type \in {"ANY", ServiceRR[r]}}

\* What is still to be answered by the host when it is known already.
HostReplies(replies, known, a) ==
  LET match == replies \intersect check_host(known, a)
  IN  IF match = {} \/ known.ttl <= HostTTL \div 2 THEN replies
      ELSE IF known.type = "PTR"
           THEN IF known.dom = mdns_build_host_domain THEN replies \ {"PTR_V4"} ELSE replies
           ELSE IF "A" \in match /\ known.buf = a THEN replies \ {"A"} ELSE replies

\* The record the known answer must agree with.
ServiceRecord(r) ==
  CASE r = "TYPE_PTR" -> mdns_add_servicetype_ptr_answer
    [] r = "NAME_PTR" -> mdns_add_servicename_ptr_answer
    [] r = "SRV" -> mdns_add_srv_answer
    [] r = "TXT" -> mdns_add_txt_answer(Text)

\* Fault variant: an answer that is old is known, too.
ServiceReplies_old(replies, known) ==
  LET match == replies \intersect check_service(known)
      same(r) == known.buf = ServiceRecord(r).buf /\ known.dom = ServiceRecord(r).dom
  IN  replies \ {r \in match : same(r)}

ServiceReplies(replies, known) ==
  LET match == replies \intersect check_service(known)
      same(r) == known.buf = ServiceRecord(r).buf /\ known.dom = ServiceRecord(r).dom
  IN  IF known.ttl <= ServiceTTL \div 2 THEN replies ELSE replies \ {r \in match : same(r)}

\* Known answers for any type or class say nothing.
Telling(known) ==
  SelectSeq(known, LAMBDA k : k.type # "ANY" /\ k.class # "ANY")

\* The answers to a packet: those of any question in it, less the known ones.
HostBits(q, a) ==
  FoldLeft(LAMBDA r, k : HostReplies(r, k, a),
           UNION {check_host(q.questions[i], a) : i \in DOMAIN q.questions}, Telling(q.known))
ServiceBits(q, serv) ==
  IF ~serv THEN {}
  ELSE FoldLeft(LAMBDA r, k : ServiceReplies(r, k),
                UNION {check_service(q.questions[i]) : i \in DOMAIN q.questions},
                Telling(q.known))

-----------------------------------------------------------------------------
(* Packets.                                                                *)

If(b, r) == IF b THEN <<r>> ELSE <<>>

HostAnswers(h, a) ==
  If("A" \in h, mdns_add_a_answer(a)) \o If("PTR_V4" \in h, mdns_add_hostv4_ptr_answer(a))

\* The answers of the service before its text.
ServiceAnswers(s) ==
     If("TYPE_PTR" \in s, mdns_add_servicetype_ptr_answer)
  \o If("NAME_PTR" \in s, mdns_add_servicename_ptr_answer)
  \o If("SRV" \in s, mdns_add_srv_answer)

\* Additional ones, where the name of the instance or a place was asked for.
NeedsText(s) == "NAME_PTR" \in s /\ "TXT" \notin s
Additional(h, s, a, t) ==
     If("NAME_PTR" \in s /\ "SRV" \notin s, mdns_add_srv_answer)
  \o If(NeedsText(s), mdns_add_txt_answer(t))
  \o If("A" \notin h /\ s \intersect {"NAME_PTR", "SRV"} # {}, mdns_add_a_answer(a))

\* mdns_add_question: name, type and class.
Skip(pkt, n) == [pkt EXCEPT !.write_offset = @ + n]
mdns_add_question(pkt, name) == Skip(mdns_write_domain(pkt, name, FALSE), 4)

\* mdns_add_answer: that, time to live, length, bytes and name; in the worst
\* case nothing is compressed, and then it must fit.
WorstSize(r) ==
  Length(r.name) + 10 + r.size + (IF r.dom = <<>> THEN 0 ELSE Length(r.dom))
DataName(legacy, pkt, r) ==
  IF r.dom = <<>> THEN pkt ELSE mdns_write_domain(pkt, r.dom, legacy /\ r.type = "SRV")
mdns_add_answer(legacy, pkt, r) ==
  IF ~pkt.fits \/ pkt.write_offset + WorstSize(r) > OUTPACKET_SIZE
  THEN [pkt EXCEPT !.fits = FALSE]
  ELSE DataName(legacy, Skip(mdns_add_question(pkt, r.name), 6 + r.size), r)

\* The bytes of a packet; a reply to a legacy question repeats that first.
Packet(p) ==
  FoldLeft(LAMBDA pkt, r : mdns_add_answer(p.legacy, pkt, r),
           IF p.question = <<>> THEN EmptyPacket ELSE mdns_add_question(EmptyPacket, p.question),
           p.answers \o p.additional)

NoQuery == [questions |-> <<>>, known |-> <<>>, from_mdns_port |-> TRUE,
            to_device |-> FALSE, garbled |-> FALSE]
NoPacket == [kind |-> "none", query |-> NoQuery, at |-> NoAddr, legacy |-> FALSE,
             unicast |-> FALSE, flush |-> FALSE, question |-> <<>>,
             answers |-> <<>>, additional |-> <<>>, bytes |-> EmptyPacket]

\* mdns_send_outpacket sends what fits, and nothing if there is nothing.
WithBytes(p, bytes) == IF bytes.fits THEN [p EXCEPT !.bytes = bytes] ELSE NoPacket
mdns_send_outpacket(p) ==
  IF p.answers = <<>> /\ p.additional = <<>> /\ p.question = <<>> THEN NoPacket
  ELSE WithBytes(p, Packet(p))

\* mdns_handle_question: the reply to a packet while the address is a, and the
\* service there or not.
mdns_handle_question(q, a, serv) ==
  LET h == HostBits(q, a)
      s == ServiceBits(q, serv)
      legacy == ~q.from_mdns_port /\ Len(q.questions) = 1
      asked == \E i \in DOMAIN q.questions :
                 \/ check_host(q.questions[i], a) # {}
                 \/ serv /\ check_service(q.questions[i]) # {}
  IN  IF q.garbled THEN NoPacket
      ELSE mdns_send_outpacket(
             [NoPacket EXCEPT
                !.kind = "reply", !.query = q, !.at = a, !.legacy = legacy,
                !.unicast = \/ ~q.from_mdns_port \/ q.to_device
                            \/ \E i \in DOMAIN q.questions : q.questions[i].unicast,
                !.flush = q.from_mdns_port,
                !.question = IF legacy /\ asked THEN q.questions[1].name ELSE <<>>,
                !.answers = HostAnswers(h, a) \o ServiceAnswers(s)
                            \o If("TXT" \in s, mdns_add_txt_answer(Text)),
                !.additional = Additional(h, s, a, Text)])

Reply ==
  [q \in Questions |-> [a \in Addrs |-> [serv \in BOOLEAN |-> mdns_handle_question(q, a, serv)]]]

\* The reply prepared the text of the service on its way: to send it, or to see
\* whether it is known.
PreparesText(q) ==
  /\ ~q.garbled /\ service
  /\ \/ \E i \in DOMAIN q.questions : "TXT" \in check_service(q.questions[i])
     \/ NeedsText(ServiceBits(q, TRUE))

-----------------------------------------------------------------------------
(* The finder's thread: setting up.                                        *)

\* A step that neither sends nor looks for the host.
Quiet == sent' = NoPacket /\ found' = "unasked"

Init ==
  /\ pc = "wait_network" /\ ret = "add_service"
  /\ addr \in Addrs
  /\ host = "none" /\ service = FALSE /\ txt = <<>>
  /\ mask = {} /\ out = <<>> /\ sent = NoPacket /\ cache = NoAddr
  /\ found = "unasked" /\ torn = FALSE /\ moved = FALSE

\* The network is ready; mdns_resp_init binds the port and takes packets ...
mdns_resp_init ==
  /\ pc = "wait_network" /\ pc' = "alloc_id"
  /\ Quiet /\ UNCHANGED <<ret, addr, state, txt, annc, cache, torn>>

\* ... before it has an id of its own for the interface's client data.
AllocId ==
  /\ pc = "alloc_id" /\ pc' = "add_netif"
  /\ Quiet /\ UNCHANGED <<ret, addr, state, txt, annc, cache, torn>>

\* mdns_resp_add_netif: the memory is the interface's before it is cleared; of
\* a failure mdns_finder_task says so and goes on.
mdns_resp_add_netif ==
  /\ pc = "add_netif"
  /\ \/ pc' = "fill" /\ host' = "raw"
     \/ pc' = "add_service" /\ UNCHANGED host
  /\ Quiet /\ UNCHANGED <<ret, addr, service, txt, annc, cache, torn>>

\* It is cleared and filled.
FillHost ==
  /\ pc = "fill" /\ pc' = "join"
  /\ host' = "ready"
  /\ Quiet /\ UNCHANGED <<ret, addr, service, txt, annc, cache, torn>>

\* The group is joined, or the memory is freed ...
JoinGroup ==
  /\ pc = "join" /\ ret' = "add_service"
  /\ \/ pc' = "announce" /\ UNCHANGED host
     \/ pc' = "undo" /\ host' = "freed"
  /\ Quiet /\ UNCHANGED <<addr, service, txt, annc, cache, torn>>

\* Fault variant: the interface keeps it.
Undo_leak ==
  /\ pc = "undo" /\ pc' = "add_service"
  /\ Quiet /\ UNCHANGED <<ret, addr, state, txt, annc, cache, torn>>

\* ... and then taken from the interface.
Undo ==
  /\ pc = "undo" /\ pc' = "add_service"
  /\ host' = "none"
  /\ Quiet /\ UNCHANGED <<ret, addr, service, txt, annc, cache, torn>>

\* mdns_resp_add_service: not without a host, and not without memory.
mdns_resp_add_service ==
  /\ pc = "add_service"
  /\ ret' = "sleep"
  /\ \/ host # "none" /\ service' = TRUE /\ pc' = "announce"
     \/ pc' = "sleep" /\ UNCHANGED service
  /\ Quiet /\ UNCHANGED <<addr, host, txt, annc, cache, torn>>

\* Three seconds later.
Wake ==
  /\ pc = "sleep" /\ pc' = "announce"
  /\ Quiet /\ UNCHANGED <<ret, addr, state, txt, annc, cache, torn>>

-----------------------------------------------------------------------------
(* The finder's thread: mdns_announce.                                     *)

\* Fault variant: the service is announced, the host is not.
mdns_announce_service ==
  /\ pc = "announce"
  /\ found' = host
  /\ pc' \in IF host = "ready" THEN {"a"} ELSE {ret, "down"}
  /\ mask' = {} /\ out' = <<>> /\ torn' = FALSE /\ moved' = FALSE
  /\ sent' = NoPacket /\ UNCHANGED <<ret, addr, state, txt, cache>>

\* What is sent for no host: an address without a name, with the time to live
\* and the services of what lies at address 0.  Nobody finds a name in it.
StrayPacket == [NoPacket EXCEPT !.kind = "stray"]

\* It is not asked whether there is a host: without one the device stops, or
\* something else than an announcement is sent, or nothing if there is no
\* address.
mdns_announce ==
  /\ pc = "announce"
  /\ found' = host
  /\ IF host = "ready"
     THEN /\ mask' = IF addr = NoAddr THEN {} ELSE {"A", "PTR_V4"}
          /\ pc' = "a" /\ sent' = NoPacket
     ELSE pc' \in {ret, "down"} /\ sent' \in {NoPacket, StrayPacket} /\ UNCHANGED mask
  /\ out' = <<>> /\ torn' = FALSE /\ moved' = FALSE
  /\ UNCHANGED <<ret, addr, state, txt, cache>>

\* Each record has the address of its moment.
AnnounceA ==
  /\ pc = "a" /\ pc' = "ptr"
  /\ out' = HostAnswers(mask \ {"PTR_V4"}, addr)
  /\ Quiet /\ UNCHANGED <<ret, addr, state, txt, mask, cache, torn, moved>>

AnnouncePtr ==
  /\ pc = "ptr" /\ pc' = IF service THEN "prepare" ELSE "send"
  /\ out' = out \o HostAnswers(mask \ {"A"}, addr)
                \o (IF service THEN ServiceAnswers(DOMAIN ServiceName) ELSE <<>>)
  /\ Quiet /\ UNCHANGED <<ret, addr, state, txt, mask, cache, torn, moved>>

\* Fault variant: new text goes behind the old one.
PrepareText_append ==
  /\ pc = "prepare" /\ pc' = "length"
  /\ txt' = IF txt = Text THEN txt ELSE <<>>
  /\ Quiet /\ UNCHANGED <<ret, addr, state, annc, cache, torn>>

\* mdns_prepare_txtdata clears the text, srv_txt adds the item: a length byte,
PrepareText ==
  /\ pc = "prepare" /\ pc' = "length"
  /\ txt' = <<>>
  /\ Quiet /\ UNCHANGED <<ret, addr, state, annc, cache, torn>>

TextLength ==
  /\ pc = "length" /\ pc' = "copy"
  /\ txt' = Append(txt, "L")
  /\ Quiet /\ UNCHANGED <<ret, addr, state, annc, cache, torn>>

\* and its characters.
TextCopy ==
  /\ pc = "copy" /\ pc' = "txt"
  /\ txt' = Append(txt, "P")
  /\ Quiet /\ UNCHANGED <<ret, addr, state, annc, cache, torn>>

AnnounceTxt ==
  /\ pc = "txt" /\ pc' = "send"
  /\ out' = Append(out, mdns_add_txt_answer(txt))
  /\ Quiet /\ UNCHANGED <<ret, addr, state, txt, mask, cache, torn, moved>>

\* What a listener has for the host after a packet to the group.
Listened(p) ==
  LET as == SelectSeq(p.answers \o p.additional, LAMBDA r : r.type = "A")
  IN  IF p.unicast \/ as = <<>> THEN cache ELSE as[1].buf

Announcement ==
  [NoPacket EXCEPT !.kind = "announcement", !.flush = TRUE, !.answers = out,
     !.additional = IF service THEN Additional(mask, DOMAIN ServiceName, addr, txt) ELSE <<>>]

\* It is sent, and may be lost.
SendsAnnouncement(p) ==
  /\ pc = "send" /\ pc' = ret
  /\ sent' = mdns_send_outpacket(p)
  /\ out' = <<>>
  /\ found' = "unasked" /\ UNCHANGED <<ret, addr, state, txt, mask, torn, moved>>

AnnounceHeard ==
  SendsAnnouncement(Announcement) /\ cache' = Listened(sent')
AnnounceLost ==
  SendsAnnouncement(Announcement) /\ UNCHANGED cache

\* There was no memory for the packet, or none for sending it.
AnnounceDropped ==
  /\ pc \in {"a", "send"} /\ pc' = ret
  /\ out' = <<>>
  /\ Quiet /\ UNCHANGED <<ret, addr, state, txt, mask, cache, torn, moved>>

-----------------------------------------------------------------------------
(* lwIP's thread.                                                          *)

\* In the time without an id, the client data is that of another module.
ClientData == IF pc = "alloc_id" THEN "foreign" ELSE host

\* mdns_recv: an interface without a host does not answer.  A reply prepares
\* the text; it goes to the group unless unicast, and may be lost.
mdns_recv ==
  /\ pc \notin {"wait_network", "down"}
  /\ ClientData = "ready" /\ found' = "ready"
  /\ \E q \in Questions :
       LET reply == Reply[q][addr][service] IN
         /\ IF reply = NoPacket THEN sent' = NoPacket /\ UNCHANGED cache
            ELSE sent' = reply /\ cache' \in {cache, Listened(reply)}
         /\ IF PreparesText(q)
            THEN txt' = Text /\ torn' = (torn \/ pc \in {"length", "copy"})
            ELSE UNCHANGED <<txt, torn>>
  /\ UNCHANGED <<finder, addr, state, annc>>

\* What it takes for a host is none: no reply, or the device stops.
mdns_recv_astray ==
  /\ pc \notin {"wait_network", "down"}
  /\ ClientData \notin {"none", "ready"} /\ found' = ClientData
  /\ pc' \in {pc, "down"}
  /\ sent' = NoPacket /\ UNCHANGED <<ret, addr, state, annc, txt, cache, torn>>

\* The interface gets another address, or loses its own.
AddressChanges ==
  /\ pc # "down"
  /\ addr' \in Addrs \ {addr}
  /\ moved' = (moved \/ pc = "ptr")
  /\ Quiet /\ UNCHANGED <<finder, state, txt, mask, out, cache, torn>>

-----------------------------------------------------------------------------
SettingUp  == mdns_resp_init \/ AllocId \/ mdns_resp_add_netif \/ FillHost
              \/ JoinGroup \/ Undo \/ mdns_resp_add_service
Announcing == mdns_announce \/ AnnounceA \/ AnnouncePtr \/ PrepareText \/ TextLength
              \/ TextCopy \/ AnnounceTxt \/ AnnounceHeard \/ AnnounceLost \/ AnnounceDropped
LwIP       == mdns_recv \/ mdns_recv_astray \/ AddressChanges

Next == SettingUp \/ Wake \/ Announcing \/ LwIP

Spec == Init /\ [][Next]_vars

\* The finder's thread runs on, each of its steps another place; of the
\* announcements without end some find memory, and some are heard.
FinderRuns == pc # "down" /\ pc' \in Places \ {pc}
Heard      == pc = "send" /\ pc' = ret /\ cache' = Listened(Announcement)
Remembered == pc = "a" /\ pc' = "ptr"
FairSpec   == Spec /\ WF_pc(FinderRuns) /\ SF_pc(Remembered) /\ SF_<<pc, cache>>(Heard)

-----------------------------------------------------------------------------
(* Properties.                                                             *)

\* A text has at most two items, however the threads meet at it.
Texts == UNION {[1..n -> {"L", "P"}] : n \in 0..4}

TypeOK ==
  /\ pc \in Places
  /\ ret \in {"add_service", "sleep"}
  /\ addr \in Addrs /\ cache \in Addrs \union {NoAddr}
  /\ host \in {"none", "raw", "ready", "freed"}
  /\ service \in BOOLEAN
  /\ txt \in Texts
  /\ mask \subseteq {"A", "PTR_V4"}
  /\ found \in {"unasked", "none", "foreign", "raw", "ready", "freed"}

\* Whoever reads a packet finds the names that were written into it, however
\* they were compressed against each other.
ReadersFindNames ==
  NamesDecode(sent.bytes)

\* The records of the device at an address.
Own(a) ==
  (IF a = NoAddr THEN {} ELSE {mdns_add_a_answer(a), mdns_add_hostv4_ptr_answer(a)})
  \union (IF service THEN {ServiceRecord(r) : r \in DOMAIN ServiceName} ELSE {})

\* A record is asked for, and a record is known for more than half its time.
AskedFor(r, q) ==
  \E i \in DOMAIN q.questions :
    /\ q.questions[i].name = r.name /\ q.questions[i].type \in {r.type, "ANY"}
    /\ HasClass(q.questions[i])
KnownTo(r, q) ==
  \E i \in DOMAIN q.known : LET k == q.known[i] IN
    /\ k.name = r.name /\ k.type = r.type /\ k.class = "IN"
    /\ k.buf = r.buf /\ k.dom = r.dom
    /\ 2 * k.ttl > r.ttl

\* A reply answers with just the records that were asked for and not known,
\* none of them twice and none of them among the additional ones; also when it
\* came between two steps of an announcement.
ReplyIsRight ==
  sent.kind = "reply" =>
    LET answers == {sent.answers[i] : i \in DOMAIN sent.answers}
        extra   == {sent.additional[i] : i \in DOMAIN sent.additional}
    IN  /\ answers = {r \in Own(sent.at) : AskedFor(r, sent.query) /\ ~KnownTo(r, sent.query)}
        /\ Cardinality(answers) = Len(sent.answers)
        /\ answers \intersect extra = {}

\* The text of the service is whole in what is sent; in an announcement
\* unless a reply prepared it anew between the steps of the finder's own
\* preparing.  What was torn is whole again in the next.
TextWholeUnlessTorn ==
  LET rs == sent.answers \o sent.additional
  IN  \A i \in DOMAIN rs :
        rs[i].type = "TXT" /\ (sent.kind = "announcement" => ~torn) => rs[i].buf = Text

\* The name of an address and the address of the name are announced alike
\* unless the address changed just between the two.
PairAgrees ==
  sent.kind = "announcement" /\ ~moved =>
    \A i, j \in DOMAIN sent.answers :
      LET a == sent.answers[i]
          p == sent.answers[j]
      IN  a.type = "A" /\ p.type = "PTR" /\ p.dom = a.name =>
            p.name = Reverse(a.buf) \o <<"in-addr", "arpa">>

\* Neither thread takes for the host what is not one, but in three moments of
\* the setting up, and, if the setting up failed, the finder's in every
\* announcement: there is no service then.
FindsItsHost ==
  /\ found \in {"foreign", "raw", "freed"} => pc \in {"alloc_id", "fill", "undo", "down"}
  /\ found = "none" => host = "none" /\ ~service /\ pc \in {"sleep", "down"}

\* Only then is something else sent than an announcement or a reply.
NoOtherStrays ==
  sent.kind = "stray" => found = "none"

\* The two threads do each other no more harm than that.
ThreadsAgree ==
  TextWholeUnlessTorn /\ PairAgrees /\ FindsItsHost /\ NoOtherStrays

\* All that is said of the host and the service is right, and who reads a
\* message finds its names.
MdnsSafe ==
  TypeOK /\ ReadersFindNames /\ ReplyIsRight

-----------------------------------------------------------------------------
(* The invariant by which the threads agree.                               *)

\* The records of an announcement: a is the address of the one, b of the
\* other, t the text.
Services      == {mdns_add_servicetype_ptr_answer, mdns_add_servicename_ptr_answer,
                  mdns_add_srv_answer}
Hosts(a, b)   == {mdns_add_a_answer(a), mdns_add_hostv4_ptr_answer(b)}
Recs(a, b, t) == Hosts(a, b) \union Services \union {mdns_add_txt_answer(t)}

\* Where the finder's thread is says what the memory of the host is.
HostInv ==
  /\ pc \in Places /\ ret \in {"add_service", "sleep"}
  /\ host \in {"none", "raw", "ready", "freed"}
  /\ host = "raw" => pc \in {"fill", "down"}
  /\ host = "freed" => pc \in {"undo", "down"}
  /\ pc = "join" => host = "ready"
  /\ service => host = "ready" /\ pc \notin {"wait_network", "alloc_id", "add_netif", "fill",
                                             "join", "undo"}
  /\ pc = "sleep" => ret = "sleep"
  /\ pc = "announce" /\ ret = "add_service" => host = "ready"
  /\ FindsItsHost

\* How far the text is, unless a reply has torn it.
TextInv ==
  /\ txt \in Texts
  /\ pc = "length" => Len(txt) <= 2 /\ (torn \/ txt = <<>>)
  /\ pc = "copy" => Len(txt) <= 3 /\ (torn \/ txt = <<"L">>)
  /\ pc = "txt" => torn \/ txt = Text

\* What is in the announcement; the two addresses of it differ only if one
\* changed between them.
OutInv ==
  /\ addr \in Addrs /\ mask \subseteq {"A", "PTR_V4"} /\ service \in BOOLEAN
  /\ torn \in BOOLEAN /\ moved \in BOOLEAN
  /\ pc = "ptr" =>
       \E a \in Addrs : out \in Seq({mdns_add_a_answer(a)}) /\ (moved \/ a = addr)
  /\ pc \in {"prepare", "length", "copy", "txt"} =>
       \E a, b \in Addrs : out \in Seq(Hosts(a, b) \union Services) /\ (moved \/ a = b)
  /\ pc = "send" =>
       \E a, b \in Addrs, t \in Texts :
         out \in Seq(Recs(a, b, t)) /\ (moved \/ a = b) /\ (torn \/ t = Text)

AnnounceInv ==
  HostInv /\ TextInv /\ OutInv /\ TextWholeUnlessTorn /\ PairAgrees /\ NoOtherStrays

\* An address that stays is in the end the one listeners have and keep,
\* whatever they heard before; if the responder was set up.
AddressSpreads ==
  \A a \in Addrs \ {NoAddr} :
    <>[](addr = a /\ host = "ready") => <>[](cache = a)
=============================================================================
