---------------------------- MODULE Mdns_proofs ----------------------------
(***************************************************************************)
(* Proofs about Mdns, for every set of addresses and of questions: the     *)
(* records of an announcement agree unless the address changed between     *)
(* them, the text is whole unless it was torn, and neither thread takes    *)
(* for the host what is none but while it is set up.                       *)
(***************************************************************************)
EXTENDS Mdns, SequenceTheorems, TLAPS

-----------------------------------------------------------------------------
(* Records.                                                                *)

\* What the properties look at in a record.
LEMMA RecordFacts ==
  ASSUME NEW a, NEW b, NEW t, NEW r \in Recs(a, b, t)
  PROVE  /\ r.type = "TXT" => r.buf = t
         /\ r.type = "A" => r.buf = a /\ r.name = mdns_build_host_domain
         /\ r.type = "PTR" /\ r.dom = mdns_build_host_domain =>
              r.name = Reverse(b) \o <<"in-addr", "arpa">>
<1> USE DEF Record, mdns_build_host_domain
<1>1. CASE r = mdns_add_a_answer(a)
  BY <1>1 DEF mdns_add_a_answer
<1>2. CASE r = mdns_add_hostv4_ptr_answer(b)
  BY <1>2 DEF mdns_add_hostv4_ptr_answer, mdns_build_reverse_v4_domain
<1>3. CASE r = mdns_add_txt_answer(t)
  BY <1>3 DEF mdns_add_txt_answer
<1>4. CASE r = mdns_add_srv_answer
  BY <1>4 DEF mdns_add_srv_answer
<1>5. CASE r = mdns_add_servicetype_ptr_answer
  <2>1. r.type = "PTR" /\ r.dom = ServiceType
    BY <1>5 DEF mdns_add_servicetype_ptr_answer
  <2>2. ServiceType # mdns_build_host_domain
    BY DEF ServiceType
  <2> QED
    BY <2>1, <2>2
<1>6. CASE r = mdns_add_servicename_ptr_answer
  <2>1. r.type = "PTR" /\ r.dom = ServiceInstance
    BY <1>6 DEF mdns_add_servicename_ptr_answer
  <2>2. ServiceInstance # mdns_build_host_domain
    BY DEF ServiceInstance
  <2> QED
    BY <2>1, <2>2
<1> QED
  BY <1>1, <1>2, <1>3, <1>4, <1>5, <1>6 DEF Recs, Hosts, Services

LEMMA IfIn == ASSUME NEW S, NEW b, NEW r, b => r \in S PROVE If(b, r) \in Seq(S)
<1>1. <<>> \in Seq(S) /\ (b => <<r>> \in Seq(S))
  OBVIOUS
<1> QED
  BY <1>1 DEF If

LEMMA HostAnswersIn ==
  ASSUME NEW S, NEW h, NEW a,
         "A" \in h => mdns_add_a_answer(a) \in S,
         "PTR_V4" \in h => mdns_add_hostv4_ptr_answer(a) \in S
  PROVE  HostAnswers(h, a) \in Seq(S)
<1>1. If("A" \in h, mdns_add_a_answer(a)) \in Seq(S)
  BY IfIn
<1>2. If("PTR_V4" \in h, mdns_add_hostv4_ptr_answer(a)) \in Seq(S)
  BY IfIn
<1> QED
  BY <1>1, <1>2, ConcatProperties DEF HostAnswers

LEMMA ServiceAnswersIn ==
  ASSUME NEW S, Services \subseteq S, NEW s
  PROVE  ServiceAnswers(s) \in Seq(S)
<1>1. If("TYPE_PTR" \in s, mdns_add_servicetype_ptr_answer) \in Seq(S)
  BY IfIn DEF Services
<1>2. If("NAME_PTR" \in s, mdns_add_servicename_ptr_answer) \in Seq(S)
  BY IfIn DEF Services
<1>3. If("SRV" \in s, mdns_add_srv_answer) \in Seq(S)
  BY IfIn DEF Services
<1> QED
  BY <1>1, <1>2, <1>3, ConcatProperties DEF ServiceAnswers

LEMMA AdditionalIn ==
  ASSUME NEW h, NEW s, NEW a, NEW t, NEW u, NeedsText(s) => t = u
  PROVE  Additional(h, s, a, t) \in Seq(Recs(a, a, u))
<1> DEFINE S == Recs(a, a, u)
<1>1. If("NAME_PTR" \in s /\ "SRV" \notin s, mdns_add_srv_answer) \in Seq(S)
  BY IfIn DEF Recs, Services
<1>2. If(NeedsText(s), mdns_add_txt_answer(t)) \in Seq(S)
  BY IfIn DEF Recs
<1>3. If("A" \notin h /\ s \intersect {"NAME_PTR", "SRV"} # {}, mdns_add_a_answer(a)) \in Seq(S)
  BY IfIn DEF Recs, Hosts
<1> QED
  BY <1>1, <1>2, <1>3, ConcatProperties DEF Additional

\* An announcement has its text already.
LEMMA WholeServiceNeedsNoText == ~NeedsText(DOMAIN ServiceName)
BY DEF NeedsText, ServiceName

-----------------------------------------------------------------------------
(* Packets.                                                                *)

\* What a packet says, for any packet that may be sent.
TextWhole(p) ==
  LET rs == p.answers \o p.additional
  IN  \A i \in DOMAIN rs : rs[i].type = "TXT" => rs[i].buf = Text
Alike(p) ==
  \A i, j \in DOMAIN p.answers :
    LET a == p.answers[i]
        q == p.answers[j]
    IN  a.type = "A" /\ q.type = "PTR" /\ q.dom = a.name =>
          q.name = Reverse(a.buf) \o <<"in-addr", "arpa">>

LEMMA RecordsWhole ==
  ASSUME NEW p, NEW a, NEW b, NEW c,
         p.answers \o p.additional \in Seq(Recs(a, b, Text) \union Recs(c, c, Text))
  PROVE  TextWhole(p)
<1> DEFINE rs == p.answers \o p.additional
           S == Recs(a, b, Text) \union Recs(c, c, Text)
<1> HIDE DEF rs, S
<1>1. rs \in Seq(S)
  BY DEF rs, S
<1>2. DOMAIN rs = 1 .. Len(rs)
  BY <1>1, LenProperties
<1>3. ASSUME NEW i \in DOMAIN rs, rs[i].type = "TXT" PROVE rs[i].buf = Text
  <2>1. rs[i] \in S
    BY <1>1, <1>2, ElementOfSeq
  <2> QED
    BY <1>3, <2>1, RecordFacts DEF S
<1> QED
  BY <1>3 DEF TextWhole, rs

LEMMA RecordsAlike ==
  ASSUME NEW p, NEW a, NEW t, p.answers \in Seq(Recs(a, a, t))
  PROVE  Alike(p)
<1>1. DOMAIN p.answers = 1 .. Len(p.answers)
  BY LenProperties
<1>2. \A i \in DOMAIN p.answers : p.answers[i] \in Recs(a, a, t)
  BY <1>1, ElementOfSeq
<1>3. ASSUME NEW x \in Recs(a, a, t), NEW y \in Recs(a, a, t),
             x.type = "A", y.type = "PTR", y.dom = x.name
      PROVE  y.name = Reverse(x.buf) \o <<"in-addr", "arpa">>
  BY <1>3, RecordFacts
<1> QED
  BY <1>2, <1>3 DEF Alike

\* What is sent is nothing, or what was to be sent.
LEMMA SentIsWhatItWas ==
  ASSUME NEW p, DOMAIN p = DOMAIN NoPacket,
         NEW q, q = mdns_send_outpacket(p)
  PROVE  \/ q = NoPacket
         \/ q.kind = p.kind /\ q.answers = p.answers /\ q.additional = p.additional
<1>1. \A b : [p EXCEPT !.bytes = b].kind = p.kind
             /\ [p EXCEPT !.bytes = b].answers = p.answers
             /\ [p EXCEPT !.bytes = b].additional = p.additional
  BY DEF NoPacket
<1>2. q = NoPacket \/ \E b : q = [p EXCEPT !.bytes = b]
  <2>1. q = NoPacket \/ q = WithBytes(p, Packet(p))
    BY DEF mdns_send_outpacket
  <2> QED
    BY <2>1 DEF WithBytes
<1> QED
  BY <1>1, <1>2

LEMMA NothingIsFine ==
  TextWhole(NoPacket) /\ Alike(NoPacket) /\ NoPacket.kind = "none"
BY DEF NoPacket, TextWhole, Alike

\* A reply has the text and the address of its moment.
LEMMA RepliesAreWhole ==
  ASSUME NEW q, NEW a, NEW serv
  PROVE  LET reply == mdns_handle_question(q, a, serv)
         IN  TextWhole(reply) /\ reply.kind \in {"none", "reply"}
<1> DEFINE reply == mdns_handle_question(q, a, serv)
<1>1. CASE q.garbled
  BY <1>1, NothingIsFine DEF mdns_handle_question
<1>2. CASE ~q.garbled
  <2> DEFINE h == HostBits(q, a)
             s == ServiceBits(q, serv)
             answers == HostAnswers(h, a) \o ServiceAnswers(s)
                        \o If("TXT" \in s, mdns_add_txt_answer(Text))
  <2>1. PICK p : /\ DOMAIN p = DOMAIN NoPacket /\ p.kind = "reply"
                 /\ p.answers = answers /\ p.additional = Additional(h, s, a, Text)
                 /\ reply = mdns_send_outpacket(p)
    <3> HIDE DEF h, s, answers
    <3>1. PICK l, u, f, w :
            reply = mdns_send_outpacket(
              [NoPacket EXCEPT !.kind = "reply", !.query = q, !.at = a, !.legacy = l,
                 !.unicast = u, !.flush = f, !.question = w, !.answers = answers,
                 !.additional = Additional(h, s, a, Text)])
      BY <1>2 DEF mdns_handle_question, h, s, answers
    <3> DEFINE r == [NoPacket EXCEPT !.kind = "reply", !.query = q, !.at = a, !.legacy = l,
                       !.unicast = u, !.flush = f, !.question = w, !.answers = answers,
                       !.additional = Additional(h, s, a, Text)]
    <3>2. DOMAIN r = DOMAIN NoPacket /\ r.kind = "reply"
      BY DEF NoPacket
    <3>3. r.answers = answers /\ r.additional = Additional(h, s, a, Text)
      BY DEF NoPacket
    <3> QED
      BY <3>1, <3>2, <3>3
  <2> DEFINE S == Recs(a, a, Text)
  <2>2. HostAnswers(h, a) \in Seq(S)
    BY HostAnswersIn DEF Recs, Hosts
  <2>3. ServiceAnswers(s) \in Seq(S)
    BY ServiceAnswersIn DEF Recs
  <2>4. If("TXT" \in s, mdns_add_txt_answer(Text)) \in Seq(S)
    BY IfIn DEF Recs
  <2>5. answers \in Seq(S)
    <3> HIDE DEF h, s, S
    <3> QED
      BY <2>2, <2>3, <2>4, ConcatProperties
  <2>6. Additional(h, s, a, Text) \in Seq(S)
    BY AdditionalIn
  <2> HIDE DEF h, s, S, answers, reply
  <2>7. p.answers \o p.additional \in Seq(S)
    BY <2>1, <2>5, <2>6, ConcatProperties
  <2>8. TextWhole(p)
    <3>1. S = Recs(a, a, Text) \union Recs(a, a, Text)
      BY DEF S
    <3> QED
      BY <2>7, <3>1, RecordsWhole
  <2>9. \/ reply = NoPacket
        \/ reply.kind = p.kind /\ reply.answers = p.answers /\ reply.additional = p.additional
    BY <2>1, SentIsWhatItWas
  <2>10. TextWhole(reply) /\ reply.kind \in {"none", "reply"}
    BY <2>1, <2>8, <2>9, NothingIsFine DEF TextWhole
  <2> QED
    BY <2>10 DEF reply
<1> QED
  BY <1>1, <1>2

-----------------------------------------------------------------------------
(* The invariant.                                                          *)

LEMMA TextsAre ==
  ASSUME NEW t PROVE t \in Texts <=> t \in Seq({"L", "P"}) /\ Len(t) <= 4
<1>1. ASSUME t \in Texts PROVE t \in Seq({"L", "P"}) /\ Len(t) <= 4
  <2>1. PICK n \in 0..4 : t \in [1..n -> {"L", "P"}]
    BY <1>1 DEF Texts
  <2> QED
    BY <2>1
<1>2. ASSUME t \in Seq({"L", "P"}), Len(t) <= 4 PROVE t \in Texts
  <2>1. Len(t) \in Nat /\ t \in [1..Len(t) -> {"L", "P"}]
    BY <1>2, LenProperties
  <2>2. Len(t) \in 0..4
    BY <1>2, <2>1
  <2> QED
    BY <2>1, <2>2 DEF Texts
<1> QED
  BY <1>1, <1>2

LEMMA TextIsOne == Text \in Texts /\ Len(Text) = 2 /\ <<>> \in Texts
<1>1. Text \in Seq({"L", "P"}) /\ Len(Text) = 2 /\ Len(Text) <= 4
  BY DEF Text
<1>2. <<>> \in Seq({"L", "P"}) /\ Len(<<>>) <= 4
  OBVIOUS
<1> QED
  BY <1>1, <1>2, TextsAre, Zenon

LEMMA TextIsAppended == Append(<<"L">>, "P") = Text
<1> DEFINE a == Append(<<"L">>, "P")
<1>1. <<"L">> \in Seq({"L", "P"}) /\ Len(<<"L">>) = 1 /\ <<"L">>[1] = "L"
  OBVIOUS
<1>2. a \in Seq({"L", "P"}) /\ Len(a) = 2 /\ a[1] = "L" /\ a[2] = "P"
  BY <1>1, AppendProperties
<1>3. Text \in Seq({"L", "P"}) /\ Len(Text) = 2 /\ Text[1] = "L" /\ Text[2] = "P"
  BY DEF Text
<1> HIDE DEF a
<1>4. \A i \in 1..2 : a[i] = Text[i]
  BY <1>2, <1>3
<1> QED
  BY <1>2, <1>3, <1>4, SeqEqual DEF a

LEMMA InitHolds == Init => AnnounceInv
<1> SUFFICES ASSUME Init PROVE AnnounceInv
  OBVIOUS
<1>1. HostInv
  BY DEF Init, HostInv, FindsItsHost, Places
<1>2. TextInv
  BY TextIsOne DEF Init, TextInv
<1>3. OutInv
  BY DEF Init, OutInv
<1>4. TextWholeUnlessTorn /\ PairAgrees /\ NoOtherStrays
  <2>1. sent = NoPacket
    BY DEF Init
  <2> QED
    BY <2>1, NothingIsFine DEF TextWholeUnlessTorn, TextWhole, PairAgrees, NoOtherStrays
<1> QED
  BY <1>1, <1>2, <1>3, <1>4 DEF AnnounceInv

LEMMA HostStep == HostInv /\ [Next]_vars => HostInv'
<1> SUFFICES ASSUME HostInv, [Next]_vars PROVE HostInv'
  OBVIOUS
<1> USE DEF HostInv, FindsItsHost, Places, Quiet, state, finder
<1>1. CASE SettingUp
  <2>1. CASE mdns_resp_init \/ AllocId
    BY <2>1 DEF mdns_resp_init, AllocId
  <2>2. CASE mdns_resp_add_netif \/ FillHost
    BY <2>2 DEF mdns_resp_add_netif, FillHost
  <2>3. CASE JoinGroup \/ Undo
    BY <2>3 DEF JoinGroup, Undo
  <2>4. CASE mdns_resp_add_service
    BY <2>4 DEF mdns_resp_add_service
  <2> QED
    BY <1>1, <2>1, <2>2, <2>3, <2>4 DEF SettingUp
<1>2. CASE Wake
  BY <1>2 DEF Wake
<1>3. CASE Announcing
  <2>1. CASE mdns_announce
    BY <2>1 DEF mdns_announce
  <2>2. CASE AnnounceA \/ AnnouncePtr
    <3>1. /\ pc' \in {"ptr", "prepare", "send"} /\ UNCHANGED <<ret, host, service>>
          /\ found' = "unasked" /\ pc \in {"a", "ptr"}
      BY <2>2 DEF AnnounceA, AnnouncePtr
    <3> QED
      BY <3>1
  <2>3. CASE PrepareText \/ TextLength \/ TextCopy \/ AnnounceTxt
    BY <2>3 DEF PrepareText, TextLength, TextCopy, AnnounceTxt
  <2>4. CASE AnnounceHeard \/ AnnounceLost \/ AnnounceDropped
    BY <2>4 DEF AnnounceHeard, AnnounceLost, AnnounceDropped, SendsAnnouncement
  <2> QED
    BY <1>3, <2>1, <2>2, <2>3, <2>4 DEF Announcing
<1>4. CASE LwIP
  <2>1. CASE mdns_recv
    BY <2>1 DEF mdns_recv
  <2>2. CASE mdns_recv_astray
    BY <2>2 DEF mdns_recv_astray, ClientData
  <2>3. CASE AddressChanges
    BY <2>3 DEF AddressChanges
  <2> QED
    BY <1>4, <2>1, <2>2, <2>3 DEF LwIP
<1>5. CASE UNCHANGED vars
  BY <1>5 DEF vars
<1> QED
  BY <1>1, <1>2, <1>3, <1>4, <1>5 DEF Next

LEMMA TextStep == HostInv /\ TextInv /\ [Next]_vars => TextInv'
<1> SUFFICES ASSUME HostInv, TextInv, [Next]_vars PROVE TextInv'
  OBVIOUS
<1> USE DEF Quiet, state, annc, finder
<1>0. ret \in {"add_service", "sleep"}
  BY DEF HostInv
<1>a. txt \in Seq({"L", "P"}) /\ Len(txt) <= 4
  BY TextsAre DEF TextInv
<1>1. CASE SettingUp
  <2>1. CASE mdns_resp_init \/ AllocId \/ mdns_resp_add_netif \/ FillHost
    BY <2>1 DEF mdns_resp_init, AllocId, mdns_resp_add_netif, FillHost, TextInv
  <2>2. CASE JoinGroup \/ Undo \/ mdns_resp_add_service
    BY <2>2 DEF JoinGroup, Undo, mdns_resp_add_service, TextInv
  <2> QED
    BY <1>1, <2>1, <2>2 DEF SettingUp
<1>2. CASE Wake
  BY <1>2 DEF Wake, TextInv
<1>3. CASE Announcing
  <2>1. CASE mdns_announce
    BY <1>0, <2>1 DEF mdns_announce, TextInv
  <2>2. CASE AnnounceA \/ AnnouncePtr
    BY <2>2 DEF AnnounceA, AnnouncePtr, TextInv
  <2>3. CASE PrepareText
    <3>1. Len(<<>>) <= 2
      OBVIOUS
    <3> QED
      BY <2>3, <3>1, TextIsOne DEF PrepareText, TextInv
  <2>4. CASE TextLength
    <3>1. pc' = "copy" /\ txt' = Append(txt, "L") /\ torn' = torn
      BY <2>4 DEF TextLength
    <3>2. Len(txt) <= 2 /\ (torn \/ txt = <<>>)
      BY <2>4 DEF TextLength, TextInv
    <3>3. txt' \in Seq({"L", "P"}) /\ Len(txt') <= 3
      BY <1>a, <3>1, <3>2, AppendProperties
    <3>4. txt' \in Texts
      BY <3>3, TextsAre
    <3>5. Append(<<>>, "L") = <<"L">>
      OBVIOUS
    <3> QED
      BY <3>1, <3>2, <3>3, <3>4, <3>5 DEF TextInv
  <2>5. CASE TextCopy
    <3>1. pc' = "txt" /\ txt' = Append(txt, "P") /\ torn' = torn
      BY <2>5 DEF TextCopy
    <3>2. Len(txt) <= 3 /\ (torn \/ txt = <<"L">>)
      BY <2>5 DEF TextCopy, TextInv
    <3>3. txt' \in Seq({"L", "P"}) /\ Len(txt') <= 4
      BY <1>a, <3>1, <3>2, AppendProperties
    <3>4. txt' \in Texts
      BY <3>3, TextsAre
    <3>5. Append(<<"L">>, "P") = Text
      BY TextIsAppended
    <3> QED
      BY <3>1, <3>2, <3>4, <3>5 DEF TextInv
  <2>6. CASE AnnounceTxt
    BY <2>6 DEF AnnounceTxt, TextInv
  <2>7. CASE AnnounceHeard \/ AnnounceLost \/ AnnounceDropped
    BY <1>0, <2>7 DEF AnnounceHeard, AnnounceLost, AnnounceDropped, SendsAnnouncement, TextInv
  <2> QED
    BY <1>3, <2>1, <2>2, <2>3, <2>4, <2>5, <2>6, <2>7 DEF Announcing
<1>4. CASE LwIP
  <2>1. CASE mdns_recv
    <3>1. pc' = pc
      BY <2>1 DEF mdns_recv
    <3>2. \/ txt' = Text /\ torn' = (torn \/ pc \in {"length", "copy"})
          \/ txt' = txt /\ torn' = torn
      BY <2>1 DEF mdns_recv
    <3>3. CASE txt' = Text /\ torn' = (torn \/ pc \in {"length", "copy"})
      <4>1. Len(txt') <= 2 /\ Len(txt') <= 3
        BY <3>3, TextIsOne
      <4> QED
        BY <3>1, <3>3, <4>1, TextIsOne DEF TextInv
    <3>4. CASE txt' = txt /\ torn' = torn
      BY <3>1, <3>4 DEF TextInv
    <3> QED
      BY <3>2, <3>3, <3>4
  <2>2. CASE mdns_recv_astray
    BY <2>2 DEF mdns_recv_astray, TextInv
  <2>3. CASE AddressChanges
    BY <2>3 DEF AddressChanges, TextInv
  <2> QED
    BY <1>4, <2>1, <2>2, <2>3 DEF LwIP
<1>5. CASE UNCHANGED vars
  BY <1>5 DEF vars, TextInv
<1> QED
  BY <1>1, <1>2, <1>3, <1>4, <1>5 DEF Next

LEMMA OutStep == HostInv /\ TextInv /\ OutInv /\ [Next]_vars => OutInv'
<1> SUFFICES ASSUME HostInv, TextInv, OutInv, [Next]_vars PROVE OutInv'
  OBVIOUS
<1> USE DEF Quiet, state, annc, finder
<1>0. ret \in {"add_service", "sleep"}
  BY DEF HostInv
<1>1. CASE SettingUp
  <2>1. CASE mdns_resp_init \/ AllocId \/ mdns_resp_add_netif \/ FillHost
    BY <2>1 DEF mdns_resp_init, AllocId, mdns_resp_add_netif, FillHost, OutInv
  <2>2. CASE JoinGroup \/ Undo \/ mdns_resp_add_service
    BY <2>2 DEF JoinGroup, Undo, mdns_resp_add_service, OutInv
  <2> QED
    BY <1>1, <2>1, <2>2 DEF SettingUp
<1>2. CASE Wake
  BY <1>2 DEF Wake, OutInv
<1>3. CASE Announcing
  <2>1. CASE mdns_announce
    BY <1>0, <2>1 DEF mdns_announce, OutInv
  <2>2. CASE AnnounceA
    <3>1. out' \in Seq({mdns_add_a_answer(addr)}) /\ addr' = addr /\ addr \in Addrs
      <4>1. HostAnswers(mask \ {"PTR_V4"}, addr) \in Seq({mdns_add_a_answer(addr)})
        BY HostAnswersIn
      <4> QED
        BY <2>2, <4>1 DEF AnnounceA, OutInv
    <3> QED
      BY <2>2, <3>1 DEF AnnounceA, OutInv
  <2>3. CASE AnnouncePtr
    <3>1. PICK a \in Addrs : out \in Seq({mdns_add_a_answer(a)}) /\ (moved \/ a = addr)
      BY <2>3 DEF AnnouncePtr, OutInv
    <3> DEFINE S == Hosts(a, addr) \union Services
    <3>2. out \in Seq(S)
      BY <3>1, SeqMonotonic DEF Hosts
    <3>3. HostAnswers(mask \ {"A"}, addr) \in Seq(S)
      BY HostAnswersIn DEF Hosts
    <3>4. (IF service THEN ServiceAnswers(DOMAIN ServiceName) ELSE <<>>) \in Seq(S)
      <4>1. ServiceAnswers(DOMAIN ServiceName) \in Seq(S)
        BY ServiceAnswersIn
      <4> QED
        BY <4>1, EmptySeq
    <3>5. out' \in Seq(S)
      <4> HIDE DEF S
      <4> QED
        BY <2>3, <3>2, <3>3, <3>4, ConcatProperties DEF AnnouncePtr
    <3>6. out' \in Seq(Recs(a, addr, Text))
      <4>1. S \subseteq Recs(a, addr, Text)
        BY DEF Recs
      <4> QED
        BY <3>5, <4>1, SeqMonotonic
    <3>7. addr \in Addrs /\ addr' = addr /\ moved' = moved /\ pc' \in {"prepare", "send"}
      BY <2>3 DEF AnnouncePtr, OutInv
    <3>8. pc' \in {"prepare", "length", "copy", "txt"} =>
            \E x, y \in Addrs : out' \in Seq(Hosts(x, y) \union Services) /\ (moved' \/ x = y)
      BY <3>1, <3>5, <3>7
    <3>9. \E x, y \in Addrs, t \in Texts :
            out' \in Seq(Recs(x, y, t)) /\ (moved' \/ x = y) /\ (torn' \/ t = Text)
      BY <3>1, <3>6, <3>7, TextIsOne
    <3> HIDE DEF S
    <3> QED
      BY <2>3, <3>7, <3>8, <3>9 DEF AnnouncePtr, OutInv
  <2>4. CASE PrepareText \/ TextLength \/ TextCopy
    BY <2>4 DEF PrepareText, TextLength, TextCopy, OutInv
  <2>5. CASE AnnounceTxt
    <3>1. PICK a \in Addrs, b \in Addrs : out \in Seq(Hosts(a, b) \union Services) /\ (moved \/ a = b)
      BY <2>5 DEF AnnounceTxt, OutInv
    <3> DEFINE S == Recs(a, b, txt)
    <3>2. out \in Seq(S) /\ mdns_add_txt_answer(txt) \in S
      BY <3>1, SeqMonotonic DEF Recs
    <3>3. out' \in Seq(Recs(a, b, txt))
      <4> HIDE DEF S
      <4>1. out' \in Seq(S)
        BY <2>5, <3>2, AppendProperties DEF AnnounceTxt
      <4> QED
        BY <4>1 DEF S
    <3>4. txt \in Texts /\ (torn \/ txt = Text)
      BY <2>5 DEF AnnounceTxt, TextInv
    <3>5. pc' = "send" /\ moved' = moved /\ torn' = torn
      BY <2>5 DEF AnnounceTxt
    <3>6. \E x, y \in Addrs, t \in Texts :
            out' \in Seq(Recs(x, y, t)) /\ (moved' \/ x = y) /\ (torn' \/ t = Text)
      BY <3>1, <3>3, <3>4, <3>5
    <3> HIDE DEF S
    <3> QED
      BY <2>5, <3>5, <3>6 DEF AnnounceTxt, OutInv
  <2>6. CASE AnnounceHeard \/ AnnounceLost \/ AnnounceDropped
    BY <1>0, <2>6 DEF AnnounceHeard, AnnounceLost, AnnounceDropped, SendsAnnouncement, OutInv
  <2> QED
    BY <1>3, <2>1, <2>2, <2>3, <2>4, <2>5, <2>6 DEF Announcing
<1>4. CASE LwIP
  <2>1. CASE mdns_recv
    <3>1. torn' \in BOOLEAN /\ (torn => torn')
      BY <2>1 DEF mdns_recv, OutInv
    <3>2. UNCHANGED <<pc, addr, mask, service, moved, out>>
      BY <2>1 DEF mdns_recv
    <3> QED
      BY <3>1, <3>2 DEF OutInv
  <2>2. CASE mdns_recv_astray
    BY <2>2 DEF mdns_recv_astray, OutInv
  <2>3. CASE AddressChanges
    <3>1. addr' \in Addrs /\ moved' \in BOOLEAN /\ (moved => moved') /\ (pc = "ptr" => moved')
      BY <2>3 DEF AddressChanges, OutInv
    <3>2. UNCHANGED <<pc, mask, service, torn, out>>
      BY <2>3 DEF AddressChanges
    <3> QED
      BY <3>1, <3>2 DEF OutInv
  <2> QED
    BY <1>4, <2>1, <2>2, <2>3 DEF LwIP
<1>5. CASE UNCHANGED vars
  BY <1>5 DEF vars, OutInv
<1> QED
  BY <1>1, <1>2, <1>3, <1>4, <1>5 DEF Next

LEMMA AnnouncementIs ==
  /\ DOMAIN Announcement = DOMAIN NoPacket /\ Announcement.kind = "announcement"
  /\ Announcement.answers = out
  /\ Announcement.additional =
       IF service THEN Additional(mask, DOMAIN ServiceName, addr, txt) ELSE <<>>
<1> DEFINE e == IF service THEN Additional(mask, DOMAIN ServiceName, addr, txt) ELSE <<>>
<1>1. Announcement = [NoPacket EXCEPT !.kind = "announcement", !.flush = TRUE,
                        !.answers = out, !.additional = e]
  BY DEF Announcement
<1> HIDE DEF e
<1>2. /\ DOMAIN Announcement = DOMAIN NoPacket /\ Announcement.kind = "announcement"
      /\ Announcement.answers = out /\ Announcement.additional = e
  BY <1>1 DEF NoPacket
<1> QED
  BY <1>2 DEF e

\* Packets with the same answers agree alike.
LEMMA SameAnswersAlike ==
  ASSUME NEW p, NEW q, q.answers = p.answers, Alike(p)
  PROVE  Alike(q)
<1> SUFFICES ASSUME NEW i \in DOMAIN q.answers, NEW j \in DOMAIN q.answers,
                    q.answers[i].type = "A", q.answers[j].type = "PTR",
                    q.answers[j].dom = q.answers[i].name
             PROVE  q.answers[j].name = Reverse(q.answers[i].buf) \o <<"in-addr", "arpa">>
  BY Zenon DEF Alike
<1> DEFINE s == p.answers
<1>1. /\ i \in DOMAIN s /\ j \in DOMAIN s /\ s[i].type = "A" /\ s[j].type = "PTR"
      /\ s[j].dom = s[i].name
  OBVIOUS
<1>2. s[j].name = Reverse(s[i].buf) \o <<"in-addr", "arpa">>
  BY <1>1, Zenon DEF Alike
<1> QED
  BY <1>2, Zenon

\* A step that sends an announcement sends what the invariant says is in it.
LEMMA AnnouncementIsFine ==
  ASSUME OutInv, SendsAnnouncement(Announcement)
  PROVE  TextWholeUnlessTorn' /\ PairAgrees' /\ NoOtherStrays'
<1> DEFINE p == Announcement
           q == mdns_send_outpacket(p)
           extra == IF service THEN Additional(mask, DOMAIN ServiceName, addr, txt) ELSE <<>>
<1>1. sent' = q /\ torn' = torn /\ moved' = moved /\ pc = "send"
  BY DEF SendsAnnouncement, annc, state
<1>2. /\ DOMAIN p = DOMAIN NoPacket /\ p.kind = "announcement"
      /\ p.answers = out /\ p.additional = extra
  BY AnnouncementIs
<1>3. PICK a \in Addrs, b \in Addrs, t \in Texts :
        out \in Seq(Recs(a, b, t)) /\ (moved \/ a = b) /\ (torn \/ t = Text)
  BY <1>1 DEF OutInv
<1>4. extra \in Seq(Recs(addr, addr, Text))
  <2>1. Additional(mask, DOMAIN ServiceName, addr, txt) \in Seq(Recs(addr, addr, Text))
    BY AdditionalIn, WholeServiceNeedsNoText
  <2> QED
    BY <2>1, EmptySeq
<1> HIDE DEF p, q, extra
<1>5. \/ q = NoPacket
      \/ q.kind = p.kind /\ q.answers = p.answers /\ q.additional = p.additional
  BY <1>2, SentIsWhatItWas DEF q
<1>6. torn \/ TextWhole(p)
  <2>1. SUFFICES ASSUME ~torn PROVE TextWhole(p)
    OBVIOUS
  <2> DEFINE S == Recs(a, b, Text) \union Recs(addr, addr, Text)
  <2>2. out \in Seq(S)
    BY <1>3, <2>1, SeqMonotonic
  <2>3. extra \in Seq(S)
    BY <1>4, SeqMonotonic
  <2>4. out \o extra \in Seq(S)
    <3> HIDE DEF S
    <3> QED
      BY <2>2, <2>3, ConcatProperties
  <2>5. p.answers \o p.additional \in Seq(S)
    BY <1>2, <2>4
  <2> QED
    BY <2>5, RecordsWhole
<1>7. moved \/ Alike(p)
  BY <1>2, <1>3, RecordsAlike
<1>8. TextWholeUnlessTorn'
  <2>1. torn \/ TextWhole(q)
    BY <1>5, <1>6, NothingIsFine DEF TextWhole
  <2>2. q.kind = "announcement" \/ TextWhole(q)
    BY <1>2, <1>5, NothingIsFine
  <2> QED
    BY <1>1, <2>1, <2>2 DEF TextWholeUnlessTorn, TextWhole
<1>9. PairAgrees'
  <2>1. moved \/ Alike(q)
    <3>1. CASE q = NoPacket
      BY <3>1, NothingIsFine
    <3>2. CASE q.answers = p.answers
      <4>1. ASSUME Alike(p) PROVE Alike(q)
        BY <3>2, <4>1, SameAnswersAlike
      <4> QED
        BY <1>7, <4>1
    <3> QED
      BY <1>5, <3>1, <3>2
  <2> QED
    BY <1>1, <2>1 DEF PairAgrees, Alike
<1>10. NoOtherStrays'
  BY <1>1, <1>2, <1>5, NothingIsFine DEF NoOtherStrays
<1> QED
  BY <1>8, <1>9, <1>10

LEMMA SentStep ==
  HostInv /\ OutInv /\ TextWholeUnlessTorn /\ PairAgrees /\ NoOtherStrays /\ [Next]_vars
    => TextWholeUnlessTorn' /\ PairAgrees' /\ NoOtherStrays'
<1> SUFFICES ASSUME HostInv, OutInv, TextWholeUnlessTorn, PairAgrees, NoOtherStrays, [Next]_vars
             PROVE  TextWholeUnlessTorn' /\ PairAgrees' /\ NoOtherStrays'
  OBVIOUS
<1>1. sent' = NoPacket => TextWholeUnlessTorn' /\ PairAgrees' /\ NoOtherStrays'
  BY NothingIsFine DEF TextWholeUnlessTorn, TextWhole, PairAgrees, NoOtherStrays
<1>2. CASE SettingUp \/ Wake
  BY <1>1, <1>2 DEF SettingUp, Wake, mdns_resp_init, AllocId, mdns_resp_add_netif, FillHost,
                    JoinGroup, Undo, mdns_resp_add_service, Quiet
<1>3. CASE Announcing
  <2>1. CASE AnnounceHeard \/ AnnounceLost
    BY <2>1, AnnouncementIsFine DEF AnnounceHeard, AnnounceLost
  <2>4. CASE mdns_announce
    <3>1. \/ sent' = NoPacket
          \/ (sent' = StrayPacket /\ found' = host /\ host # "ready" /\ pc = "announce")
      BY <2>4 DEF mdns_announce
    <3>2. StrayPacket.kind = "stray" /\ TextWhole(StrayPacket) /\ Alike(StrayPacket)
      BY DEF StrayPacket, NoPacket, TextWhole, Alike
    <3>3. pc = "announce" /\ host # "ready" => host = "none"
      BY DEF HostInv
    <3>4. CASE sent' = StrayPacket /\ found' = host /\ host # "ready" /\ pc = "announce"
      BY <3>2, <3>3, <3>4 DEF TextWholeUnlessTorn, TextWhole, PairAgrees, Alike, NoOtherStrays
    <3> QED
      BY <1>1, <3>1, <3>4
  <2>2. CASE AnnounceA \/ AnnouncePtr \/ AnnounceTxt \/ AnnounceDropped
    BY <1>1, <2>2 DEF AnnounceA, AnnouncePtr, AnnounceTxt, AnnounceDropped, Quiet
  <2>3. CASE PrepareText \/ TextLength \/ TextCopy
    BY <1>1, <2>3 DEF PrepareText, TextLength, TextCopy, Quiet
  <2> QED
    BY <1>3, <2>1, <2>2, <2>3, <2>4 DEF Announcing
<1>4. CASE LwIP
  <2>1. CASE mdns_recv
    <3>1. PICK q \in Questions : sent' = NoPacket \/ sent' = Reply[q][addr][service]
      BY <2>1 DEF mdns_recv
    <3>2. Reply[q][addr][service] = mdns_handle_question(q, addr, service)
      BY DEF Reply, OutInv
    <3>3. CASE sent' = mdns_handle_question(q, addr, service)
      <4>1. TextWhole(sent') /\ sent'.kind \in {"none", "reply"}
        BY <3>3, RepliesAreWhole
      <4> QED
        BY <4>1 DEF TextWholeUnlessTorn, TextWhole, PairAgrees, NoOtherStrays
    <3> QED
      BY <1>1, <3>1, <3>2, <3>3
  <2>2. CASE mdns_recv_astray \/ AddressChanges
    BY <1>1, <2>2 DEF mdns_recv_astray, AddressChanges, Quiet
  <2> QED
    BY <1>4, <2>1, <2>2 DEF LwIP
<1>5. CASE UNCHANGED vars
  BY <1>5 DEF vars, TextWholeUnlessTorn, PairAgrees, NoOtherStrays
<1> QED
  BY <1>2, <1>3, <1>4, <1>5 DEF Next

\* Whatever the questions, the addresses and the way the two threads meet: the
\* text a packet has is whole unless a reply tore it under the announcement, the
\* address of the name and the name of the address are announced alike unless
\* the address changed just between them, and none takes for the host of the
\* responder what is not one but in the three moments of its setting up and, if
\* that failed, in the announcements of the finder's thread.
THEOREM TwoThreads == Spec => []ThreadsAgree
<1>1. AnnounceInv /\ [Next]_vars => AnnounceInv'
  BY HostStep, TextStep, OutStep, SentStep DEF AnnounceInv
<1>2. AnnounceInv => ThreadsAgree
  BY DEF AnnounceInv, HostInv, ThreadsAgree
<1> QED
  BY InitHolds, <1>1, <1>2, PTL DEF Spec
=============================================================================
