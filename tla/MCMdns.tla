------------------------------- MODULE MCMdns -------------------------------
(* A small instance of Mdns for TLC.                                        *)
EXTENDS Mdns

Home == <<"10", "0", "0", "7">>
Away == <<"192", "168", "0", "7">>
MCAddrs == {NoAddr, Home, Away}

MCLabelLen ==
     [l \in {"0", "7"} |-> 1] @@ [l \in {"10", "80"} |-> 2] @@ [l \in {"192", "168"} |-> 3]
  @@ [l \in {"_tcp", "_udp", "arpa"} |-> 4] @@ [l \in {"local"} |-> 5]
  @@ [l \in {"lighter", "_espush", "_dns-sd", "in-addr"} |-> 7] @@ [l \in {"_services"} |-> 9]

Ask(name, type, unicast) ==
  [name |-> name, type |-> type, class |-> "IN", unicast |-> unicast]
Asks(questions, known, from_mdns_port) ==
  [questions |-> questions, known |-> known, from_mdns_port |-> from_mdns_port,
   to_device |-> FALSE, garbled |-> FALSE]

\* What a listener knows, and for how long.
Known(r, ttl) ==
  [name |-> r.name, type |-> r.type, class |-> "IN", buf |-> r.buf, dom |-> r.dom, ttl |-> ttl]

Records == <<mdns_add_a_answer(Home), mdns_add_hostv4_ptr_answer(Home),
             mdns_add_servicetype_ptr_answer, mdns_add_servicename_ptr_answer,
             mdns_add_srv_answer, mdns_add_txt_answer(Text)>>

\* A record; all of a name, from another port; ...
Single   == {Asks(<<Ask(Records[i].name, Records[i].type, FALSE)>>, <<>>, TRUE) : i \in {2, 3}}
Legacy   == {Asks(<<Ask(Records[i].name, "ANY", FALSE)>>, <<>>, FALSE) : i \in {1, 5}}
\* ... one known, for just more than half its time, or just half.
OneKnown == {Asks(<<Ask(Records[i].name, "ANY", TRUE), Ask(ServiceType, "PTR", FALSE)>>,
                  <<Known(Records[i], Records[i].ttl \div 2 + d)>>, TRUE) :
               i \in {1, 2, 4, 6}, d \in {0, 1}}
Rest     == {Asks(<<Ask(ServiceInstance, "ANY", FALSE)>>,
                  <<Known(Records[5], 3600), Known(Records[6], 3600)>>, FALSE),
             [Asks(<<Ask(ServiceInstance, "TXT", FALSE)>>, <<>>, TRUE) EXCEPT !.garbled = TRUE],
             [Asks(<<Ask(mdns_build_host_domain, "A", FALSE)>>, <<>>, TRUE)
                EXCEPT !.to_device = TRUE],
             Asks(<<[Ask(ServiceType, "PTR", FALSE) EXCEPT !.class = "CH"]>>, <<>>, TRUE)}
MCQuestions == Single \union Legacy \union OneKnown \union Rest
=============================================================================
