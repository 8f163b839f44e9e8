------------------------------- MODULE Netdb -------------------------------
(***************************************************************************)
(* Name resolution: getaddrinfo, getnameinfo and freeaddrinfo, with the    *)
(* numeric and legacy IPv4 parser, the hosts and services files, and the   *)
(* localhost rules (src/src/netdb.rs).                                     *)
(*                                                                         *)
(* Texts are kept by what the parsers tell apart: a node is null, empty, a *)
(* sequence of dotted components, an IPv6 literal or a name with trailing  *)
(* dots; a service is null, blank, a decimal number or a word.  Letter     *)
(* case and comments of the two files are left out.  An octet has          *)
(* OCTET_SIZE values (256 in the code), a port at most PORT_MAX.           *)
(***************************************************************************)
EXTENDS Integers, Sequences, SequencesExt, FiniteSets

CONSTANTS
  OCTET_SIZE,    \* values of one octet
  PORT_MAX,      \* the largest u16
  HostsFile,     \* the lines of /etc/hosts: [address |-> node, aliases |-> set]
  ServicesFile,  \* the lines of /etc/services: [names, port, protocol]
  Ipv6Lengths    \* the length of the text of every IPv6 address used

INADDR_ANY_BYTES      == <<0, 0, 0, 0>>
INADDR_LOOPBACK_BYTES == <<OCTET_SIZE \div 2 - 1, 0, 0, 1>>
Ipv4(octets)  == [family |-> "AF_INET", address |-> octets]
Ipv6(groups)  == [family |-> "AF_INET6", address |-> groups]
\* An IPv6 address by its first and its last group.
IN6ADDR_ANY_BYTES      == <<0, 0>>
IN6ADDR_LOOPBACK_BYTES == <<0, 1>>
LOOPBACK6 == Ipv6(IN6ADDR_LOOPBACK_BYTES)
LOOPBACK4 == Ipv4(INADDR_LOOPBACK_BYTES)
ALLOWED_AI_FLAGS == {"AI_PASSIVE", "AI_NUMERICHOST", "AI_NUMERICSERV"}
ALLOWED_NI_FLAGS == {"NI_NUMERICHOST", "NI_NUMERICSERV", "NI_NOFQDN",
                     "NI_NAMEREQD", "NI_DGRAM"}

\* A Result: an answer or an EAI_* code.
NetOk(value)  == [error |-> "none", value |-> value]
NetErr(error) == [error |-> error, value |-> <<>>]

-----------------------------------------------------------------------------
(* Hints and services.                                                     *)

resolve_socket_profile(socktype, protocol) ==
  CASE socktype \notin {"any", "SOCK_STREAM", "SOCK_DGRAM"} -> NetErr("EAI_SOCKTYPE")
    [] protocol \notin {"any", "tcp", "udp"} -> NetErr("EAI_SERVICE")
    [] socktype \in {"any", "SOCK_STREAM"} /\ protocol \in {"any", "tcp"} ->
         NetOk([socktype |-> "SOCK_STREAM", protocol |-> "tcp"])
    [] socktype \in {"any", "SOCK_DGRAM"} /\ protocol \in {"any", "udp"} ->
         NetOk([socktype |-> "SOCK_DGRAM", protocol |-> "udp"])
    [] OTHER -> NetErr("EAI_SERVICE")

parse_numeric_service(service) ==
  IF service.kind = "number" /\ service.value <= PORT_MAX
    THEN NetOk(service.value)
    ELSE NetErr("EAI_NONAME")

\* A line with an unreadable port (<<>>) is passed over.
resolve_service_name_from_services_text(name, protocol) ==
  LET hits == SelectSeq(ServicesFile,
                LAMBDA e : /\ e.protocol = protocol
                           /\ e.port # <<>>
                           /\ name \in e.names)
  IN IF hits = <<>> THEN <<>> ELSE Head(hits).port

resolve_service_name_from_builtin(name, protocol) ==
  CASE protocol = "tcp" /\ name \in {"http", "www", "www-http"} -> <<80>>
    [] protocol = "tcp" /\ name \in {"https", "www-https"} -> <<443>>
    [] protocol = "tcp" /\ name = "ssh" -> <<22>>
    [] protocol \in {"tcp", "udp"} /\ name = "domain" -> <<53>>
    [] OTHER -> <<>>

resolve_service_name(name, protocol) ==
  LET listed == resolve_service_name_from_services_text(name, protocol)
  IN IF listed # <<>> THEN listed
                      ELSE resolve_service_name_from_builtin(name, protocol)

parse_service_port(service, flags, protocol) ==
  LET number == parse_numeric_service(service)
      named  == IF service.kind = "word"
                  THEN resolve_service_name(service.value, protocol) ELSE <<>>
  IN CASE service.kind = "null"        -> NetOk(0)
       [] number.error = "none"        -> number
       [] "AI_NUMERICSERV" \in flags   -> NetErr("EAI_NONAME")
       [] named = <<>>                 -> NetErr("EAI_SERVICE")
       [] OTHER                        -> NetOk(named[1])

map_getaddrinfo_service_error(service, flags, error) ==
  IF error # "EAI_NONAME" \/ service.kind = "null" \/ "AI_NUMERICSERV" \in flags
    THEN error
    ELSE "EAI_SERVICE"

-----------------------------------------------------------------------------
(* Numeric hosts.  A component is [written |-> ..., value |-> n]; a leading *)
(* sign makes it unreadable, a sign after 0x does not.                     *)

parse_ipv4_legacy_component(c) ==
  IF c.written \in {"decimal", "octal", "hex", "hex sign"} /\ c.value < OCTET_SIZE ^ 4
    THEN <<c.value>>
    ELSE <<>>

\* A mutant: the last of two components may be one more than its room.
MutLegacyText_WideTail(components) ==
  LET parsed == [i \in DOMAIN components |->
                   parse_ipv4_legacy_component(components[i])]
      value  == [i \in DOMAIN components |-> parsed[i][1]]
      n      == Len(components)
      address == FoldSeq(+, 0, [i \in 1..n |->
                   IF i = n THEN value[i] ELSE value[i] * OCTET_SIZE ^ (4 - i)])
  IN IF \/ n > 4
        \/ \E i \in 1..n : parsed[i] = <<>>
        \/ \E i \in 1..(n - 1) : value[i] >= OCTET_SIZE
        \/ value[n] > OCTET_SIZE ^ (5 - n)
       THEN <<>>
       ELSE [i \in 1..4 |-> (address \div OCTET_SIZE ^ (4 - i)) % OCTET_SIZE]

\* The components before the last are octets, the last one fills the rest;
\* the answer is the four octets (to_be_bytes), or <<>>.
parse_ipv4_legacy_text(components) ==
  LET parsed == [i \in DOMAIN components |->
                   parse_ipv4_legacy_component(components[i])]
      value  == [i \in DOMAIN components |-> parsed[i][1]]
      n      == Len(components)
      address == FoldSeq(+, 0, [i \in 1..n |->
                   IF i = n THEN value[i] ELSE value[i] * OCTET_SIZE ^ (4 - i)])
  IN IF \/ n > 4
        \/ \E i \in 1..n : parsed[i] = <<>>
        \/ \E i \in 1..(n - 1) : value[i] >= OCTET_SIZE
        \/ value[n] >= OCTET_SIZE ^ (5 - n)
       THEN <<>>
       ELSE [i \in 1..4 |-> (address \div OCTET_SIZE ^ (4 - i)) % OCTET_SIZE]

\* External: Ipv4Addr::from_str takes four decimal octets and nothing else.
Ipv4AddrFromStr(components) ==
  IF /\ Len(components) = 4
     /\ \A i \in 1..4 : /\ components[i].written = "decimal"
                        /\ components[i].value < OCTET_SIZE
    THEN [i \in 1..4 |-> components[i].value]
    ELSE <<>>

parse_numeric_host_text(node) ==
  LET Found(octets) == IF octets = <<>> THEN <<>> ELSE <<Ipv4(octets)>>
      strict == Ipv4AddrFromStr(node.value)
  IN CASE node.kind = "dotted" /\ strict # <<>> -> Found(strict)
       [] node.kind = "dotted" /\ strict = <<>> -> Found(parse_ipv4_legacy_text(node.value))
       [] node.kind = "v6" -> <<Ipv6(node.value)>>
       [] OTHER -> <<>>

-----------------------------------------------------------------------------
(* Names.  A name is [kind |-> "name", value, dots]; comparing values is    *)
(* comparing the names without their trailing dots.                         *)

NameOf(node) == IF node.kind = "name" THEN node.value ELSE "(numeric)"
is_localhost_name(node) == NameOf(node) = "localhost"
family_accepts_candidate(family, c) == family \in {"AF_UNSPEC", c.family}

push_unique_candidate(candidates, family, c) ==
  IF family_accepts_candidate(family, c) /\ ~Contains(candidates, c)
    THEN Append(candidates, c)
    ELSE candidates

\* A name of dots alone ("") matches nothing; a line whose address cannot be
\* read is passed over.
resolve_hosts_file_candidates(node, family) ==
  LET Named(line) == NameOf(node) \in line.aliases
      Push(found, parsed) == IF parsed = <<>> THEN found
                             ELSE push_unique_candidate(found, family, parsed[1])
  IN IF NameOf(node) = "" THEN <<>>
     ELSE FoldLeft(LAMBDA found, line : Push(found, parse_numeric_host_text(line.address)),
                   <<>>, SelectSeq(HostsFile, Named))

append_localhost_fallback(node, family, candidates) ==
  IF is_localhost_name(node)
    THEN push_unique_candidate(push_unique_candidate(candidates, family, LOOPBACK6),
                               family, LOOPBACK4)
    ELSE candidates

reorder_localhost_candidates(node, family, candidates) ==
  IF ~is_localhost_name(node) \/ Len(candidates) < 2
    THEN candidates
    ELSE LET preferred == SelectSeq(<<LOOPBACK6, LOOPBACK4>>,
                            LAMBDA c : /\ family_accepts_candidate(family, c)
                                       /\ Contains(candidates, c))
         IN preferred \o SelectSeq(candidates, LAMBDA c : ~Contains(preferred, c))

resolve_dns_candidates(node, family) == NetErr("EAI_NONAME")

resolve_hostname_candidates(node, family) ==
  LET Found(all) == IF all # <<>> THEN NetOk(all) ELSE resolve_dns_candidates(node, family)
  IN Found(reorder_localhost_candidates(node, family,
             append_localhost_fallback(node, family,
               resolve_hosts_file_candidates(node, family))))

resolve_candidates(parsed, family, flags) ==
  LET passive  == "AI_PASSIVE" \in flags
      defaults == << IF passive THEN Ipv6(IN6ADDR_ANY_BYTES) ELSE LOOPBACK6,
                     IF passive THEN Ipv4(INADDR_ANY_BYTES) ELSE LOOPBACK4 >>
  IN IF parsed = <<>>
       THEN NetOk(SelectSeq(defaults, LAMBDA c : family_accepts_candidate(family, c)))
       ELSE IF family_accepts_candidate(family, parsed[1])
              THEN NetOk(parsed)
              ELSE NetErr("EAI_FAMILY")

resolve_node_candidates(node, family, flags) ==
  LET Parsed(parsed) ==
        CASE parsed # <<>> -> resolve_candidates(parsed, family, flags)
          [] parsed = <<>> /\ "AI_NUMERICHOST" \in flags -> NetErr("EAI_NONAME")
          [] OTHER -> resolve_hostname_candidates(node, family)
  IN CASE node.kind = "null"  -> resolve_candidates(<<>>, family, flags)
       [] node.kind = "empty" -> NetErr("EAI_NONAME")
       [] OTHER -> Parsed(parse_numeric_host_text(node))

-----------------------------------------------------------------------------
(* Socket addresses.  s_addr is a word; the machine is little-endian.       *)

from_be_bytes(octets) ==
  FoldSeq(+, 0, [i \in 1..4 |-> octets[i] * OCTET_SIZE ^ (4 - i)])
to_be_bytes(word) == [i \in 1..4 |-> (word \div OCTET_SIZE ^ (4 - i)) % OCTET_SIZE]
\* External: the octets of a word as they lie in memory on x86_64.
InMemory(word) == [i \in 1..4 |-> (word \div OCTET_SIZE ^ (i - 1)) % OCTET_SIZE]

\* The port is kept as its number: to_be and from_be undo each other.
allocate_sockaddr(c, port) ==
  [family |-> c.family, port |-> port,
   addr   |-> IF c.family = "AF_INET" THEN <<from_be_bytes(c.address)>> ELSE c.address]

allocate_addrinfo_node(c, port, flags, profile) ==
  [ai_flags |-> flags, ai_family |-> c.family, ai_socktype |-> profile.socktype,
   ai_protocol |-> profile.protocol, ai_addr |-> allocate_sockaddr(c, port)]

\* [code, res]: res is the list, <<>> when the pointer stays null.
getaddrinfo(node, service, hints) ==
  LET Failed(error) == [code |-> error, res |-> <<>>]
      Listed(candidates, port, profile) ==
        CASE candidates.error # "none" -> Failed(candidates.error)
          [] candidates.error = "none" /\ candidates.value = <<>> -> Failed("EAI_NONAME")
          [] OTHER ->
               [code |-> "none",
                res  |-> [i \in DOMAIN candidates.value |->
                            allocate_addrinfo_node(candidates.value[i], port, hints.flags,
                                                   profile)]]
      AtPort(port, profile) ==
        IF port.error # "none"
        THEN Failed(map_getaddrinfo_service_error(service, hints.flags, port.error))
        ELSE Listed(resolve_node_candidates(node, hints.family, hints.flags), port.value, profile)
      WithProfile(profile) ==
        IF profile.error # "none" THEN Failed(profile.error)
        ELSE AtPort(parse_service_port(service, hints.flags, profile.value.protocol),
                    profile.value)
  IN IF node.kind = "null" /\ service.kind = "null" THEN Failed("EAI_NONAME")
     ELSE IF ~(hints.flags \subseteq ALLOWED_AI_FLAGS) THEN Failed("EAI_BADFLAGS")
     ELSE IF hints.family \notin {"AF_UNSPEC", "AF_INET", "AF_INET6"} THEN Failed("EAI_FAMILY")
     ELSE WithProfile(resolve_socket_profile(hints.socktype, hints.protocol))

-----------------------------------------------------------------------------
(* The way back.                                                           *)

DecimalLength(n) == IF n < 10 THEN 1 ELSE IF n < 100 THEN 2 ELSE 3
format_numeric_host(sockaddr) ==
  IF sockaddr.family = "AF_INET" THEN Ipv4(to_be_bytes(sockaddr.addr[1]))
                                 ELSE Ipv6(sockaddr.addr)
HostTextLength(c) ==
  IF c.family = "AF_INET"
    THEN 3 + FoldSeq(+, 0, [i \in 1..4 |-> DecimalLength(c.address[i])])
    ELSE Ipv6Lengths[c.address]

\* host and serv are <<size>> of the caller's buffer or <<>> for null; whole
\* says addrlen covers the family's structure.  Nothing is written before
\* both texts are known to fit.
getnameinfo(sockaddr, whole, host, serv, flags) ==
  LET text == format_numeric_host(sockaddr)
      Failed(error) == [code |-> error, host |-> <<>>, serv |-> <<>>]
  IN CASE ~(flags \subseteq ALLOWED_NI_FLAGS) -> Failed("EAI_BADFLAGS")
       [] host = <<>> /\ serv = <<>>          -> Failed("EAI_NONAME")
       [] host = <<0>> \/ serv = <<0>>        -> Failed("EAI_OVERFLOW")
       [] ~whole \/ sockaddr.family \notin {"AF_INET", "AF_INET6"} -> Failed("EAI_FAMILY")
       [] host # <<>> /\ "NI_NAMEREQD" \in flags /\ "NI_NUMERICHOST" \notin flags ->
            Failed("EAI_NONAME")
       [] host # <<>> /\ host[1] <= HostTextLength(text) -> Failed("EAI_OVERFLOW")
       [] serv # <<>> /\ serv[1] <= DecimalLength(sockaddr.port) -> Failed("EAI_OVERFLOW")
       [] OTHER -> [code |-> "none",
                    host |-> IF host = <<>> THEN <<>> ELSE <<text>>,
                    serv |-> IF serv = <<>> THEN <<>> ELSE <<sockaddr.port>>]

-----------------------------------------------------------------------------
(* Properties.                                                             *)

\* What a legacy address denotes: the only four octets whose number is the
\* sum of the components, each weighed by its place.
DenotesOctets(components, octets) ==
  LET n == Len(components)
  IN from_be_bytes(octets) - components[n].value =
       FoldSeq(+, 0, [i \in 1..(n - 1) |->
                        components[i].value * OCTET_SIZE ^ (4 - i)])

\* The answer of a lookup: the parts of LookupsAreSound.
AnswerIsSound(answer, node, service, hints, host, serv) ==
  LET list == answer.res
  IN /\ (answer.code = "none") <=> (list # <<>>)
     /\ \A i, j \in DOMAIN list : i # j => list[i].ai_addr # list[j].ai_addr
     /\ \A i \in DOMAIN list :
          LET back == getnameinfo(list[i].ai_addr, TRUE, host, serv, {"NI_NUMERICHOST"})
              text == format_numeric_host(list[i].ai_addr)
          IN /\ hints.family \in {"AF_UNSPEC", list[i].ai_family}
             /\ back.code # "none" => back.host = <<>> /\ back.serv = <<>>
             /\ back.code = "none" /\ host # <<>> => back.host = <<text>>
             /\ back.code = "none" /\ serv # <<>> => back.serv = <<list[1].ai_addr.port>>
             /\ node.kind = "dotted" => DenotesOctets(node.value, text.address)
             /\ node.kind = "dotted" /\ Len(node.value) <= 3 =>
                  LET n     == Len(node.value)
                      split == [node EXCEPT !.value = SubSeq(node.value, 1, n - 1) \o
                                 [k \in 1..(5 - n) |->
                                    [written |-> "decimal", value |-> text.address[n + k - 1]]]]
                  IN getaddrinfo(split, service, hints) = answer
     /\ is_localhost_name(node) /\ list # <<>> =>
          list[1].ai_addr.addr = IF hints.family = "AF_INET"
                                   THEN <<from_be_bytes(INADDR_LOOPBACK_BYTES)>>
                                   ELSE IN6ADDR_LOOPBACK_BYTES

\* A lookup gives a list exactly when it succeeds; the entries are distinct,
\* of the family asked for and of one port; getnameinfo turns each of them
\* back into the address it stands for, and on EAI_OVERFLOW writes neither
\* buffer (netdb.rs:1036); a name with localhost's rules starts with the
\* loopback address of the family (netdb.rs:883); a dotted node denotes the
\* number its components spell, and the same number in fewer components is
\* the same host.
LookupsAreSound(node, service, hints, host, serv) ==
  AnswerIsSound(getaddrinfo(node, service, hints), node, service, hints, host, serv)

\* The address in a socket address lies in memory in network byte order, the
\* most significant octet first, as the documentation of in_addr has it
\* (netdb.rs:115) and every system call that takes a sockaddr_in expects.
AddressIsInNetworkOrder(node, service, hints) ==
  LET list == getaddrinfo(node, service, hints).res
  IN \A i \in DOMAIN list :
       list[i].ai_family = "AF_INET" =>
         InMemory(list[i].ai_addr.addr[1]) = to_be_bytes(list[i].ai_addr.addr[1])

=============================================================================
