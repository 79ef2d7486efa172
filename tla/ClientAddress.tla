---------------------------- MODULE ClientAddress ----------------------------
(***************************************************************************)
(* Who a request is from (http/client_ip.rs).  A request passes from host   *)
(* to host; a trusted proxy writes down truthfully, in X-Forwarded-For,     *)
(* whom it took the request from, and any other host writes what it likes.  *)
(* The last host's connection and the header are all the server sees.      *)
(*                                                                         *)
(* An address is a family and a number; an IPv4 address may also be written *)
(* in its IPv6-mapped form.  Widths are a few bits instead of 32 and 128.   *)
(***************************************************************************)
EXTENDS Integers, Sequences, FiniteSetsExt

CONSTANTS Hosts,        \* the addresses hosts have, in canonical form
          Listed,       \* what an operator may write in the list: [addr, prefix]
          WidthV4, WidthV6,
          MaxForged,    \* bound: entries that were there before the first proxy
          MaxEntries    \* bound: entries in the header

Families == {"v4", "v6"}

\* to_canonical.
Canonical(addr) == IF addr.fam = "mapped" THEN [addr EXCEPT !.fam = "v4"] ELSE addr

\* The forms an address is written in.
Written(addr) == {addr} \cup IF addr.fam = "v4" THEN {[addr EXCEPT !.fam = "mapped"]} ELSE {}

Junk == [fam |-> "none", bits |-> 0]

ASSUME AddressConstants ==
    /\ WidthV4 \in Nat /\ WidthV6 \in Nat /\ MaxForged \in Nat /\ MaxEntries \in Nat
    /\ Hosts \subseteq [fam : Families, bits : Nat]

VARIABLES trusted,   \* TrustedProxies
          holder,    \* the host the request is at
          header,    \* the X-Forwarded-For entries, and whether the line of each can be read
          who,       \* the last host that is not a trusted proxy, as far as proxies told
          proxies,   \* the trusted proxies passed
          clientIp   \* ClientIp, once the server has resolved it

addressVars == <<trusted, holder, header, who, proxies, clientIp>>

Unresolved == Junk
-----------------------------------------------------------------------------
Width(addr) == IF addr.fam = "v4" THEN WidthV4 ELSE WidthV6

\* mask: everything below prefix cleared.
Mask(addr, prefix) ==
    LET block == 2 ^ (Width(addr) - prefix)
    IN  [addr EXCEPT !.bits = (@ \div block) * block]

\* ProxyNet::new: the list is refused if a prefix does not fit.
Fits(entry) == entry.prefix <= Width(Canonical(entry.addr))
ProxyNet(entry) ==
    [base |-> Mask(Canonical(entry.addr), entry.prefix), prefix |-> entry.prefix]

\* ProxyNet::contains.
NetContains(net, addr) ==
    LET a == Canonical(addr)
    IN  net.base.fam = a.fam /\ Mask(a, net.prefix) = net.base

\* TrustedProxies::contains.
Trusted(addr) == \E net \in trusted : NetContains(net, addr)

\* The chain: the entries of the lines that can be read.
Chain == {i \in DOMAIN header : header[i].readable}

\* Mutant: an entry that is no address is passed over.
ResolveClientSkipping(peer) ==
    LET named == {i \in Chain : header[i].addr # Junk}
        stop == Max({0} \cup {i \in named : ~Trusted(header[i].addr)})
        passed == {i \in named : i > stop}
    IN  Canonical(CASE ~Trusted(peer) \/ named = {} -> peer
                    [] Trusted(peer) /\ named # {} /\ stop # 0 -> header[stop].addr
                    [] OTHER -> header[Min(passed)].addr)

\* Where the walk from the right ends: at an entry that is no address, or not a
\* trusted one, or (0) past the leftmost.
Stop == Max({0} \cup {i \in Chain : header[i].addr = Junk \/ ~Trusted(header[i].addr)})

\* The innermost address accepted so far: the last trusted entry, else the peer.
Nearest(peer) ==
    LET passed == {i \in Chain : i > Stop}
    IN  IF passed = {} THEN peer ELSE header[Min(passed)].addr

\* ClientIp::resolve: a peer that is not trusted, or the entry that is not, or nearest.
ResolveClient(peer) ==
    Canonical(CASE ~Trusted(peer) -> peer
                [] Trusted(peer) /\ Stop # 0 /\ header[Stop].addr # Junk -> header[Stop].addr
                [] OTHER -> Nearest(peer))
-----------------------------------------------------------------------------
\* What a host that is not trusted may have sent: forged addresses and what is no
\* address, in lines that can be read and in lines that cannot.
Forgery ==
    LET entry == [addr : Hosts \cup {Junk}, readable : BOOLEAN]
    IN  UNION {[1..n -> entry] : n \in 0..MaxForged}

\* The request starts at the last host that is not a trusted proxy: what it was sent
\* before, that host may have rewritten.  Or at a trusted proxy, on its own account.
AddressInit ==
    /\ \E a, b \in Listed : Fits(a) /\ Fits(b) /\ trusted \in {{}, {ProxyNet(a)}, {ProxyNet(a), ProxyNet(b)}}
    /\ holder \in Hosts
    /\ header \in IF Trusted(holder) THEN {<<>>} ELSE Forgery
    /\ who = holder
    /\ proxies = {}
    /\ clientIp = Unresolved

\* The header joined to one line: it can be read if every part of it could be.
Joined(all) ==
    LET readable == \A i \in DOMAIN all : all[i].readable
    IN  [i \in DOMAIN all |-> [addr |-> all[i].addr, readable |-> readable]]

\* A trusted proxy takes the request: it adds the holder's address, in any form, or
\* that it will not say ("unknown"), as a line of its own, or to the header joined to
\* one line.
Proxied(proxy, entry) ==
    LET added == Append(header, [addr |-> entry, readable |-> TRUE])
    IN  /\ clientIp = Unresolved
        /\ Len(header) < MaxEntries
        /\ Trusted(proxy)
        /\ header' \in {added, Joined(added)}
        /\ holder' = proxy
        /\ who' = IF entry = Junk THEN proxy ELSE who
        /\ proxies' = proxies \cup {proxy}
        /\ UNCHANGED <<trusted, clientIp>>

\* serve: the peer's address is resolved once, for every reader of the request.
Serve(peer) ==
    /\ clientIp = Unresolved
    /\ clientIp' = ResolveClient(peer)
    /\ UNCHANGED <<trusted, holder, header, who, proxies>>

AddressNext ==
    \/ \E h \in Hosts, e \in Written(holder) \cup {Junk} : Proxied(h, e)
    \/ \E peer \in Written(holder) : Serve(peer)

AddressSpec == AddressInit /\ [][AddressNext]_addressVars
-----------------------------------------------------------------------------
\* A request is put down to the last host on its way that is not a trusted proxy,
\* whatever that host wrote in the header.  The one exception: when part of the header
\* cannot be read, it may be put down to one of the proxies after that host.
ClientIsReal ==
    clientIp # Unresolved =>
        \/ clientIp = who
        \/ clientIp \in proxies /\ \E i \in DOMAIN header : ~header[i].readable
=============================================================================
