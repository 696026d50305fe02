------------------------------- MODULE InetAddr -------------------------------
(***************************************************************************)
(* kzevent::net::InetAddr (inet.hpp, inet.cpp): addresses made from text,  *)
(* handed to the kernel and made again from the sockaddr that it reports,  *)
(* and the equality and the hash under which they are keys of a table.     *)
(*                                                                         *)
(* A port has two bytes of radix Radix.  A name of a unix socket is a      *)
(* sequence of bytes, 0 being NUL, and sun_path has SunPath of them.  The  *)
(* text of an ip address is a number and how it is written; inet_pton and  *)
(* inet_ntop are external, like the names that the kernel reports.         *)
(***************************************************************************)
EXTENDS Integers, Sequences

CONSTANTS Ips, Scopes, Radix, Bytes, SunPath, MaxName

Base   == 2    \* offsetof(sockaddr_un, sun_path)
In     == 16   \* sizeof(sockaddr_in)
In6    == 28   \* sizeof(sockaddr_in6)
AtSign == -1

ASSUME InetAssumption ==
  /\ Radix \in Nat \ {0} /\ 0 \in Bytes /\ Bytes \subseteq Nat
  /\ SunPath \in Nat \ {0} /\ MaxName \in Nat

Ports == 0..(Radix * Radix - 1)
Names == UNION {[1..n -> Bytes] : n \in 0..MaxName}

\* addr_storage_ and socklen_, and as well a sockaddr and its length; sun_path
\* is what the length covers of it.
Storage(family, ip, port, scope, sun_path, len) ==
  [family |-> family, ip |-> ip, port |-> port, scope |-> scope,
   sun_path |-> sun_path, len |-> len]
Nil                    == Storage("none", 0, 0, 0, <<>>, 0)
Inet(ip, port)         == Storage("inet", ip, port, 0, <<>>, In)
Inet6(ip, port, scope) == Storage("inet6", ip, port, scope, <<>>, In6)
Unix(sun_path)         == Storage("unix", 0, 0, 0, sun_path,
                                  Base + Len(sun_path))

\* The bytes of a port in the order of the network, on a little-endian host.
htons(port) == (port % Radix) * Radix + port \div Radix
ntohs(port) == (port % Radix) * Radix + port \div Radix

(***************************************************************************)
(* The factories.                                                          *)
(***************************************************************************)
Texts     == [ip : Ips, form : {"short", "long", "bad"}]
Valid(t)  == t.form # "bad"                      \* inet_pton
ntop(ip)  == [ip |-> ip, form |-> "short"]       \* inet_ntop

make_ipv4(t, port) == IF Valid(t) THEN Inet(t.ip, htons(port)) ELSE Nil

make_ipv6(t, port, scope_id) ==
  IF Valid(t) THEN Inet6(t.ip, htons(port), scope_id) ELSE Nil

HasNul(s) == \E i \in DOMAIN s : s[i] = 0

\* No NUL inside, not empty, and room for one more byte.
GoodName(s) == ~HasNul(s) /\ s # <<>> /\ Len(s) + 1 <= SunPath

make_unix(path)     == IF GoodName(path) THEN Unix(path \o <<0>>) ELSE Nil
make_abstract(name) == IF GoodName(name) THEN Unix(<<0>> \o name) ELSE Nil

Least(S) == CHOOSE n \in S : \A m \in S : n <= m

\* Mutant: the NULs at the end stay.
Stripped_Not(s) == s

\* pop_back() while the last byte is NUL
Stripped(s) ==
  SubSeq(s, 1, Least({n \in 0..Len(s) : \A i \in n + 1..Len(s) : s[i] = 0}))

\* The C string at the start of s: what stands before the first NUL.
CString(s) == SubSeq(s, 1, Least({n \in 0..Len(s) : n < Len(s) => s[n + 1] = 0}))

make_from_sockaddr(sa) ==
  LET path == sa.sun_path
  IN CASE sa.family = "inet"  -> IF sa.len < In THEN Nil
                                 ELSE Inet(sa.ip, sa.port)
       [] sa.family = "inet6" -> IF sa.len < In6 THEN Nil
                                 ELSE Inet6(sa.ip, sa.port, sa.scope)
       [] sa.family = "unix"  ->
            IF sa.len <= Base \/ sa.len > Base + SunPath THEN Nil
            ELSE IF path[1] = 0 THEN make_abstract(Stripped(Tail(path)))
            ELSE make_unix(Stripped(path))
       [] OTHER -> Nil

(***************************************************************************)
(* What is done with an address.                                           *)
(***************************************************************************)
\* operator==; memcmp compares the bytes that the common length covers.
Equal(a, b) ==
  /\ a.family = b.family
  /\ CASE a.family = "inet"  -> a.port = b.port /\ a.ip = b.ip
       [] a.family = "inet6" -> a.port = b.port /\ a.ip = b.ip
       [] a.family = "unix"  -> /\ a.len = b.len /\ a.len > Base
                                /\ a.sun_path = b.sun_path
       [] OTHER -> FALSE

\* Mutant: the scope is hashed although operator== ignores it.
hash_Scope(a) == <<a.family, a.ip, a.port, a.scope, a.sun_path>>

\* hash(): what it combines
hash(a) ==
  CASE a.family = "inet"  -> <<a.family, a.ip, a.port>>
    [] a.family = "inet6" -> <<a.family, a.ip, a.port>>
    [] a.family = "unix"  -> IF a.len > Base THEN <<a.family, a.sun_path>>
                                             ELSE <<a.family>>
    [] OTHER -> <<>>

get_ip_or_path(a) ==
  CASE a.family \in {"inet", "inet6"} -> ntop(a.ip)
    [] a.family = "unix" ->
         IF a.len <= Base THEN <<>>
         ELSE IF a.sun_path[1] = 0 THEN <<AtSign>> \o Tail(a.sun_path)
         ELSE CString(a.sun_path)
    [] OTHER -> <<>>

get_port(a) == IF a.family \in {"inet", "inet6"} THEN ntohs(a.port) ELSE 0

-------------------------------------------------------------------------------
(***************************************************************************)
(* Two addresses that go through the kernel.                               *)
(***************************************************************************)
VARIABLES
  input,   \* what the application made an address from
  addr,    \* the address
  sa,      \* what the kernel reports
  back     \* the address made from it

vars  == <<input, addr, sa, back>>
Slots == 1..2

Input(op, text, port, scope) ==
  [op |-> op, text |-> text, port |-> port, scope |-> scope]
NoInput == Input("none", <<>>, 0, 0)

Init == /\ input = [i \in Slots |-> NoInput] /\ addr = [i \in Slots |-> Nil]
        /\ sa = [i \in Slots |-> Nil] /\ back = [i \in Slots |-> Nil]

Fresh(i) == input[i].op = "none" /\ sa[i] = Nil

Make(i, in, made) ==
  /\ Fresh(i)
  /\ input' = [input EXCEPT ![i] = in]
  /\ addr' = [addr EXCEPT ![i] = made]
  /\ UNCHANGED <<sa, back>>

MakeIpv4(i) == \E t \in Texts, p \in Ports :
                 Make(i, Input("ipv4", t, p, 0), make_ipv4(t, p))
MakeIpv6(i) == \E t \in Texts, p \in Ports, s \in Scopes :
                 Make(i, Input("ipv6", t, p, s), make_ipv6(t, p, s))
MakeUnix(i) == \E n \in Names : Make(i, Input("unix", n, 0, 0), make_unix(n))
MakeAbstract(i) ==
  \E n \in Names : Make(i, Input("abstract", n, 0, 0), make_abstract(n))

\* bind, and the name that the kernel reports afterwards: a path is ended by
\* a NUL, whatever the length said.
Report(i) ==
  /\ addr[i] # Nil /\ sa[i] = Nil
  /\ sa' = [sa EXCEPT ![i] = addr[i]]
  /\ UNCHANGED <<input, addr, back>>

\* The names of other programs: no name, a path (one that fills sun_path is
\* reported with the NUL that follows it), any bytes in an abstract name.
ForeignNames ==
  {Unix(<<>>)}
    \cup {Unix(n \o <<0>>) : n \in {m \in Names : ~HasNul(m) /\ m # <<>>}}
    \cup {Unix(<<0>> \o n) : n \in {m \in Names : Len(m) < SunPath}}
    \cup {Inet(ip, p) : ip \in Ips, p \in Ports}
    \cup {Inet6(ip, p, s) : ip \in Ips, p \in Ports, s \in Scopes}

Foreign(i) ==
  /\ Fresh(i)
  /\ \E name \in ForeignNames : sa' = [sa EXCEPT ![i] = name]
  /\ UNCHANGED <<input, addr, back>>

\* recvfrom, accept, getsockname: the address is made from the sockaddr.
Parse(i) ==
  /\ sa[i] # Nil /\ back[i] = Nil
  /\ back' = [back EXCEPT ![i] = make_from_sockaddr(sa[i])]
  /\ UNCHANGED <<input, addr, sa>>

Next == \E i \in Slots :
          \/ MakeIpv4(i) \/ MakeIpv6(i) \/ MakeUnix(i) \/ MakeAbstract(i)
          \/ Report(i) \/ Foreign(i) \/ Parse(i)

Spec == Init /\ [][Next]_vars

-------------------------------------------------------------------------------
\* What the application asked for, as it is printed.
Printed(in) == CASE in.op \in {"ipv4", "ipv6"} -> ntop(in.text.ip)
                 [] in.op = "unix"     -> in.text
                 [] in.op = "abstract" -> <<AtSign>> \o in.text

\* An address survives the way through the kernel: what make_from_sockaddr
\* makes of it is the same key, and shows the ip or path and the port from
\* which the application made it.
RoundTrip ==
  \A i \in Slots : addr[i] # Nil /\ sa[i] # Nil =>
    LET again == make_from_sockaddr(sa[i])
    IN /\ Equal(addr[i], again) /\ hash(addr[i]) = hash(again)
       /\ get_ip_or_path(again) = Printed(input[i])
       /\ get_port(again) = input[i].port

\* An abstract name with NULs at its end.
Padded(s) == s.family = "unix" /\ s.len > Base + 1 /\ s.sun_path[1] = 0
               /\ s.sun_path[Len(s.sun_path)] = 0

\* Addresses are good keys for the sessions of a server: two that the kernel
\* reports are equal just when they are the same peer, and then they hash
\* alike.  (Left out: IPv6 peers that differ in their scope, and abstract names
\* that differ in NULs at the end, are taken for one.)
KeysAreExact ==
  back[1] # Nil /\ back[2] # Nil =>
    /\ Equal(back[1], back[2]) => hash(back[1]) = hash(back[2])
    /\ sa[1].scope = sa[2].scope /\ ~Padded(sa[1]) /\ ~Padded(sa[2]) =>
         (Equal(back[1], back[2]) <=> sa[1] = sa[2])
===============================================================================
