---------------------------- MODULE InetAddr_proofs ----------------------------
(***************************************************************************)
(* Proofs about InetAddr, for any ip addresses, scopes, radix of the bytes *)
(* of a port, bytes of a name, and lengths of a name and of sun_path.      *)
(***************************************************************************)
EXTENDS InetAddr, SequenceTheorems, TLAPS

\* The sockaddrs that stand for an ip address, the path of a unix socket or an
\* abstract name.
IpName(s)   == s = Inet(s.ip, s.port) \/ s = Inet6(s.ip, s.port, s.scope)
PathName(s) == \E n \in Names : n # <<>> /\ ~HasNul(n) /\ s = Unix(n \o <<0>>)
AbstractName(s) == \E n \in Names : s = Unix(<<0>> \o n)
KernelName(s) == \/ s = Unix(<<>>)
                 \/ IpName(s) \/ PathName(s) \/ AbstractName(s)

\* What the application asked for, and the address it got.
MadeFrom(in, a) ==
  \/ in.op = "ipv4" /\ in.port \in Ports /\ a = Inet(in.text.ip, htons(in.port))
  \/ /\ in.op = "ipv6" /\ in.port \in Ports
     /\ a = Inet6(in.text.ip, htons(in.port), in.scope)
  \/ /\ in.op = "unix" /\ in.text \in Names /\ in.port = 0
     /\ GoodName(in.text) /\ a = Unix(in.text \o <<0>>)
  \/ /\ in.op = "abstract" /\ in.text \in Names /\ in.port = 0
     /\ GoodName(in.text) /\ a = Unix(<<0>> \o in.text)

\* An address is what its input makes, the kernel reports it as it is or a name
\* of its own, and what comes back is made from that.
SlotInv ==
  \A i \in Slots :
    /\ addr[i] # Nil => MadeFrom(input[i], addr[i])
    /\ input[i].op = "none" => addr[i] = Nil
    /\ sa[i] # Nil => \/ addr[i] # Nil /\ sa[i] = addr[i]
                      \/ addr[i] = Nil /\ input[i].op = "none" /\ KernelName(sa[i])
    /\ back[i] # Nil => sa[i] # Nil /\ back[i] = make_from_sockaddr(sa[i])

SlotTypes ==
  DOMAIN input = Slots /\ DOMAIN addr = Slots /\ DOMAIN sa = Slots
  /\ DOMAIN back = Slots

IInv == SlotTypes /\ SlotInv
-------------------------------------------------------------------------------
(***************************************************************************)
(* What the operators of the model give.                                   *)
(***************************************************************************)
LEMMA LeastIs ==
  ASSUME NEW S \in SUBSET Int, NEW n \in S, \A m \in S : n <= m
  PROVE  Least(S) = n
<1>1. \E k \in S : \A m \in S : k <= m
  OBVIOUS
<1>2. PICK l : l = Least(S)
  OBVIOUS
<1>3. l \in S /\ \A m \in S : l <= m
  BY <1>1, <1>2 DEF Least
<1>4. l = n
  BY <1>3
<1> QED
  BY <1>2, <1>4

LEMMA NamesAreSeqs ==
  ASSUME NEW n \in Names
  PROVE  n \in Seq(Nat)
<1>1. PICK k \in 0..MaxName : n \in [1..k -> Bytes]
  BY DEF Names
<1>2. k \in Nat /\ Bytes \subseteq Nat
  BY <1>1, InetAssumption
<1>3. n \in [1..k -> Nat]
  BY <1>1, <1>2
<1> QED
  BY <1>2, <1>3

\* A sequence without its last byte, and without its first.
LEMMA Ended ==
  ASSUME NEW n \in Seq(Nat)
  PROVE  /\ n \o <<0>> \in Seq(Nat) /\ Len(n \o <<0>>) = Len(n) + 1
         /\ (n \o <<0>>)[Len(n) + 1] = 0
         /\ \A i \in 1..Len(n) : (n \o <<0>>)[i] = n[i]
         /\ SubSeq(n \o <<0>>, 1, Len(n)) = n
         /\ SubSeq(n, 1, Len(n)) = n
<1>1. PICK s : s = n \o <<0>>
  OBVIOUS
<1>2. /\ s \in Seq(Nat) /\ Len(s) = Len(n) + 1 /\ s[Len(n) + 1] = 0
      /\ \A i \in 1..Len(n) : s[i] = n[i]
  BY <1>1
<1>3. SubSeq(s, 1, Len(n)) = n
  <2>1. PICK r : r = SubSeq(s, 1, Len(n))
    OBVIOUS
  <2>2. r \in Seq(Nat) /\ Len(r) = Len(n) /\ \A i \in 1..Len(n) : r[i] = n[i]
    BY <1>2, <2>1
  <2> QED
    BY <2>1, <2>2, SeqEqual
<1>4. SubSeq(n, 1, Len(n)) = n
  <2>1. PICK r : r = SubSeq(n, 1, Len(n))
    OBVIOUS
  <2>2. r \in Seq(Nat) /\ Len(r) = Len(n) /\ \A i \in 1..Len(n) : r[i] = n[i]
    BY <2>1
  <2> QED
    BY <2>1, <2>2, SeqEqual
<1> QED
  BY <1>1, <1>2, <1>3, <1>4

LEMMA Begun ==
  ASSUME NEW n \in Seq(Nat)
  PROVE  /\ <<0>> \o n \in Seq(Nat) /\ Len(<<0>> \o n) = Len(n) + 1
         /\ (<<0>> \o n)[1] = 0 /\ Tail(<<0>> \o n) = n
         /\ n # <<>> => (<<0>> \o n)[Len(n) + 1] = n[Len(n)]
<1>1. PICK s : s = <<0>> \o n
  OBVIOUS
<1>2. /\ s \in Seq(Nat) /\ Len(s) = Len(n) + 1 /\ s[1] = 0
      /\ \A i \in 1..Len(n) : s[i + 1] = n[i]
  BY <1>1
<1>3. Tail(s) = n
  <2>1. PICK r : r = Tail(s)
    OBVIOUS
  <2>2. r \in Seq(Nat) /\ Len(r) = Len(n) /\ \A i \in 1..Len(n) : r[i] = n[i]
    BY <1>2, <2>1
  <2> QED
    BY <2>1, <2>2, SeqEqual
<1>4. n # <<>> => s[Len(n) + 1] = n[Len(n)]
  BY <1>2
<1> QED
  BY <1>1, <1>2, <1>3, <1>4

\* The loop that drops the NULs at the end stops at a byte that is none.
LEMMA StrippedStops ==
  ASSUME NEW n \in Seq(Nat), n # <<>>, n[Len(n)] # 0
  PROVE  Stripped(n) = n /\ Stripped(n \o <<0>>) = n
<1>1. PICK l \in Nat : l = Len(n) /\ l > 0
  OBVIOUS
<1>2. PICK s : s = n \o <<0>>
  OBVIOUS
<1>3. /\ s \in Seq(Nat) /\ Len(s) = l + 1 /\ s[l + 1] = 0 /\ s[l] = n[l]
      /\ SubSeq(s, 1, l) = n /\ SubSeq(n, 1, l) = n
  BY <1>1, <1>2, Ended
<1>4. Stripped(n) = n
  <2>1. PICK kept : kept = {m \in 0..l : \A i \in m + 1..l : n[i] = 0}
    OBVIOUS
  <2>2. kept \in SUBSET Int /\ l \in kept
    BY <2>1
  <2>3. \A m \in kept : l <= m
    BY <1>1, <2>1
  <2>4. Least(kept) = l
    BY <2>2, <2>3, LeastIs
  <2> QED
    BY <1>1, <1>3, <2>1, <2>4 DEF Stripped
<1>5. Stripped(s) = n
  <2>1. PICK kept : kept = {m \in 0..l + 1 : \A i \in m + 1..l + 1 : s[i] = 0}
    OBVIOUS
  <2>2. kept \in SUBSET Int /\ l \in kept
    BY <1>3, <2>1
  <2>3. \A m \in kept : l <= m
    BY <1>1, <1>3, <2>1
  <2>4. Least(kept) = l
    BY <2>2, <2>3, LeastIs
  <2> QED
    BY <1>3, <2>1, <2>4 DEF Stripped
<1> QED
  BY <1>2, <1>4, <1>5

\* The C string of a path is the path.
LEMMA CStringIs ==
  ASSUME NEW n \in Seq(Nat), ~HasNul(n)
  PROVE  CString(n \o <<0>>) = n
<1>1. PICK l \in Nat : l = Len(n)
  OBVIOUS
<1>2. PICK s : s = n \o <<0>>
  OBVIOUS
<1>3. /\ s \in Seq(Nat) /\ Len(s) = l + 1 /\ s[l + 1] = 0
      /\ \A i \in 1..l : s[i] = n[i] /\ n[i] # 0
      /\ SubSeq(s, 1, l) = n
  BY <1>1, <1>2, Ended DEF HasNul
<1>4. PICK ends : ends = {m \in 0..l + 1 : m < l + 1 => s[m + 1] = 0}
  OBVIOUS
<1>5. ends \in SUBSET Int /\ l \in ends
  BY <1>3, <1>4
<1>6. \A m \in ends : l <= m
  <2> SUFFICES ASSUME NEW m \in ends, m < l PROVE FALSE
    BY <1>4
  <2>1. PICK k \in 1..l : k = m + 1
    BY <1>4
  <2> QED
    BY <1>3, <1>4, <2>1
<1>7. Least(ends) = l
  BY <1>5, <1>6, LeastIs
<1> QED
  BY <1>2, <1>3, <1>4, <1>7 DEF CString

\* The byte order of the network is undone.
LEMMA PortsComeBack ==
  ASSUME NEW p \in Ports
  PROVE  ntohs(htons(p)) = p
<1>1. Radix \in Nat /\ Radix > 0
  BY InetAssumption
<1>2. p \in Nat /\ p < Radix * Radix
  BY <1>1 DEF Ports
<1>3. PICK x \in Int, y \in Int : x = p \div Radix /\ y = p % Radix
  BY <1>1, <1>2
<1>4. y \in 0..Radix - 1 /\ p = x * Radix + y
  BY <1>1, <1>2, <1>3
<1>5. x \in 0..Radix - 1
  BY <1>1, <1>2, <1>3, <1>4
<1>6. PICK h : h = y * Radix + x
  OBVIOUS
<1>7. h % Radix = x /\ h \div Radix = y
  BY <1>1, <1>4, <1>5, <1>6
<1> QED
  BY <1>3, <1>4, <1>6, <1>7 DEF ntohs, htons
-------------------------------------------------------------------------------
(***************************************************************************)
(* What make_from_sockaddr makes of a name.                                *)
(***************************************************************************)
LEMMA Fields ==
  /\ Nil.family = "none"
  /\ \A ip, p : /\ Inet(ip, p).family = "inet" /\ Inet(ip, p).len = In
                /\ Inet(ip, p).ip = ip /\ Inet(ip, p).port = p
                /\ Inet(ip, p).scope = 0
  /\ \A ip, p, s : /\ Inet6(ip, p, s).family = "inet6" /\ Inet6(ip, p, s).len = In6
                   /\ Inet6(ip, p, s).ip = ip /\ Inet6(ip, p, s).port = p
                   /\ Inet6(ip, p, s).scope = s
  /\ \A path : /\ Unix(path).family = "unix" /\ Unix(path).len = Base + Len(path)
               /\ Unix(path).sun_path = path
  BY DEF Nil, Inet, Inet6, Unix, Storage

LEMMA UnixFields ==
  ASSUME NEW path, NEW s, s = Unix(path)
  PROVE  s.family = "unix" /\ s.len = Base + Len(path) /\ s.sun_path = path
  BY Fields

LEMMA IpParsed ==
  ASSUME NEW s, IpName(s)
  PROVE  make_from_sockaddr(s) = s /\ (s.family = "inet" \/ s.family = "inet6")
<1>1. CASE s = Inet(s.ip, s.port)
  <2>1. s.family = "inet" /\ s.len = In
    BY <1>1, Fields
  <2> QED
    BY <1>1, <2>1 DEF make_from_sockaddr, In
<1>2. CASE s = Inet6(s.ip, s.port, s.scope)
  <2>1. s.family = "inet6" /\ s.len = In6
    BY <1>2, Fields
  <2> QED
    BY <1>2, <2>1 DEF make_from_sockaddr, In6
<1> QED
  BY <1>1, <1>2 DEF IpName

LEMMA PathParsed ==
  ASSUME NEW n \in Seq(Nat), n # <<>>, ~HasNul(n), NEW s, s = Unix(n \o << 0 >>)
  PROVE  make_from_sockaddr(s) = IF Len(n) + 1 <= SunPath THEN s ELSE Nil
<1>1. PICK l \in Nat : l = Len(n) /\ l > 0
  OBVIOUS
<1>2. PICK path : path = n \o <<0>>
  OBVIOUS
<1>3. path \in Seq(Nat) /\ Len(path) = l + 1 /\ path[1] = n[1] /\ n[1] # 0 /\ n[l] # 0
  BY <1>1, <1>2, Ended DEF HasNul
<1>4. s.family = "unix" /\ s.len = Base + (l + 1) /\ s.sun_path = path
  <2>1. s = Unix(path)
    BY <1>2
  <2>2. s.family = "unix" /\ s.len = Base + Len(path) /\ s.sun_path = path
    BY ONLY <2>1, UnixFields
  <2> QED
    BY <1>3, <2>2
<1>5. Stripped(path) = n
  BY <1>1, <1>2, <1>3, StrippedStops
<1>6. SunPath \in Nat
  BY InetAssumption
<1>7. s.len > Base /\ (s.len > Base + SunPath <=> ~(l + 1 <= SunPath))
  BY <1>4, <1>6 DEF Base
<1>8. make_from_sockaddr(s) = IF s.len > Base + SunPath THEN Nil ELSE make_unix(n)
  BY <1>3, <1>4, <1>5, <1>7 DEF make_from_sockaddr, Base
<1>9. l + 1 <= SunPath => make_unix(n) = s
  BY <1>1 DEF make_unix, GoodName
<1> QED
  BY <1>1, <1>7, <1>8, <1>9

\* An abstract name that does not end with a NUL.
LEMMA AbstractParsed ==
  ASSUME NEW n \in Seq(Nat), n # <<>>, n[Len(n)] # 0, NEW s, s = Unix(<< 0 >> \o n)
  PROVE  /\ GoodName(n) => make_from_sockaddr(s) = s
         /\ make_from_sockaddr(s) # Nil => make_from_sockaddr(s) = s
<1>1. PICK l \in Nat : l = Len(n) /\ l > 0
  OBVIOUS
<1>2. PICK path : path = <<0>> \o n
  OBVIOUS
<1>3. path \in Seq(Nat) /\ Len(path) = l + 1 /\ path[1] = 0 /\ Tail(path) = n
  BY <1>1, <1>2, Begun
<1>4. s.family = "unix" /\ s.len = Base + (l + 1) /\ s.sun_path = path
  <2>1. s = Unix(path)
    BY <1>2
  <2>2. s.family = "unix" /\ s.len = Base + Len(path) /\ s.sun_path = path
    BY ONLY <2>1, UnixFields
  <2> QED
    BY <1>3, <2>2
<1>5. Stripped(n) = n
  BY <1>1, StrippedStops
<1>6. SunPath \in Nat
  BY InetAssumption
<1>7. s.len > Base /\ (s.len > Base + SunPath <=> ~(l + 1 <= SunPath))
  BY <1>4, <1>6 DEF Base
<1>8. make_from_sockaddr(s) = IF s.len > Base + SunPath THEN Nil ELSE make_abstract(n)
  <2>1. s.sun_path[1] = 0 /\ Stripped(Tail(s.sun_path)) = n
    BY <1>3, <1>4, <1>5
  <2> QED
    BY <1>4, <1>7, <2>1 DEF make_from_sockaddr, Base
<1>9. make_abstract(n) = IF GoodName(n) THEN s ELSE Nil
  BY DEF make_abstract
<1>10. GoodName(n) => l + 1 <= SunPath
  BY <1>1 DEF GoodName
<1> QED
  BY <1>7, <1>8, <1>9, <1>10

\* No name at all, and the abstract name without a byte.
LEMMA EmptyParsed ==
  /\ make_from_sockaddr(Unix(<<>>)) = Nil
  /\ make_from_sockaddr(Unix(<<0>> \o <<>>)) = Nil
<1>1. make_from_sockaddr(Unix(<<>>)) = Nil
  <2>1. PICK s : s = Unix(<<>>)
    OBVIOUS
  <2>2. s.family = "unix" /\ s.len = Base
    BY <2>1 DEF Unix, Storage, Base
  <2> QED
    BY <2>1, <2>2 DEF make_from_sockaddr, Base
<1>2. PICK path : path = <<0>> \o <<>>
  OBVIOUS
<1>3. path \in Seq(Nat) /\ Len(path) = 1 /\ path[1] = 0 /\ Tail(path) = <<>>
  BY <1>2
<1>4. PICK s : s = Unix(path)
  OBVIOUS
<1>5. s.family = "unix" /\ s.len = Base + 1 /\ s.sun_path = path
  <2>1. s.family = "unix" /\ s.len = Base + Len(path) /\ s.sun_path = path
    BY ONLY <1>4, UnixFields
  <2> QED
    BY <1>3, <2>1
<1>6. Stripped(<<>>) = <<>>
  <2>1. PICK kept : kept = {m \in 0..0 : \A i \in m + 1..0 : <<>>[i] = 0}
    OBVIOUS
  <2>2. kept \in SUBSET Int /\ 0 \in kept /\ \A m \in kept : 0 <= m
    BY <2>1
  <2>3. Least(kept) = 0
    BY <2>2, LeastIs
  <2>4. SubSeq(<<>>, 1, 0) = <<>> /\ Len(<<>>) = 0
    OBVIOUS
  <2> QED
    BY <2>1, <2>3, <2>4 DEF Stripped
<1>7. make_abstract(<<>>) = Nil
  BY DEF make_abstract, GoodName
<1>8. make_from_sockaddr(s) = Nil
  BY <1>3, <1>5, <1>6, <1>7 DEF make_from_sockaddr, Base
<1> QED
  BY <1>1, <1>2, <1>4, <1>8
-------------------------------------------------------------------------------
(***************************************************************************)
(* Addresses as keys.                                                      *)
(***************************************************************************)
\* The kinds of names that the kernel reports, by their family.
LEMMA Kinds ==
  ASSUME NEW s, KernelName(s)
  PROVE  \/ s.family = "inet" /\ s = Inet(s.ip, s.port) /\ s.scope = 0
         \/ s.family = "inet6" /\ s = Inet6(s.ip, s.port, s.scope)
         \/ s.family = "unix" /\ s = Unix(s.sun_path)
<1>1. CASE \E path : s = Unix(path)
  <2>1. PICK path : s = Unix(path)
    BY <1>1
  <2>2. s.family = "unix" /\ s.sun_path = path
    BY ONLY <2>1, UnixFields
  <2> QED
    BY <2>1, <2>2
<1>2. CASE IpName(s)
  <2>1. CASE s = Inet(s.ip, s.port)
    <3>1. PICK ip, port : s = Inet(ip, port)
      BY <2>1
    <3>2. s.family = "inet" /\ s.scope = 0
      BY ONLY <3>1 DEF Inet, Inet6, Storage
    <3> QED
      BY ONLY <2>1, <3>2
  <2>2. CASE s = Inet6(s.ip, s.port, s.scope)
    <3>1. PICK ip, port, scope : s = Inet6(ip, port, scope)
      BY <2>2
    <3>2. s.family = "inet6"
      BY ONLY <3>1 DEF Inet, Inet6, Storage
    <3> QED
      BY ONLY <2>2, <3>2
  <2> QED
    BY <1>2, <2>1, <2>2 DEF IpName
<1> QED
  BY <1>1, <1>2 DEF KernelName, PathName, AbstractName

\* A name that is accepted, and is not an abstract one with NULs at its end, is
\* kept as it is.
LEMMA AcceptedIsKept ==
  ASSUME NEW s, KernelName(s), ~Padded(s), make_from_sockaddr(s) # Nil
  PROVE  make_from_sockaddr(s) = s /\ (s.family = "unix" => s.len > Base)
<1>1. CASE s = Unix(<<>>)
  BY <1>1, EmptyParsed
<1>2. CASE IpName(s)
  BY <1>2, IpParsed
<1>3. CASE PathName(s)
  <2>1. PICK n \in Names : n # <<>> /\ ~HasNul(n) /\ s = Unix(n \o <<0>>)
    BY <1>3 DEF PathName
  <2>2. n \in Seq(Nat)
    BY NamesAreSeqs
  <2>3. make_from_sockaddr(s) = s
    BY <2>1, <2>2, PathParsed
  <2>4. PICK path : path = n \o <<0>>
    OBVIOUS
  <2>5. Len(path) = Len(n) + 1
    BY <2>2, <2>4, Ended
  <2>6. s.len = Base + Len(path)
    BY <2>1, <2>4, UnixFields
  <2> QED
    BY <2>2, <2>3, <2>5, <2>6 DEF Base
<1>4. CASE AbstractName(s)
  <2>1. PICK n \in Names : s = Unix(<<0>> \o n)
    BY <1>4 DEF AbstractName
  <2>2. n \in Seq(Nat)
    BY NamesAreSeqs
  <2>3. n # <<>>
    BY <2>1, EmptyParsed
  <2>4. PICK path : path = <<0>> \o n
    OBVIOUS
  <2>5. /\ Len(path) = Len(n) + 1 /\ path[1] = 0
        /\ path[Len(n) + 1] = n[Len(n)]
    BY <2>2, <2>3, <2>4, Begun
  <2>6. s.family = "unix" /\ s.len = Base + Len(path) /\ s.sun_path = path
    BY <2>1, <2>4, UnixFields
  <2>7. PICK l \in Nat : l = Len(n) /\ l > 0
    BY <2>2, <2>3
  <2>8. s.len > Base /\ s.len > Base + 1 /\ s.sun_path[1] = 0
        /\ s.sun_path[Len(s.sun_path)] = n[Len(n)]
    BY <2>5, <2>6, <2>7 DEF Base
  <2>9. n[Len(n)] # 0
    BY <2>6, <2>8 DEF Padded
  <2>10. make_from_sockaddr(s) = s
    BY <2>1, <2>2, <2>3, <2>9, AbstractParsed
  <2> QED
    BY <2>8, <2>10
<1> QED
  BY <1>1, <1>2, <1>3, <1>4 DEF KernelName

LEMMA EqualHashAlike ==
  ASSUME NEW a, NEW b, Equal(a, b)
  PROVE  hash(a) = hash(b)
  BY DEF Equal, hash

\* Equality tells every two names apart, but for the scope.
LEMMA EqualIsSame ==
  ASSUME NEW a, NEW b, KernelName(a), KernelName(b), a.scope = b.scope
  PROVE  Equal(a, b) => a = b
<1> SUFFICES ASSUME Equal(a, b) PROVE a = b
  OBVIOUS
<1>1. a.family = b.family
  BY DEF Equal
<1>2. CASE a.family = "inet"
  <2>1. a = Inet(a.ip, a.port) /\ b = Inet(b.ip, b.port)
    BY <1>1, <1>2, Kinds
  <2>2. a.ip = b.ip /\ a.port = b.port
    BY <1>2 DEF Equal
  <2> QED
    BY <2>1, <2>2
<1>3. CASE a.family = "inet6"
  <2>1. a = Inet6(a.ip, a.port, a.scope) /\ b = Inet6(b.ip, b.port, b.scope)
    BY <1>1, <1>3, Kinds
  <2>2. a.ip = b.ip /\ a.port = b.port
    BY <1>3 DEF Equal
  <2> QED
    BY <2>1, <2>2
<1>4. CASE a.family = "unix"
  <2>1. a = Unix(a.sun_path) /\ b = Unix(b.sun_path)
    BY <1>1, <1>4, Kinds
  <2>2. a.sun_path = b.sun_path
    BY <1>4 DEF Equal
  <2> QED
    BY <2>1, <2>2
<1> QED
  BY <1>2, <1>3, <1>4, Kinds

LEMMA SameIsEqual ==
  ASSUME NEW a, KernelName(a), a.family = "unix" => a.len > Base
  PROVE  Equal(a, a)
<1>1. a.family = "inet" \/ a.family = "inet6" \/ a.family = "unix"
  BY Kinds
<1> QED
  BY <1>1 DEF Equal

LEMMA MadeIsName ==
  ASSUME NEW in, NEW a, MadeFrom(in, a)
  PROVE  KernelName(a)
<1>1. CASE a = Inet(in.text.ip, htons(in.port))
  <2>1. PICK ip, port : a = Inet(ip, port)
    BY <1>1
  <2>2. a = Inet(a.ip, a.port)
    BY <2>1, Fields
  <2> QED
    BY <2>2 DEF KernelName, IpName
<1>2. CASE a = Inet6(in.text.ip, htons(in.port), in.scope)
  <2>1. PICK ip, port, scope : a = Inet6(ip, port, scope)
    BY <1>2
  <2>2. a = Inet6(a.ip, a.port, a.scope)
    BY <2>1, Fields
  <2> QED
    BY <2>2 DEF KernelName, IpName
<1>3. CASE in.text \in Names /\ GoodName(in.text) /\ a = Unix(in.text \o <<0>>)
  BY <1>3 DEF KernelName, PathName, GoodName
<1>4. CASE in.text \in Names /\ GoodName(in.text) /\ a = Unix(<<0>> \o in.text)
  BY <1>4 DEF KernelName, AbstractName
<1> QED
  BY <1>1, <1>2, <1>3, <1>4 DEF MadeFrom

\* What the application made comes back as it is, and shows what it was made
\* from.
LEMMA MadeComesBack ==
  ASSUME NEW in, NEW a, MadeFrom(in, a)
  PROVE  /\ make_from_sockaddr(a) = a /\ Equal(a, a)
         /\ get_ip_or_path(a) = Printed(in) /\ get_port(a) = in.port
<1>1. CASE in.op = "ipv4" /\ in.port \in Ports
           /\ a = Inet(in.text.ip, htons(in.port))
  <2>1. /\ a.family = "inet" /\ a.ip = in.text.ip /\ a.port = htons(in.port)
        /\ a = Inet(a.ip, a.port)
    BY <1>1, Fields
  <2>2. make_from_sockaddr(a) = a
    BY <2>1, IpParsed DEF IpName
  <2>3. get_port(a) = in.port
    BY <1>1, <2>1, PortsComeBack DEF get_port
  <2> QED
    BY <1>1, <2>1, <2>2, <2>3 DEF Equal, get_ip_or_path, Printed
<1>2. CASE in.op = "ipv6" /\ in.port \in Ports
           /\ a = Inet6(in.text.ip, htons(in.port), in.scope)
  <2>1. /\ a.family = "inet6" /\ a.ip = in.text.ip /\ a.port = htons(in.port)
        /\ a = Inet6(a.ip, a.port, a.scope)
    BY <1>2, Fields
  <2>2. make_from_sockaddr(a) = a
    BY <2>1, IpParsed DEF IpName
  <2>3. get_port(a) = in.port
    BY <1>2, <2>1, PortsComeBack DEF get_port
  <2> QED
    BY <1>2, <2>1, <2>2, <2>3 DEF Equal, get_ip_or_path, Printed
<1>3. CASE /\ in.op = "unix" /\ in.text \in Names /\ in.port = 0
           /\ GoodName(in.text) /\ a = Unix(in.text \o <<0>>)
  <2>1. PICK n : n = in.text
    OBVIOUS
  <2>2. n \in Seq(Nat) /\ ~HasNul(n) /\ n # <<>> /\ Len(n) + 1 <= SunPath
    BY <1>3, <2>1, NamesAreSeqs DEF GoodName
  <2>3. PICK path : path = n \o <<0>>
    OBVIOUS
  <2>4. a.family = "unix" /\ a.len = Base + Len(path) /\ a.sun_path = path
    BY <1>3, <2>1, <2>3, UnixFields
  <2>5. Len(path) = Len(n) + 1 /\ path[1] = n[1] /\ n[1] # 0 /\ CString(path) = n
    BY <2>2, <2>3, Ended, CStringIs DEF HasNul
  <2>6. make_from_sockaddr(a) = a
    BY <1>3, <2>1, <2>2, PathParsed
  <2>7. a.len > Base
    BY <2>2, <2>4, <2>5 DEF Base
  <2>8. a.sun_path[1] # 0 /\ CString(a.sun_path) = n
    BY <2>4, <2>5
  <2>9. get_ip_or_path(a) = n
    BY <2>4, <2>7, <2>8 DEF get_ip_or_path, Base
  <2>10. get_port(a) = 0
    BY <2>4 DEF get_port
  <2>11. Equal(a, a)
    BY <2>4, <2>7 DEF Equal
  <2>12. Printed(in) = n
    BY <1>3, <2>1 DEF Printed
  <2> QED
    BY <1>3, <2>6, <2>9, <2>10, <2>11, <2>12
<1>4. CASE /\ in.op = "abstract" /\ in.text \in Names /\ in.port = 0
           /\ GoodName(in.text) /\ a = Unix(<<0>> \o in.text)
  <2>1. PICK n : n = in.text
    OBVIOUS
  <2>2. n \in Seq(Nat) /\ ~HasNul(n) /\ n # <<>>
    BY <1>4, <2>1, NamesAreSeqs DEF GoodName
  <2>3. PICK path : path = <<0>> \o n
    OBVIOUS
  <2>4. a.family = "unix" /\ a.len = Base + Len(path) /\ a.sun_path = path
    BY <1>4, <2>1, <2>3, UnixFields
  <2>5. Len(path) = Len(n) + 1 /\ path[1] = 0 /\ Tail(path) = n /\ n[Len(n)] # 0
    BY <2>2, <2>3, Begun DEF HasNul
  <2>6. make_from_sockaddr(a) = a
    BY <1>4, <2>1, <2>2, <2>5, AbstractParsed
  <2>7. a.len > Base
    BY <2>2, <2>4, <2>5 DEF Base
  <2>8. a.sun_path[1] = 0 /\ Tail(a.sun_path) = n
    BY <2>4, <2>5
  <2>9. get_ip_or_path(a) = <<AtSign>> \o n
    <3>1. PICK shown : shown = <<AtSign>> \o Tail(a.sun_path)
      OBVIOUS
    <3>2. a.len > 2
      BY <2>7 DEF Base
    <3>3. get_ip_or_path(a) = shown
      BY <2>2, <2>4, <2>5, <2>8, <3>1, <3>2 DEF get_ip_or_path, Base
    <3> QED
      BY <2>8, <3>1, <3>3
  <2>10. get_port(a) = 0
    BY <2>4 DEF get_port
  <2>11. Equal(a, a)
    BY <2>4, <2>7 DEF Equal
  <2>12. Printed(in) = <<AtSign>> \o n
    BY <1>4, <2>1 DEF Printed
  <2> QED
    BY <1>4, <2>6, <2>9, <2>10, <2>11, <2>12
<1> QED
  BY <1>1, <1>2, <1>3, <1>4 DEF MadeFrom
-------------------------------------------------------------------------------
(***************************************************************************)
(* The slots.                                                              *)
(***************************************************************************)
LEMMA InitInv == Init => IInv
  BY DEF Init, IInv, SlotTypes, SlotInv, Slots, NoInput, Input

LEMMA ForeignAreNames ==
  ASSUME NEW s \in ForeignNames
  PROVE  KernelName(s) /\ s # Nil
<1>1. CASE s = Unix(<<>>)
  BY <1>1, Fields DEF KernelName
<1>2. CASE \E n \in Names : ~HasNul(n) /\ n # <<>> /\ s = Unix(n \o <<0>>)
  BY <1>2, Fields DEF KernelName, PathName
<1>3. CASE \E n \in Names : s = Unix(<<0>> \o n)
  BY <1>3, Fields DEF KernelName, AbstractName
<1>4. CASE \E ip \in Ips, p \in Ports : s = Inet(ip, p)
  BY SMTT(30), <1>4, Fields DEF KernelName, IpName
<1>5. CASE \E ip \in Ips, p \in Ports, scope \in Scopes : s = Inet6(ip, p, scope)
  BY <1>5, Fields DEF KernelName, IpName
<1> QED
  BY <1>1, <1>2, <1>3, <1>4, <1>5 DEF ForeignNames

\* A factory that is given what its input says.
LEMMA MakeStep ==
  ASSUME IInv, NEW i \in Slots, NEW in, NEW made, Make(i, in, made),
         made # Nil => MadeFrom(in, made), in.op # "none"
  PROVE  IInv'
<1>1. /\ sa[i] = Nil /\ addr[i] = Nil /\ back[i] = Nil
  BY DEF IInv, SlotInv, Make, Fresh
<1>2. /\ input' = [input EXCEPT ![i] = in] /\ addr' = [addr EXCEPT ![i] = made]
      /\ sa' = sa /\ back' = back
  BY DEF Make
<1>3. SlotTypes'
  BY <1>2 DEF IInv, SlotTypes
<1>4. SlotInv'
  BY <1>1, <1>2 DEF IInv, SlotTypes, SlotInv
<1> QED
  BY <1>3, <1>4 DEF IInv

LEMMA StepInv == IInv /\ [Next]_vars => IInv'
<1> SUFFICES ASSUME IInv, [Next]_vars PROVE IInv'
  OBVIOUS
<1>1. CASE UNCHANGED vars
  BY <1>1 DEF vars, IInv, SlotTypes, SlotInv
<1>2. ASSUME NEW i \in Slots, MakeIpv4(i) PROVE IInv'
  <2>1. PICK t \in Texts, p \in Ports :
          Make(i, Input("ipv4", t, p, 0), make_ipv4(t, p))
    BY <1>2 DEF MakeIpv4
  <2>2. make_ipv4(t, p) # Nil => MadeFrom(Input("ipv4", t, p, 0), make_ipv4(t, p))
    BY DEF make_ipv4, MadeFrom, Input
  <2>3. Input("ipv4", t, p, 0).op # "none"
    BY DEF Input
  <2> QED
    BY <2>1, <2>2, <2>3, MakeStep
<1>3. ASSUME NEW i \in Slots, MakeIpv6(i) PROVE IInv'
  <2>1. PICK t \in Texts, p \in Ports, s \in Scopes :
          Make(i, Input("ipv6", t, p, s), make_ipv6(t, p, s))
    BY <1>3 DEF MakeIpv6
  <2>2. make_ipv6(t, p, s) # Nil
          => MadeFrom(Input("ipv6", t, p, s), make_ipv6(t, p, s))
    BY DEF make_ipv6, MadeFrom, Input
  <2>3. Input("ipv6", t, p, s).op # "none"
    BY DEF Input
  <2> QED
    BY <2>1, <2>2, <2>3, MakeStep
<1>4. ASSUME NEW i \in Slots, MakeUnix(i) PROVE IInv'
  <2>1. PICK n \in Names : Make(i, Input("unix", n, 0, 0), make_unix(n))
    BY <1>4 DEF MakeUnix
  <2>2. make_unix(n) # Nil => MadeFrom(Input("unix", n, 0, 0), make_unix(n))
    BY DEF make_unix, MadeFrom, Input
  <2>3. Input("unix", n, 0, 0).op # "none"
    BY DEF Input
  <2> QED
    BY <2>1, <2>2, <2>3, MakeStep
<1>5. ASSUME NEW i \in Slots, MakeAbstract(i) PROVE IInv'
  <2>1. PICK n \in Names : Make(i, Input("abstract", n, 0, 0), make_abstract(n))
    BY <1>5 DEF MakeAbstract
  <2>2. make_abstract(n) # Nil
          => MadeFrom(Input("abstract", n, 0, 0), make_abstract(n))
    BY DEF make_abstract, MadeFrom, Input
  <2>3. Input("abstract", n, 0, 0).op # "none"
    BY DEF Input
  <2> QED
    BY <2>1, <2>2, <2>3, MakeStep
<1>6. ASSUME NEW i \in Slots, Report(i) PROVE IInv'
  BY <1>6 DEF Report, IInv, SlotTypes, SlotInv
<1>7. ASSUME NEW i \in Slots, Foreign(i) PROVE IInv'
  <2>1. PICK s \in ForeignNames : sa' = [sa EXCEPT ![i] = s]
    BY <1>7 DEF Foreign
  <2>2. KernelName(s)
    BY ForeignAreNames
  <2>3. /\ input' = input /\ addr' = addr /\ back' = back
        /\ input[i].op = "none" /\ sa[i] = Nil
    BY <1>7 DEF Foreign, Fresh
  <2>4. SlotTypes'
    BY <2>1, <2>3 DEF IInv, SlotTypes
  <2>5. SlotInv'
    BY <2>1, <2>2, <2>3 DEF IInv, SlotTypes, SlotInv
  <2> QED
    BY <2>4, <2>5 DEF IInv
<1>8. ASSUME NEW i \in Slots, Parse(i) PROVE IInv'
  <2>1. /\ back' = [back EXCEPT ![i] = make_from_sockaddr(sa[i])]
        /\ input' = input /\ addr' = addr /\ sa' = sa /\ sa[i] # Nil
    BY <1>8 DEF Parse
  <2>2. SlotTypes'
    BY <2>1 DEF IInv, SlotTypes
  <2>3. SlotInv'
    BY <2>1 DEF IInv, SlotTypes, SlotInv
  <2> QED
    BY <2>2, <2>3 DEF IInv
<1> QED
  BY <1>1, <1>2, <1>3, <1>4, <1>5, <1>6, <1>7, <1>8 DEF Next

LEMMA Invariance == Spec => []IInv
  BY InitInv, StepInv, PTL DEF Spec
-------------------------------------------------------------------------------
(***************************************************************************)
(* The theorems.                                                           *)
(***************************************************************************)
\* An address that make_ipv4, make_ipv6, make_unix or make_abstract gave out
\* and that the kernel reports again is made by make_from_sockaddr into an
\* equal key, which shows the ip or path and the port that were asked for:
\* for every radix of the byte order, and every length of sun_path and of a
\* name, the longest that fits included.
THEOREM AddressesComeBack == Spec => []RoundTrip
<1>1. IInv => RoundTrip
  <2> SUFFICES ASSUME IInv, NEW i \in Slots, addr[i] # Nil, sa[i] # Nil
               PROVE  LET again == make_from_sockaddr(sa[i])
                      IN /\ Equal(addr[i], again) /\ hash(addr[i]) = hash(again)
                         /\ get_ip_or_path(again) = Printed(input[i])
                         /\ get_port(again) = input[i].port
    BY DEF RoundTrip
  <2>1. sa[i] = addr[i] /\ MadeFrom(input[i], addr[i])
    BY DEF IInv, SlotInv
  <2>2. PICK in, a : in = input[i] /\ a = addr[i]
    OBVIOUS
  <2>3. /\ make_from_sockaddr(a) = a /\ Equal(a, a)
        /\ get_ip_or_path(a) = Printed(in) /\ get_port(a) = in.port
    BY <2>1, <2>2, MadeComesBack
  <2> QED
    BY <2>1, <2>2, <2>3
<1> QED
  BY <1>1, Invariance, PTL

\* operator== and hash() make addresses good keys of a table of sessions:
\* equal addresses hash alike, and two peers that the kernel reports, IPv6 ones
\* of one scope and abstract names without NULs at the end, are equal just when
\* they are the same.
THEOREM AddressesAreKeys == Spec => []KeysAreExact
<1>1. IInv => KeysAreExact
  <2> SUFFICES ASSUME IInv, back[1] # Nil, back[2] # Nil
               PROVE  /\ Equal(back[1], back[2]) => hash(back[1]) = hash(back[2])
                      /\ sa[1].scope = sa[2].scope /\ ~Padded(sa[1]) /\ ~Padded(sa[2])
                           => (Equal(back[1], back[2]) <=> sa[1] = sa[2])
    BY DEF KeysAreExact
  <2>1. Equal(back[1], back[2]) => hash(back[1]) = hash(back[2])
    BY EqualHashAlike
  <2>2. ASSUME NEW i \in Slots, back[i] # Nil
        PROVE  KernelName(sa[i]) /\ back[i] = make_from_sockaddr(sa[i])
    BY <2>2, MadeIsName DEF IInv, SlotInv
  <2>3. 1 \in Slots /\ 2 \in Slots
    BY DEF Slots
  <2>4. PICK a, b : a = sa[1] /\ b = sa[2]
    OBVIOUS
  <2>5. /\ KernelName(a) /\ back[1] = make_from_sockaddr(a)
        /\ KernelName(b) /\ back[2] = make_from_sockaddr(b)
    BY <2>2, <2>3, <2>4
  <2>6. ASSUME a.scope = b.scope, ~Padded(a), ~Padded(b)
        PROVE  Equal(back[1], back[2]) <=> a = b
    <3>1. back[1] = a /\ (a.family = "unix" => a.len > Base) /\ back[2] = b
      BY <2>5, <2>6, AcceptedIsKept
    <3>2. Equal(a, b) => a = b
      BY <2>5, <2>6, EqualIsSame
    <3>3. Equal(a, a)
      BY <2>5, <3>1, SameIsEqual
    <3> QED
      BY <3>1, <3>2, <3>3
  <2> QED
    BY <2>1, <2>4, <2>6
<1> QED
  BY <1>1, Invariance, PTL
===============================================================================
