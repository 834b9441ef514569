-------------------------- MODULE EchoServerProofs --------------------------
(***************************************************************************)
(* Safety of the echo servers, of each program alone and for any clients,  *)
(* bytes and bounds: types, and that a client gets back what it sent.      *)
(* That rests on three things: a descriptor is of one connection, a loop   *)
(* serves its own client's, and the bytes of a client are in three places  *)
(* one after the other.                                                    *)
(***************************************************************************)
EXTENDS EchoServer, SequenceTheorems, FiniteSetTheorems, WellFoundedInduction, TLAPS

(* Where the bytes of a client may be in the server: in its own loop.      *)
Serves(t) == thr[t].pc \in {"read", "write"}
Server(c) == IF prog = "thread" THEN c ELSE Main
Buf(c) ==
    IF Serves(Server(c)) /\ table[thr[Server(c)].fd] = c THEN thr[Server(c)].buf ELSE <<>>

Streams == snd \in [Client -> Seq(Bit)] /\ rcv \in [Client -> Seq(Bit)]

(* A client is in the queue once, and is accepted once: a descriptor is of *)
(* a connection that is open, and no other descriptor is of it.            *)
QueueInv ==
    /\ \A i, j \in 1 .. Len(queue) : queue[i] = queue[j] => i = j
    /\ \A i \in 1 .. Len(queue) : link[queue[i]] = "queued"
TableInv ==
    /\ \A n \in Fd : table[n] # None => link[table[n]] = "open" /\ Main \in fds[table[n]]
    /\ \A m, n \in Fd : table[m] = table[n] /\ table[m] # None => m = n

(* Threads are of clients accepted before; the one to be created is not.   *)
Started(c) == thr[c].pc \in {"start", "read", "write"}
ThreadInv ==
    /\ \A c \in Client : Started(c) => link[c] \in {"open", "over"} /\ prog = "thread"
    /\ \A c \in Client : thr[c].pc = "start" => newest # None
    /\ newest # None => link[newest] \in {"open", "over"} /\ sfd_client \in Fd
    /\ main = "create" => newest # None /\ ~ Started(newest) /\ prog = "thread"

(* What a loop holds, and when main is in one.                             *)
LoopInv ==
    /\ \A t \in Thread : Serves(t) => thr[t].fd \in Fd
    /\ \A t \in Thread : thr[t].pc # "write" => thr[t].buf = <<>>
    /\ thr[Main].pc # "start"
    /\ Serves(Main) => prog # "thread" /\ main = "serve" /\ table[thr[Main].fd] # None
    /\ prog = "thread" => main \in {"accept", "create", "off"}

OwnLoop == raced \/ \A c \in Client : Serves(c) => table[thr[c].fd] = c

(* The bytes of a client that are on the way back (a), in its loop (b) and *)
(* on the way there (r), when it has got g of the k it sent.               *)
Bytewise(q, c, g) == \A i \in 1 .. Len(q) : q[i] = <<c, g + i>>
InOrder(c, a, b, r, g, k) ==
    /\ Bytewise(a, c, g)
    /\ Bytewise(b, c, g + Len(a))
    /\ Bytewise(r, c, g + Len(a) + Len(b))
    /\ g + Len(a) + Len(b) + Len(r) = k
Lives(c) == c \notin shut /\ link[c] # "over"
PiecesInv ==
    raced \/ \A c \in Client :
        Lives(c) => InOrder(c, snd[c], Buf(c), rcv[c], got[c], sent[c])

IInv == TypeOK /\ Streams /\ QueueInv /\ TableInv /\ ThreadInv /\ LoopInv /\ OwnLoop /\ PiecesInv
-----------------------------------------------------------------------------
(* The lowest of a set of numbers is one of them.                          *)
LEMMA MinIn ==
    ASSUME NEW S \in SUBSET Nat, S # {}
    PROVE  Min(S) \in S /\ \A n \in S : Min(S) <= n
<1> DEFINE Less == {ss \in Nat \X Nat : ss[1] < ss[2]}
<1>1. IsWellFoundedOn(Less, Nat)
  BY NatLessThanWellFounded, Zenon DEF OpToRel
<1>2. PICK m \in S : \A n \in S : ~ (<<n, m>> \in Less)
  BY <1>1, WFMin, Zenon
<1>3. \A a, b \in Nat : a < b => <<a, b>> \in Less
  OBVIOUS
<1> HIDE DEF Less
<1>4. \A n \in S : ~ (n < m)
  BY <1>2, <1>3
<1>5. \A n \in S : m <= n
  BY <1>4
<1> QED
  BY <1>5 DEF Min

(* There are as many descriptors as clients, and each that is taken is of  *)
(* another client: for one that is not accepted yet there is one left.     *)
LEMMA FreeLeft ==
    ASSUME table \in [Fd -> Client \cup {None}], TableInv,
           NEW c \in Client, link[c] # "open"
    PROVE  NewFd \in Fd /\ table[NewFd] = None
<1>1. IsFiniteSet(Client) /\ Cardinality(Client) \in Nat /\ Cardinality(Client) >= 1
  <2>1. IsFiniteSet(Client) /\ Cardinality(Client) \in Nat
    BY EchoAssumption, FS_CardinalityType
  <2>2. Cardinality(Client) # 0
    BY <2>1, FS_EmptySet
  <2> QED
    BY <2>1, <2>2
<1>2. IsFiniteSet(Fd) /\ Cardinality(Fd) = Cardinality(Client) /\ Fd \subseteq Nat
  <2>1. 3 + Cardinality(Client) \in Int /\ 4 \in Int /\ ~ 4 > 3 + Cardinality(Client)
    BY <1>1
  <2>2. IsFiniteSet(Fd) /\ Cardinality(Fd) = (3 + Cardinality(Client)) - 4 + 1
    BY <2>1, FS_Interval DEF Fd
  <2> QED
    BY <1>1, <2>2 DEF Fd
<1>3. IsFiniteSet(Client \ {c}) /\ Cardinality(Client \ {c}) = Cardinality(Client) - 1
  BY <1>1, FS_RemoveElement
<1>4. Free # {}
  <2> SUFFICES ASSUME Free = {} PROVE FALSE
    OBVIOUS
  <2>1. \A n \in Fd : table[n] \in Client \ {c} /\ table[n] # None
    BY DEF Free, TableInv
  <2>2. table \in [Fd -> Client \ {c}]
    BY <2>1
  <2>3. Cardinality(Client \ {c}) < Cardinality(Fd)
    BY <1>1, <1>2, <1>3
  <2>4. PICK m, n \in Fd : m # n /\ table[m] = table[n]
    BY ONLY <1>2, <1>3, <2>2, <2>3, FS_PigeonHole, Zenon
  <2> QED
    BY <2>1, <2>4 DEF TableInv
<1>5. Free \in SUBSET Nat
  BY <1>2 DEF Free
<1> QED
  BY <1>4, <1>5, MinIn DEF NewFd, Free
-----------------------------------------------------------------------------
(* The bytes in their three places: a loop reads n of them, a loop writes  *)
(* what it read, the client writes one more, the client reads one.         *)
LEMMA ReadPieces ==
    ASSUME NEW c, NEW a \in Seq(Bit), NEW r \in Seq(Bit), NEW g \in Nat, NEW k,
           NEW n \in 1 .. Len(r), InOrder(c, a, <<>>, r, g, k)
    PROVE  InOrder(c, a, SubSeq(r, 1, n), SubSeq(r, n + 1, Len(r)), g, k)
<1> DEFINE b == SubSeq(r, 1, n)
           d == SubSeq(r, n + 1, Len(r))
<1>1. /\ Len(b) = n /\ Len(d) = Len(r) - n /\ Len(r) \in Nat /\ Len(a) \in Nat
      /\ n \in Nat /\ n <= Len(r)
      /\ \A i \in 1 .. Len(b) : b[i] = r[i] /\ i \in 1 .. Len(r)
      /\ \A i \in 1 .. Len(d) : d[i] = r[n + i] /\ n + i \in 1 .. Len(r)
  OBVIOUS
<1> HIDE DEF b, d
<1>2. /\ Bytewise(a, c, g) /\ g + Len(a) + Len(r) = k
      /\ \A i \in 1 .. Len(r) : r[i] = <<c, g + Len(a) + i>>
  BY <1>1 DEF InOrder, Bytewise
<1>3. Bytewise(b, c, g + Len(a))
  BY <1>1, <1>2 DEF Bytewise
<1>4. Bytewise(d, c, g + Len(a) + Len(b))
  <2>1. \A i \in 1 .. Len(d) : g + Len(a) + (n + i) = g + Len(a) + Len(b) + i
    BY <1>1
  <2> QED
    BY <1>1, <1>2, <2>1 DEF Bytewise
<1>5. g + Len(a) + Len(b) + Len(d) = k
  BY <1>1, <1>2
<1> QED
  BY <1>2, <1>3, <1>4, <1>5 DEF InOrder, b, d

LEMMA Joined ==
    ASSUME NEW a \in Seq(Bit), NEW b \in Seq(Bit)
    PROVE  /\ a \o b \in Seq(Bit) /\ Len(a \o b) = Len(a) + Len(b)
           /\ Len(a) \in Nat /\ Len(b) \in Nat
           /\ \A i \in 1 .. Len(a) : (a \o b)[i] = a[i]
           /\ \A i \in 1 .. Len(b) : (a \o b)[Len(a) + i] = b[i]
           /\ \A i \in 1 .. Len(a) + Len(b) :
                 i \in 1 .. Len(a) \/ (i - Len(a) \in 1 .. Len(b) /\ i = Len(a) + (i - Len(a)))
OBVIOUS

LEMMA JoinedBytes ==
    ASSUME NEW c, NEW a \in Seq(Bit), NEW b \in Seq(Bit), NEW g \in Nat,
           Bytewise(a, c, g), Bytewise(b, c, g + Len(a))
    PROVE  Bytewise(a \o b, c, g)
<1> DEFINE q == a \o b
<1>1. /\ Len(q) = Len(a) + Len(b) /\ Len(a) \in Nat /\ Len(b) \in Nat
      /\ \A i \in 1 .. Len(a) : q[i] = a[i]
      /\ \A i \in 1 .. Len(b) : q[Len(a) + i] = b[i]
      /\ \A i \in 1 .. Len(a) + Len(b) :
            i \in 1 .. Len(a) \/ (i - Len(a) \in 1 .. Len(b) /\ i = Len(a) + (i - Len(a)))
  BY Joined, Zenon
<1> HIDE DEF q
<1>2. \A i \in 1 .. Len(a) : q[i] = <<c, g + i>>
  BY <1>1 DEF Bytewise
<1>3. \A i \in 1 .. Len(b) : g + Len(a) + i = g + (Len(a) + i)
  BY <1>1
<1>4. \A i \in 1 .. Len(b) : q[Len(a) + i] = <<c, g + (Len(a) + i)>>
  BY <1>1, <1>3 DEF Bytewise
<1>5. \A i \in 1 .. Len(q) : q[i] = <<c, g + i>>
  <2> TAKE i \in 1 .. Len(q)
  <2>1. CASE i \in 1 .. Len(a)
    BY <1>2, <2>1
  <2>2. CASE i - Len(a) \in 1 .. Len(b) /\ i = Len(a) + (i - Len(a))
    BY <1>4, <2>2
  <2> QED
    BY <1>1, <2>1, <2>2
<1> QED
  BY <1>5 DEF Bytewise, q

LEMMA WritePieces ==
    ASSUME NEW c, NEW a \in Seq(Bit), NEW b \in Seq(Bit), NEW r \in Seq(Bit), NEW g \in Nat,
           NEW k, InOrder(c, a, b, r, g, k)
    PROVE  InOrder(c, a \o b, <<>>, r, g, k)
<1>1. /\ Bytewise(a, c, g) /\ Bytewise(b, c, g + Len(a))
      /\ Bytewise(r, c, g + Len(a) + Len(b))
      /\ g + Len(a) + Len(b) + Len(r) = k
  BY DEF InOrder
<1>2. Bytewise(a \o b, c, g)
  BY <1>1, JoinedBytes
<1>3. /\ Len(a \o b) = Len(a) + Len(b) /\ Len(a) \in Nat /\ Len(b) \in Nat /\ Len(r) \in Nat
      /\ Len(<<>>) = 0
  OBVIOUS
<1>4. /\ g + Len(a \o b) = g + Len(a) + Len(b)
      /\ g + Len(a \o b) + Len(<<>>) = g + Len(a) + Len(b)
      /\ g + Len(a \o b) + Len(<<>>) + Len(r) = k
  BY <1>1, <1>3
<1>5. Bytewise(<<>>, c, g + Len(a \o b))
  BY DEF Bytewise
<1> QED
  BY <1>1, <1>2, <1>4, <1>5 DEF InOrder

LEMMA SendPieces ==
    ASSUME NEW c, NEW a \in Seq(Bit), NEW b \in Seq(Bit), NEW r \in Seq(Bit), NEW g \in Nat,
           NEW k \in Nat, <<c, k + 1>> \in Bit, InOrder(c, a, b, r, g, k)
    PROVE  InOrder(c, a, b, r \o <<<<c, k + 1>>>>, g, k + 1)
<1> DEFINE e == <<<<c, k + 1>>>>
<1>1. /\ Bytewise(a, c, g) /\ Bytewise(b, c, g + Len(a))
      /\ Bytewise(r, c, g + Len(a) + Len(b))
      /\ g + Len(a) + Len(b) + Len(r) = k
  BY DEF InOrder
<1>2. /\ e \in Seq(Bit) /\ Len(e) = 1 /\ e[1] = <<c, k + 1>>
      /\ Len(a) \in Nat /\ Len(b) \in Nat /\ Len(r) \in Nat
  OBVIOUS
<1> HIDE DEF e
<1>3. Bytewise(e, c, g + Len(a) + Len(b) + Len(r))
  BY <1>1, <1>2 DEF Bytewise
<1>4. g + Len(a) + Len(b) \in Nat
  BY <1>2
<1>5. Bytewise(r \o e, c, g + Len(a) + Len(b))
  BY <1>1, <1>2, <1>3, <1>4, JoinedBytes
<1>6. Len(r \o e) = Len(r) + 1
  <2>1. Len(r \o e) = Len(r) + Len(e)
    BY <1>2, Joined
  <2> QED
    BY <1>2, <2>1
<1>7. g + Len(a) + Len(b) + Len(r \o e) = k + 1
  BY <1>1, <1>2, <1>6
<1> QED
  BY <1>1, <1>5, <1>7 DEF InOrder, e

LEMMA DropOne ==
    ASSUME NEW S, NEW q \in Seq(S), 1 \in 1 .. Len(q)
    PROVE  /\ SubSeq(q, 1 + 1, Len(q)) \in Seq(S) /\ q[1] \in S /\ Len(q) \in Nat
           /\ Len(SubSeq(q, 1 + 1, Len(q))) = Len(q) - 1
           /\ \A i \in 1 .. Len(q) - 1 :
                 SubSeq(q, 1 + 1, Len(q))[i] = q[i + 1] /\ i + 1 \in 1 .. Len(q)
OBVIOUS

LEMMA ReceiveBytes ==
    ASSUME NEW c, NEW a \in Seq(Bit), NEW g \in Nat, 1 \in 1 .. Len(a), Bytewise(a, c, g)
    PROVE  Bytewise(SubSeq(a, 1 + 1, Len(a)), c, g + 1)
<1> DEFINE d == SubSeq(a, 1 + 1, Len(a))
<1>1. /\ Len(d) = Len(a) - 1 /\ Len(a) \in Nat
      /\ \A i \in 1 .. Len(d) : d[i] = a[i + 1] /\ i + 1 \in 1 .. Len(a)
  <2>1. Len(a) \in Nat
    OBVIOUS
  <2> QED
    BY <2>1, DropOne
<1> HIDE DEF d
<1>2. \A i \in 1 .. Len(d) : g + (i + 1) = g + 1 + i
  BY <1>1
<1>3. Bytewise(d, c, g + 1)
  BY <1>1, <1>2 DEF Bytewise
<1> QED
  BY <1>3 DEF d

LEMMA ReceivePieces ==
    ASSUME NEW c, NEW a \in Seq(Bit), NEW b \in Seq(Bit), NEW r \in Seq(Bit), NEW g \in Nat,
           NEW k, 1 \in 1 .. Len(a), InOrder(c, a, b, r, g, k)
    PROVE  InOrder(c, SubSeq(a, 1 + 1, Len(a)), b, r, g + 1, k)
<1> DEFINE d == SubSeq(a, 1 + 1, Len(a))
<1>1. /\ Bytewise(a, c, g) /\ Bytewise(b, c, g + Len(a))
      /\ Bytewise(r, c, g + Len(a) + Len(b))
      /\ g + Len(a) + Len(b) + Len(r) = k
  BY DEF InOrder
<1>2. Len(d) = Len(a) - 1 /\ Len(a) \in Nat /\ Len(b) \in Nat /\ Len(r) \in Nat
  <2>1. Len(a) \in Nat /\ Len(b) \in Nat /\ Len(r) \in Nat
    OBVIOUS
  <2> QED
    BY <2>1, DropOne
<1>3. Bytewise(d, c, g + 1)
  BY <1>1, ReceiveBytes
<1> HIDE DEF d
<1>4. /\ g + 1 + Len(d) = g + Len(a)
      /\ g + 1 + Len(d) + Len(b) = g + Len(a) + Len(b)
      /\ g + 1 + Len(d) + Len(b) + Len(r) = k
  BY <1>1, <1>2
<1> QED
  BY <1>1, <1>3, <1>4 DEF InOrder, d

Numbered(q, c, g, k) == q = [i \in 1..(k - g) |-> <<c, g + i>>]
LEMMA WholePieces ==
    ASSUME NEW c, NEW a \in Seq(Bit), NEW b \in Seq(Bit), NEW r \in Seq(Bit), NEW g \in Nat,
           NEW k, InOrder(c, a, b, r, g, k)
    PROVE  Numbered(a \o b \o r, c, g, k)
<1> DEFINE q == a \o b \o r
<1>1. /\ Bytewise(a, c, g) /\ Bytewise(b, c, g + Len(a))
      /\ Bytewise(r, c, g + Len(a) + Len(b))
      /\ g + Len(a) + Len(b) + Len(r) = k
  BY DEF InOrder
<1>2. a \o b \in Seq(Bit) /\ Bytewise(a \o b, c, g)
  BY <1>1, JoinedBytes
<1>3. /\ Len(a \o b) = Len(a) + Len(b) /\ Len(a) \in Nat /\ Len(b) \in Nat /\ Len(r) \in Nat
      /\ Len(q) = Len(a \o b) + Len(r)
  BY <1>2
<1>4. g + Len(a \o b) = g + Len(a) + Len(b) /\ Len(q) = k - g
  BY <1>1, <1>3
<1>5. q \in Seq(Bit) /\ Bytewise(q, c, g)
  <2> DEFINE ab == a \o b
  <2>1. ab \in Seq(Bit) /\ Bytewise(ab, c, g) /\ Bytewise(r, c, g + Len(ab))
    BY <1>1, <1>2, <1>4
  <2> HIDE DEF ab
  <2>2. ab \o r \in Seq(Bit) /\ Bytewise(ab \o r, c, g)
    BY <2>1, JoinedBytes
  <2> QED
    BY <2>2 DEF ab
<1> HIDE DEF q
<1>6. q = [i \in 1 .. Len(q) |-> q[i]]
  BY <1>5
<1>7. Numbered(q, c, g, k)
  BY <1>4, <1>5, <1>6 DEF Bytewise, Numbered
<1> QED
  BY <1>7 DEF q
-----------------------------------------------------------------------------
(* Sockets: whoever holds them, the types stay and the queue is a queue.   *)
LEMMA HoldKeeps ==
    ASSUME SockTypeOK, QueueInv, NEW l \in SUBSET Process,
           NEW f \in [Client -> SUBSET Process], Hold(l, f)
    PROVE  /\ SockTypeOK' /\ lsn' = l /\ fds' = f /\ UNCHANGED <<shut, rcv, snd>>
           /\ QueueInv'
           /\ \A c \in Client : link[c] \in {"open", "over"} => link'[c] \in {"open", "over"}
           /\ \A c \in Client : link[c] = "over" => link'[c] = "over"
           /\ \A c \in Client : link[c] = "open" /\ f[c] # {} => link'[c] = "open"
<1>1. queue' \in Seq(Client)
  BY DEF Hold, SockTypeOK
<1>2. link' \in [Client -> {"new", "queued", "open", "over"}]
  BY DEF Hold, SockTypeOK
<1>3. QueueInv'
  <2>1. CASE l = {}
    <3>1. queue' = <<>> /\ Len(<<>>) = 0
      BY <2>1 DEF Hold
    <3> QED
      BY <3>1 DEF QueueInv
  <2>2. CASE l # {}
    <3>1. queue' = queue
      BY <2>2 DEF Hold
    <3>2. \A i \in 1 .. Len(queue) : queue[i] \in Client
      BY DEF SockTypeOK
    <3> QED
      BY <2>2, <3>1, <3>2 DEF Hold, QueueInv
  <2> QED
    BY <2>1, <2>2
<1> QED
  BY <1>1, <1>2, <1>3 DEF Hold, SockTypeOK

LEMMA CloseKeeps ==
    ASSUME SockTypeOK, QueueInv, NEW c \in Client, CloseConn(Main, c)
    PROVE  /\ SockTypeOK' /\ UNCHANGED <<shut, rcv, snd>> /\ QueueInv'
           /\ \A d \in Client : link[d] \in {"open", "over"} => link'[d] \in {"open", "over"}
           /\ \A d \in Client : link[d] = "over" => link'[d] = "over"
           /\ \A d \in Client \ {c} : link[d] = "open" /\ Main \in fds[d] =>
                 link'[d] = "open" /\ Main \in fds'[d]
<1> DEFINE f == [fds EXCEPT ![c] = @ \ {Main}]
<1>1. lsn \in SUBSET Process /\ f \in [Client -> SUBSET Process] /\ Hold(lsn, f)
  BY DEF SockTypeOK, CloseConn
<1>2. \A d \in Client \ {c} : f[d] = fds[d]
  BY DEF SockTypeOK
<1> QED
  BY <1>1, <1>2, HoldKeeps

(* The bytes of a client stay where they are.                              *)
LEMMA PiecesKept ==
    ASSUME PiecesInv, raced => raced',
           ~ raced' => \A c \in Client : Lives(c)' =>
               /\ Lives(c) /\ Buf(c)' = Buf(c) /\ snd'[c] = snd[c] /\ rcv'[c] = rcv[c]
               /\ got'[c] = got[c] /\ sent'[c] = sent[c]
    PROVE  PiecesInv'
<1> SUFFICES ASSUME ~ raced', NEW c \in Client, Lives(c)'
             PROVE  InOrder(c, snd'[c], Buf(c)', rcv'[c], got'[c], sent'[c])
  BY Zenon DEF PiecesInv
<1>1. Lives(c) /\ InOrder(c, snd[c], Buf(c), rcv[c], got[c], sent[c])
  BY Zenon DEF PiecesInv
<1> QED
  BY <1>1, Zenon

LEMMA BufKept ==
    ASSUME NEW c \in Client, prog' = prog, thr'[Server(c)] = thr[Server(c)],
           Serves(Server(c)) => (table'[thr[Server(c)].fd] = c <=> table[thr[Server(c)].fd] = c)
    PROVE  Buf(c)' = Buf(c)
<1>1. Server(c)' = Server(c)
  BY DEF Server
<1> HIDE DEF Server
<1> QED
  BY <1>1 DEF Buf, Serves

(* A loop that serves a client's descriptor is the client's.               *)
LEMMA OwnBuf ==
    ASSUME IInv, ~ raced, NEW t \in Thread, Serves(t)
    PROVE  /\ table[thr[t].fd] \in Client /\ thr[t].fd \in Fd
           /\ Server(table[thr[t].fd]) = t /\ Buf(table[thr[t].fd]) = thr[t].buf
<1>1. thr[t].fd \in Fd /\ table[thr[t].fd] \in Client \cup {None}
  BY DEF IInv, LoopInv, TypeOK
<1>2. CASE t = Main
  <2>1. table[thr[t].fd] \in Client /\ prog # "thread"
    BY <1>1, <1>2 DEF IInv, LoopInv
  <2> QED
    BY <1>1, <1>2, <2>1 DEF Server, Buf
<1>3. CASE t # Main
  <2>1. t \in Client
    BY <1>3 DEF Thread
  <2>2. table[thr[t].fd] = t /\ prog = "thread"
    BY <2>1 DEF IInv, OwnLoop, ThreadInv, Serves, Started
  <2> QED
    BY <1>1, <2>1, <2>2 DEF Server, Buf
<1> QED
  BY <1>2, <1>3

(* Without a loop of its own a client has no byte in one.                  *)
LEMMA NoBuf ==
    ASSUME NEW c \in Client, ~ Serves(Server(c))
    PROVE  Buf(c) = <<>>
BY DEF Buf

LEMMA ThreadsApart == Main \in Thread /\ (\A c \in Client : c \in Thread /\ c # Main /\ c # None)
BY EchoAssumption DEF Thread
-----------------------------------------------------------------------------
LEMMA InitHolds == Init => IInv
<1> SUFFICES ASSUME Init PROVE IInv
  OBVIOUS
<1> USE EchoAssumption, SockAssumption, ThreadsApart DEF Init, SockInit
<1>1. <<>> \in Seq(Client) /\ <<>> \in Seq(Bit) /\ Len(<<>>) = 0
  OBVIOUS
<1>2. SockTypeOK
  BY <1>1 DEF SockTypeOK
<1>3. Streams
  BY <1>1 DEF Streams
<1>4. thr \in [Thread -> Loop] /\ (\A t \in Thread : thr[t].pc = "none" /\ thr[t].buf = <<>>)
  BY <1>1 DEF Loop
<1>5. TypeOK
  <2>1. main \in {"accept", "arm"} /\ rfd \subseteq {ServerFd} /\ tfd = {}
    BY DEF Top
  <2>2. sent \in [Client -> 0..Bytes] /\ got \in [Client -> Nat]
    OBVIOUS
  <2>3. table \in [Fd -> Client \cup {None}]
    OBVIOUS
  <2> QED
    BY <1>2, <1>4, <2>1, <2>2, <2>3, Zenon DEF TypeOK
<1>6. QueueInv /\ TableInv
  BY <1>1 DEF QueueInv, TableInv
<1>7. ThreadInv
  BY <1>4 DEF ThreadInv, Started, Top
<1>8. LoopInv /\ OwnLoop
  BY <1>4 DEF LoopInv, OwnLoop, Serves, Top
<1>9. PiecesInv
  <2> SUFFICES ASSUME NEW c \in Client
               PROVE  InOrder(c, snd[c], Buf(c), rcv[c], got[c], sent[c])
    BY DEF PiecesInv
  <2>1. Buf(c) = <<>>
    BY <1>4 DEF Buf, Serves, Server
  <2>2. snd[c] = <<>> /\ rcv[c] = <<>> /\ got[c] = 0 /\ sent[c] = 0
    OBVIOUS
  <2> QED
    BY <1>1, <2>1, <2>2 DEF InOrder, Bytewise
<1> QED
  BY <1>3, <1>5, <1>6, <1>7, <1>8, <1>9 DEF IInv

(* accept: a client leaves the queue and has a descriptor no other has.    *)
LEMMA AcceptSocks ==
    ASSUME IInv, Accepted
    PROVE  /\ NewFd \in Fd /\ table[NewFd] = None /\ newest' \in Client
           /\ link[newest'] = "queued" /\ link' = [link EXCEPT ![newest'] = "open"]
           /\ sfd_client' = NewFd /\ table' = [table EXCEPT ![NewFd] = newest']
           /\ SockTypeOK' /\ UNCHANGED <<shut, rcv, snd>> /\ QueueInv' /\ TableInv'
<1> USE DEF IInv, TypeOK, SockTypeOK
<1>1. queue \in Seq(Client) /\ queue # <<>>
  BY DEF Accepted, SockAccept
<1>2. PICK q \in Seq(Client) : q = queue
  BY <1>1
<1>3. /\ Head(q) = q[1] /\ Len(q) \in Nat /\ Len(q) >= 1 /\ Tail(q) \in Seq(Client)
      /\ Len(Tail(q)) = Len(q) - 1
      /\ \A i \in 1 .. Len(Tail(q)) : Tail(q)[i] = q[i + 1]
  BY <1>1, <1>2
<1>4. \A i \in 1 .. Len(Tail(q)) : i + 1 \in 1 .. Len(q) /\ i + 1 # 1 /\ q[i + 1] \in Client
  BY <1>3
<1>5. 1 \in 1 .. Len(q) /\ q[1] \in Client
  BY <1>3
<1>6. link[q[1]] = "queued"
  BY <1>2, <1>5 DEF QueueInv
<1>7. NewFd \in Fd /\ table[NewFd] = None
  BY <1>5, <1>6, FreeLeft
<1>8. /\ link' = [link EXCEPT ![q[1]] = "open"] /\ fds' = [fds EXCEPT ![q[1]] = {Main}]
      /\ queue' = Tail(q) /\ newest' = q[1] /\ sfd_client' = NewFd
      /\ table' = [table EXCEPT ![NewFd] = q[1]] /\ UNCHANGED <<lsn, shut, rcv, snd>>
  BY <1>2, <1>3 DEF Accepted, SockAccept
<1>9. SockTypeOK'
  <2>1. /\ link' \in [Client -> {"new", "queued", "open", "over"}]
        /\ fds' \in [Client -> SUBSET Process]
    BY <1>5, <1>8, SockAssumption
  <2> QED
    BY <1>3, <1>8, <2>1
<1>10. QueueInv'
  <2>1. \A i, j \in 1 .. Len(Tail(q)) : Tail(q)[i] = Tail(q)[j] => i = j
    <3> TAKE i, j \in 1 .. Len(Tail(q))
    <3> HAVE Tail(q)[i] = Tail(q)[j]
    <3>1. q[i + 1] = q[j + 1]
      BY <1>3
    <3>2. i + 1 = j + 1
      BY <1>2, <1>4, <3>1 DEF QueueInv
    <3> QED
      BY <1>3, <3>2
  <2>2. \A i \in 1 .. Len(Tail(q)) : Tail(q)[i] # q[1] /\ link[Tail(q)[i]] = "queued"
    BY <1>2, <1>3, <1>4, <1>5 DEF QueueInv
  <2>3. \A i \in 1 .. Len(Tail(q)) : Tail(q)[i] \in Client
    BY <1>3, <1>4
  <2> QED
    BY <1>8, <2>1, <2>2, <2>3 DEF QueueInv
<1>11. TableInv'
  <2> DEFINE n == NewFd
  <2> HIDE DEF n
  <2>1. n \in Fd /\ table[n] = None /\ table' = [table EXCEPT ![n] = q[1]]
    BY <1>7, <1>8 DEF n
  <2>2. \A m \in Fd : table[m] # q[1]
    BY <1>5, <1>6, ThreadsApart DEF TableInv
  <2>3. q[1] # None
    BY <1>5, ThreadsApart
  <2>4. \A m \in Fd : m # n => table'[m] = table[m]
    BY <2>1
  <2>5. table'[n] = q[1] /\ link'[q[1]] = "open" /\ Main \in fds'[q[1]]
    BY <1>5, <1>8, <2>1
  <2>6. \A m \in Fd : table'[m] # None => link'[table'[m]] = "open" /\ Main \in fds'[table'[m]]
    BY <1>5, <1>8, <2>1, <2>2, <2>4, <2>5 DEF TableInv
  <2>7. \A m, k \in Fd : table'[m] = table'[k] /\ table'[m] # None => m = k
    BY <2>1, <2>2, <2>4, <2>5 DEF TableInv
  <2> QED
    BY <2>6, <2>7 DEF TableInv
<1> QED
  BY <1>5, <1>6, <1>7, <1>8, <1>9, <1>10, <1>11

(* After it nothing else changes, or main enters the client's loop.        *)
LEMMA AcceptStep ==
    ASSUME IInv, Accepted, ~ Serves(Main), UNCHANGED <<prog, clientVars, raced>>,
           \/ thr' = thr
           \/ /\ prog # "thread" /\ main' = "serve"
              /\ \E r \in Loop : /\ r.pc = "read" /\ r.fd = NewFd /\ r.buf = <<>>
                                 /\ thr' = [thr EXCEPT ![Main] = r],
           main' \in {"create", "serve", "scan"}, prog = "thread" <=> main' = "create",
           rfd' \subseteq rfd \cup {NewFd}, tfd' \subseteq rfd'
    PROVE  IInv'
<1> DEFINE n == NewFd
           h == newest'
<1> HIDE DEF n, h
<1>1. /\ n \in Fd /\ table[n] = None /\ h \in Client
      /\ link[h] = "queued" /\ link' = [link EXCEPT ![h] = "open"]
      /\ sfd_client' = n /\ newest' = h /\ table' = [table EXCEPT ![n] = h]
      /\ SockTypeOK' /\ UNCHANGED <<shut, rcv, snd>> /\ QueueInv' /\ TableInv'
  BY AcceptSocks, Zenon DEF n, h
<1>2. /\ table \in [Fd -> Client \cup {None}] /\ thr \in [Thread -> Loop]
      /\ link \in [Client -> {"new", "queued", "open", "over"}]
      /\ h # None /\ Main \notin Client
  BY <1>1, ThreadsApart DEF IInv, TypeOK, SockTypeOK
<1>3. table'[n] = h /\ \A m \in Fd : m # n => table'[m] = table[m]
  BY <1>1, <1>2
<1>4. link'[h] = "open" /\ \A c \in Client : c # h => link'[c] = link[c]
  BY <1>1, <1>2
<1>5. /\ thr' \in [Thread -> Loop] /\ \A c \in Client : thr'[c] = thr[c]
      /\ thr'[Main] = thr[Main]
         \/ (/\ thr'[Main].pc = "read" /\ thr'[Main].fd = n /\ thr'[Main].buf = <<>>
             /\ prog # "thread" /\ main' = "serve")
  BY <1>2, ThreadsApart DEF n
<1>6. TypeOK'
  <2>1. table' \in [Fd -> Client \cup {None}]
    BY <1>1, <1>2
  <2>2. rfd' \subseteq {ServerFd} \cup (Fd \ Free')
    BY <1>1, <1>2, <1>3 DEF IInv, TypeOK, Free, n
  <2>3. prog' \in Program /\ sent' \in [Client -> 0..Bytes] /\ got' \in [Client -> Nat]
        /\ raced' \in BOOLEAN
    BY DEF IInv, TypeOK, clientVars
  <2> QED
    BY <1>1, <1>5, <2>1, <2>2, <2>3 DEF TypeOK
<1>7. Streams'
  BY <1>1 DEF IInv, Streams
<1>8. ThreadInv'
  <2>1. \A c \in Client : Started(c)' => Started(c) /\ c # h
    BY <1>1, <1>5 DEF Started, IInv, ThreadInv
  <2>2. \A c \in Client : Started(c)' => link'[c] \in {"open", "over"} /\ prog' = "thread"
    BY <1>4, <2>1 DEF IInv, ThreadInv
  <2>3. main' = "create" => prog' = "thread"
    OBVIOUS
  <2> QED
    BY <1>1, <1>2, <1>4, <2>1, <2>2, <2>3 DEF ThreadInv
<1>9. LoopInv'
  <2>1. \A t \in Thread : Serves(t)' => thr'[t].fd \in Fd
    BY <1>1, <1>5 DEF IInv, LoopInv, Serves, Thread
  <2>2. \A t \in Thread : thr'[t].pc # "write" => thr'[t].buf = <<>>
    BY <1>5 DEF IInv, LoopInv, Thread
  <2>3. thr'[Main].pc # "start"
    BY <1>5 DEF IInv, LoopInv
  <2>4. Serves(Main)' => prog' # "thread" /\ main' = "serve" /\ table'[thr'[Main].fd] # None
    BY <1>2, <1>3, <1>5 DEF Serves
  <2>5. prog' = "thread" => main' \in {"accept", "create", "off"}
    OBVIOUS
  <2> QED
    BY <2>1, <2>2, <2>3, <2>4, <2>5, Zenon DEF LoopInv
<1>10. OwnLoop'
  <2> SUFFICES ASSUME ~ raced', NEW c \in Client, Serves(c)'
               PROVE  table'[thr'[c].fd] = c
    BY Zenon DEF OwnLoop
  <2>1. Serves(c) /\ thr[c].fd \in Fd /\ table[thr[c].fd] = c
    BY <1>5, ThreadsApart DEF IInv, OwnLoop, LoopInv, Serves
  <2> QED
    BY <1>1, <1>3, <1>5, <2>1, ThreadsApart
<1>11. PiecesInv'
  <2> SUFFICES ASSUME ~ raced', NEW c \in Client
               PROVE  Buf(c)' = Buf(c)
    <3>1. \A c \in Client : Lives(c)' => Lives(c)
      BY <1>1, <1>4 DEF Lives
    <3>2. PiecesInv /\ (raced => raced')
      BY DEF IInv
    <3> QED
      BY <1>1, <3>1, <3>2, PiecesKept DEF clientVars
  <2>1. CASE prog = "thread"
    <3>1. Server(c) = c /\ thr'[c] = thr[c] /\ prog' = prog
      BY <1>5, <2>1 DEF Server
    <3>2. Serves(c) => thr[c].fd \in Fd /\ table[thr[c].fd] = c
      BY ThreadsApart DEF IInv, OwnLoop, LoopInv
    <3>3. Serves(c) => table'[thr[c].fd] = c
      BY <1>1, <1>3, <3>2, ThreadsApart
    <3> QED
      BY <3>1, <3>2, <3>3, BufKept
  <2>2. CASE prog # "thread"
    <3>1. Server(c) = Main /\ Server(c)' = Main
      BY <2>2 DEF Server
    <3>2. Buf(c) = <<>>
      BY <3>1, NoBuf
    <3>3. thr'[Main].buf = <<>>
      BY <1>5 DEF IInv, LoopInv, Serves, Thread
    <3>4. Buf(c)' = <<>>
      BY <3>1, <3>3 DEF Buf
    <3> QED
      BY <3>2, <3>4
  <2> QED
    BY <2>1, <2>2
<1> QED
  BY <1>1, <1>6, <1>7, <1>8, <1>9, <1>10, <1>11 DEF IInv

LEMMA Accepts == ASSUME IInv, AcceptServe \/ AcceptThread \/ ScanAccept PROVE IInv'
<1>1. ~ (main = "serve") => ~ Serves(Main)
  BY DEF IInv, LoopInv
<1>2. tfd \subseteq rfd /\ thr \in [Thread -> Loop] /\ (~ Serves(Main) => thr[Main].buf = <<>>)
  BY ThreadsApart DEF IInv, TypeOK, LoopInv, Serves
<1>3. CASE AcceptServe
  <2>1. NewFd \in Fd
    BY <1>3, AcceptSocks DEF AcceptServe
  <2> DEFINE r == [thr[Main] EXCEPT !.pc = "read", !.fd = NewFd]
  <2>2. thr' = [thr EXCEPT ![Main] = r]
    BY <1>3, Zenon DEF AcceptServe
  <2>3. thr[Main] \in Loop
    BY <1>2, ThreadsApart
  <2>4. r \in Loop
    BY <2>1, <2>3 DEF Loop
  <2>5. r.pc = "read" /\ r.fd = NewFd /\ r.buf = thr[Main].buf
    BY <2>3 DEF Loop
  <2> HIDE DEF r
  <2>6. thr[Main].buf = <<>> /\ ~ Serves(Main)
    BY <1>1, <1>2, <1>3 DEF AcceptServe
  <2>7. /\ Accepted /\ UNCHANGED <<prog, clientVars, raced>> /\ prog # "thread"
        /\ main' = "serve" /\ rfd' \subseteq rfd \cup {NewFd} /\ tfd' \subseteq rfd'
    BY <1>2, <1>3 DEF AcceptServe, sets
  <2>8. /\ r \in Loop /\ r.pc = "read" /\ r.fd = NewFd /\ r.buf = <<>>
        /\ thr' = [thr EXCEPT ![Main] = r]
    BY <2>2, <2>4, <2>5, <2>6
  <2> QED
    BY <2>6, <2>7, <2>8, AcceptStep
<1>4. CASE AcceptThread
  <2>1. /\ Accepted /\ UNCHANGED <<prog, clientVars, raced>> /\ thr' = thr /\ ~ Serves(Main)
        /\ rfd' \subseteq rfd \cup {NewFd} /\ tfd' \subseteq rfd'
        /\ prog = "thread" /\ main' = "create"
    BY <1>1, <1>2, <1>4 DEF AcceptThread, sets
  <2> QED
    BY <2>1, AcceptStep
<1>5. CASE ScanAccept
  <2>1. /\ Accepted /\ UNCHANGED <<prog, clientVars, raced>> /\ thr' = thr /\ ~ Serves(Main)
        /\ rfd' \subseteq rfd \cup {NewFd} /\ tfd' \subseteq rfd' /\ main' = "scan"
    BY <1>1, <1>2, <1>5 DEF ScanAccept, Scanning
  <2>2. prog # "thread"
    BY <1>5 DEF ScanAccept, Scanning, IInv, LoopInv
  <2> QED
    BY <2>1, <2>2, AcceptStep
<1> QED
  BY <1>3, <1>4, <1>5
-----------------------------------------------------------------------------
(* Steps of main that change where it is and the sets of select only.      *)
LEMMA Waits ==
    ASSUME IInv, Arm \/ SelectReady \/ SelectTimeout \/ ScanDone
    PROVE  IInv'
<1>1. /\ main \in {"arm", "select", "scan"} /\ main' \in {"arm", "select", "scan", "accept"}
      /\ UNCHANGED <<sockVars, prog, sfd_client, newest, table, rfd, thr, clientVars, raced>>
  BY DEF Arm, SelectReady, SelectTimeout, ScanDone, sets
<1>2. tfd' \subseteq rfd
  BY DEF Arm, SelectReady, SelectTimeout, ScanDone, Ready, IInv, TypeOK, sets
<1>3. ~ Serves(Main) /\ prog # "thread"
  BY <1>1 DEF IInv, LoopInv
<1>4. UNCHANGED <<lsn, queue, link, fds, shut, rcv, snd, sent, got>>
  BY <1>1 DEF sockVars, clientVars
<1>5. TypeOK'
  BY <1>1, <1>2, <1>4 DEF IInv, TypeOK, SockTypeOK, Free
<1>6. Streams' /\ QueueInv' /\ TableInv'
  BY <1>1, <1>4 DEF IInv, Streams, QueueInv, TableInv
<1>7. ThreadInv' /\ OwnLoop'
  BY <1>1, <1>4 DEF IInv, ThreadInv, Started, OwnLoop, Serves
<1>8. LoopInv'
  BY <1>1, <1>3 DEF IInv, LoopInv, Serves
<1>9. PiecesInv'
  BY <1>1, <1>4 DEF IInv, PiecesInv, Lives, Buf, Serves, Server
<1> QED
  BY <1>5, <1>6, <1>7, <1>8, <1>9 DEF IInv

(* Steps in which a thread t that holds no byte is started or gets going.  *)
LEMMA ThreadGoes ==
    ASSUME IInv, NEW t \in Thread, NEW r \in Loop, thr' = [thr EXCEPT ![t] = r],
           ~ Serves(t), r.buf = <<>>, r.pc \in {"start", "read"},
           r.pc = "read" => r.fd \in Fd,
           t = Main => r.pc = "read" /\ prog # "thread" /\ main' = "serve" /\ table[r.fd] # None,
           t # Main => link[t] \in {"open", "over"} /\ prog = "thread" /\ newest # None,
           t # Main /\ r.pc = "read" => raced' \/ table[r.fd] = t,
           main' \in {"accept", "create", "off", "serve"}, prog = "thread" => main' # "serve",
           main' = "create" => main = "create" /\ t # newest,
           raced => raced', raced' \in BOOLEAN,
           UNCHANGED <<sockVars, prog, sfd_client, newest, table, sets, clientVars>>
    PROVE  IInv'
<1>1. UNCHANGED <<lsn, queue, link, fds, shut, rcv, snd, rfd, tfd, sent, got>>
  BY DEF sockVars, sets, clientVars
<1>2. /\ thr \in [Thread -> Loop] /\ thr'[t] = r /\ \A u \in Thread \ {t} : thr'[u] = thr[u]
      /\ thr' \in [Thread -> Loop]
  BY DEF IInv, TypeOK
<1>3. TypeOK'
  BY <1>1, <1>2 DEF IInv, TypeOK, SockTypeOK, Free
<1>4. Streams' /\ QueueInv' /\ TableInv'
  BY <1>1 DEF IInv, Streams, QueueInv, TableInv
<1>5. ThreadInv'
  <2>1. \A c \in Client : Started(c)' => link[c] \in {"open", "over"} /\ prog = "thread"
    BY <1>2, ThreadsApart DEF IInv, ThreadInv, Started
  <2>2. \A c \in Client : thr'[c].pc = "start" => newest # None
    BY <1>2, ThreadsApart DEF IInv, ThreadInv
  <2>3. main' = "create" => newest # None /\ ~ Started(newest)' /\ prog = "thread"
    BY <1>2, ThreadsApart DEF IInv, ThreadInv, Started, TypeOK
  <2> QED
    BY <1>1, <2>1, <2>2, <2>3 DEF IInv, ThreadInv
<1>6. LoopInv'
  <2>1. \A u \in Thread : Serves(u)' => thr'[u].fd \in Fd
    BY <1>2 DEF IInv, LoopInv, Serves
  <2>2. \A u \in Thread : thr'[u].pc # "write" => thr'[u].buf = <<>>
    BY <1>2 DEF IInv, LoopInv
  <2>3. thr'[Main].pc # "start"
    BY <1>2, ThreadsApart DEF IInv, LoopInv
  <2>4. Serves(Main)' => prog' # "thread" /\ main' = "serve" /\ table'[thr'[Main].fd] # None
    <3>1. CASE t = Main
      BY <1>2, <3>1
    <3>2. CASE t # Main
      BY <1>2, <3>2, ThreadsApart DEF IInv, LoopInv, Serves
    <3> QED
      BY <3>1, <3>2
  <2>5. prog' = "thread" => main' \in {"accept", "create", "off"}
    OBVIOUS
  <2> QED
    BY <2>1, <2>2, <2>3, <2>4, <2>5, Zenon DEF LoopInv
<1>7. OwnLoop'
  BY <1>2, ThreadsApart DEF IInv, OwnLoop, Serves
<1>8. PiecesInv'
  <2>1. thr[t].buf = <<>>
    BY DEF IInv, LoopInv, Serves
  <2>2. ASSUME NEW c \in Client PROVE Buf(c)' = Buf(c)
    <3>1. CASE Server(c) = t
      <4>1. Server(c)' = t
        BY <3>1 DEF Server
      <4> QED
        BY <1>2, <2>1, <3>1, <4>1 DEF Buf
    <3>2. CASE Server(c) # t
      <4>1. thr'[Server(c)] = thr[Server(c)]
        BY <1>2, <3>2, ThreadsApart DEF Server
      <4> QED
        BY <4>1, BufKept
    <3> QED
      BY <3>1, <3>2
  <2> QED
    BY <1>1, <2>2, PiecesKept DEF IInv, Lives
<1> QED
  BY <1>3, <1>4, <1>5, <1>6, <1>7, <1>8 DEF IInv

LEMMA Creates == ASSUME IInv, CreateThread PROVE IInv'
<1>1. /\ main = "create" /\ main' = "accept" /\ prog = "thread"
      /\ newest \in Client /\ ~ Started(newest) /\ link[newest] \in {"open", "over"}
      /\ UNCHANGED <<sockVars, prog, sfd_client, newest, table, sets, clientVars, raced>>
  BY DEF CreateThread, IInv, ThreadInv, TypeOK
<1> DEFINE r == [thr[newest] EXCEPT !.pc = "start"]
<1>2. thr' = [thr EXCEPT ![newest] = r]
  BY Zenon DEF CreateThread
<1>3. thr[newest] \in Loop /\ ~ Serves(newest) /\ thr[newest].buf = <<>>
  BY <1>1, ThreadsApart DEF IInv, TypeOK, LoopInv, Started, Serves
<1>4. r \in Loop /\ r.pc = "start" /\ r.buf = thr[newest].buf
  BY <1>3 DEF Loop
<1> HIDE DEF r
<1>5. newest \in Thread /\ newest # Main /\ newest # None /\ raced' \in BOOLEAN
  BY <1>1, ThreadsApart DEF IInv, TypeOK
<1> QED
  BY <1>1, <1>2, <1>3, <1>4, <1>5, ThreadGoes

LEMMA Starts == ASSUME IInv, NEW c \in Client, ThreadStart(c) PROVE IInv'
<1>1. /\ thr[c].pc = "start" /\ prog = "thread" /\ link[c] \in {"open", "over"}
      /\ newest # None /\ sfd_client \in Fd /\ main \in {"accept", "create", "off"}
      /\ ~ Serves(c) /\ raced' = (raced \/ table[sfd_client] # c)
  BY DEF ThreadStart, IInv, ThreadInv, LoopInv, Started, Serves
<1>2. UNCHANGED <<sockVars, prog, main, sfd_client, newest, table, sets, clientVars>>
  BY DEF ThreadStart, mainVars
<1> DEFINE r == [thr[c] EXCEPT !.pc = "read", !.fd = sfd_client]
<1>3. thr' = [thr EXCEPT ![c] = r]
  BY Zenon DEF ThreadStart
<1>4. thr[c] \in Loop /\ thr[c].buf = <<>> /\ c \in Thread /\ c # Main
  BY <1>1, ThreadsApart DEF IInv, TypeOK, LoopInv
<1>5. r \in Loop /\ r.pc = "read" /\ r.buf = thr[c].buf /\ r.fd = sfd_client
  BY <1>1, <1>4 DEF Loop
<1> HIDE DEF r
<1>6. /\ main' \in {"accept", "create", "off"} /\ (main' = "create" => main = "create" /\ c # newest)
      /\ raced' \in BOOLEAN /\ (raced => raced') /\ (raced' \/ table[r.fd] = c)
  BY <1>1, <1>2, <1>5 DEF IInv, ThreadInv, Started
<1> QED
  BY <1>1, <1>2, <1>3, <1>4, <1>5, <1>6, ThreadGoes

LEMMA Serving == ASSUME IInv, ScanServe PROVE IInv'
<1>1. PICK n \in Fd : Scanning(n) /\ thr' = [thr EXCEPT ![Main].pc = "read", ![Main].fd = n]
  BY DEF ScanServe
<1>2. /\ main' = "serve" /\ main = "scan" /\ prog # "thread"
      /\ UNCHANGED <<sockVars, prog, sfd_client, newest, table, sets, clientVars, raced>>
  BY <1>1 DEF ScanServe, Scanning, IInv, LoopInv
<1>3. table[n] # None
  <2>1. rfd \subseteq Nat /\ tfd \subseteq rfd /\ tfd # {} /\ n = Min(tfd)
    <3>1. Cardinality(Client) \in Nat
      BY EchoAssumption, FS_CardinalityType
    <3> QED
      BY <1>1, <3>1 DEF IInv, TypeOK, Fd, ServerFd, Scanning
  <2>2. n \in tfd
    BY <2>1, MinIn
  <2>3. n # ServerFd
    BY EchoAssumption, FS_CardinalityType DEF Fd, ServerFd
  <2> QED
    BY <2>1, <2>2, <2>3 DEF IInv, TypeOK, Free
<1> DEFINE r == [thr[Main] EXCEPT !.pc = "read", !.fd = n]
<1>4. thr' = [thr EXCEPT ![Main] = r]
  BY <1>1, Zenon
<1>5. thr[Main] \in Loop /\ thr[Main].buf = <<>> /\ ~ Serves(Main)
  BY <1>2, ThreadsApart DEF IInv, TypeOK, LoopInv, Serves
<1>6. r \in Loop /\ r.pc = "read" /\ r.buf = thr[Main].buf /\ r.fd = n
  BY <1>5 DEF Loop
<1> HIDE DEF r
<1>7. raced' \in BOOLEAN /\ Main \in Thread
  BY <1>2, ThreadsApart DEF IInv, TypeOK
<1> QED
  BY <1>2, <1>3, <1>4, <1>5, <1>6, <1>7, ThreadGoes
-----------------------------------------------------------------------------
(* The end of the process: it held every end there is.                     *)
LEMMA Ends == ASSUME IInv, ProcessEnds PROVE IInv'
<1> DEFINE f == [c \in Client |-> fds[c] \ {Main}]
<1>1. /\ (lsn \ {Main}) = {} /\ f \in [Client -> SUBSET Process] /\ \A c \in Client : f[c] = {}
  BY EchoAssumption DEF IInv, TypeOK, SockTypeOK
<1>2. Hold({}, f)
  BY <1>1 DEF ProcessEnds, SockExit
<1>3. SockTypeOK' /\ QueueInv' /\ UNCHANGED <<shut, rcv, snd>>
  BY <1>1, <1>2, HoldKeeps DEF IInv, TypeOK
<1>4. /\ main' = "off" /\ sfd_client' = 0 /\ newest' = None /\ rfd' = {} /\ tfd' = {}
      /\ table' = [n \in Fd |-> None] /\ UNCHANGED <<prog, sent, got, raced>>
      /\ \A t \in Thread : thr'[t].pc = "off" /\ thr'[t].buf = <<>>
      /\ thr' \in [Thread -> Loop]
  <2>1. [pc |-> "off", fd |-> 0, buf |-> <<>>] \in Loop
    BY DEF Loop
  <2> QED
    BY <2>1 DEF ProcessEnds, clientVars
<1>5. TypeOK'
  BY <1>3, <1>4 DEF IInv, TypeOK
<1>6. Streams' /\ TableInv'
  BY <1>3, <1>4 DEF IInv, Streams, TableInv
<1>7. ThreadInv' /\ LoopInv' /\ OwnLoop'
  BY <1>4, ThreadsApart DEF ThreadInv, LoopInv, OwnLoop, Started, Serves
<1>8. PiecesInv'
  <2> SUFFICES ASSUME ~ raced, NEW c \in Client, Lives(c)'
               PROVE  Lives(c) /\ Buf(c)' = Buf(c)
    BY <1>3, <1>4, PiecesKept DEF IInv
  <2>1. link[c] \notin {"open", "over"} /\ c \notin shut
    BY <1>1, <1>2, <1>3 DEF Hold, Lives
  <2>2. Buf(c) = <<>>
    BY <2>1, OwnBuf, ThreadsApart DEF Buf, Server, IInv, TableInv
  <2>3. Buf(c)' = <<>>
    BY <1>4, ThreadsApart DEF Buf, Server
  <2> QED
    BY <2>1, <2>2, <2>3 DEF Lives
<1> QED
  BY <1>3, <1>5, <1>6, <1>7, <1>8 DEF IInv

(* The queue with one client more.                                         *)
LEMMA QueueAppend ==
    ASSUME NEW S, NEW q \in Seq(S), NEW e \in S
    PROVE  /\ Append(q, e) \in Seq(S) /\ Len(q) \in Nat
           /\ Len(Append(q, e)) = Len(q) + 1 /\ Append(q, e)[Len(q) + 1] = e
           /\ \A i \in 1 .. Len(q) : Append(q, e)[i] = q[i] /\ q[i] \in S
           /\ \A i \in 1 .. Len(q) + 1 : i \in 1 .. Len(q) \/ i = Len(q) + 1
OBVIOUS

(* The clients: one connects or closes, sends a byte, receives one.        *)
LEMMA Connects == ASSUME IInv, NEW c \in Client, ConnectStep(c) PROVE IInv'
<1>1. UNCHANGED <<prog, main, sfd_client, newest, table, rfd, tfd, thr, sent, got, raced>>
  BY DEF ConnectStep, mainVars, sets, clientVars
<1>2. /\ SockTypeOK' /\ UNCHANGED <<lsn, fds, rcv>> /\ QueueInv'
      /\ \A d \in Client : link[d] \in {"open", "over"} => link'[d] = link[d]
      /\ shut \subseteq shut'
      /\ \A d \in Client : d \notin shut' => snd'[d] = snd[d]
      /\ snd' \in [Client -> Seq(Bit)]
  <2> USE DEF IInv, TypeOK, SockTypeOK, Streams
  <2>1. CASE Connect(c)
    <3>1. PICK q \in Seq(Client) : q = queue
      OBVIOUS
    <3>2. /\ Append(q, c) \in Seq(Client) /\ Len(q) \in Nat
          /\ Len(Append(q, c)) = Len(q) + 1 /\ Append(q, c)[Len(q) + 1] = c
          /\ \A i \in 1 .. Len(q) : Append(q, c)[i] = q[i] /\ q[i] \in Client
          /\ \A i \in 1 .. Len(q) + 1 : i \in 1 .. Len(q) \/ i = Len(q) + 1
      BY QueueAppend, Zenon
    <3>3. /\ link[c] = "new" /\ link' = [link EXCEPT ![c] = "queued"] /\ queue' = Append(q, c)
          /\ UNCHANGED <<lsn, fds, shut, rcv, snd>>
      BY <2>1, <3>1 DEF Connect
    <3>4. \A i \in 1 .. Len(q) : q[i] # c /\ link'[q[i]] = "queued"
      BY <3>1, <3>2, <3>3 DEF QueueInv
    <3>5. \A i \in 1 .. Len(queue') : link'[queue'[i]] = "queued"
      BY <3>2, <3>3, <3>4
    <3>6. \A i, j \in 1 .. Len(q) : q[i] = q[j] => i = j
      BY <3>1 DEF QueueInv
    <3>7. \A i, j \in 1 .. Len(q) + 1 : Append(q, c)[i] = Append(q, c)[j] => i = j
      <4> TAKE i, j \in 1 .. Len(q) + 1
      <4> HAVE Append(q, c)[i] = Append(q, c)[j]
      <4>1. CASE i \in 1 .. Len(q) /\ j \in 1 .. Len(q)
        BY <3>2, <3>6, <4>1
      <4>2. CASE i = Len(q) + 1 \/ j = Len(q) + 1
        BY <3>2, <3>4, <4>2
      <4> QED
        BY <3>2, <4>1, <4>2
    <3>8. \A i, j \in 1 .. Len(queue') : queue'[i] = queue'[j] => i = j
      BY <3>2, <3>3, <3>7
    <3>9. QueueInv'
      BY <3>5, <3>8 DEF QueueInv
    <3>10. link' \in [Client -> {"new", "queued", "open", "over"}]
      BY <3>3
    <3> QED
      BY <3>2, <3>3, <3>9, <3>10
  <2>2. CASE Refused(c)
    <3>1. /\ link[c] = "new" /\ link' = [link EXCEPT ![c] = "over"]
          /\ UNCHANGED <<lsn, queue, fds, shut, rcv, snd>>
      BY <2>2 DEF Refused
    <3>2. \A i \in 1 .. Len(queue) : queue[i] \in Client
      OBVIOUS
    <3>3. QueueInv'
      BY <3>1, <3>2 DEF QueueInv
    <3> QED
      BY <3>1, <3>3
  <2>3. CASE ClientClose(c)
    <3>1. /\ shut' = shut \cup {c} /\ snd' = [snd EXCEPT ![c] = <<>>]
          /\ UNCHANGED <<lsn, queue, link, fds, rcv>>
      BY <2>3 DEF ClientClose, ends
    <3>2. <<>> \in Seq(Bit)
      OBVIOUS
    <3>3. QueueInv'
      BY <3>1 DEF QueueInv
    <3> QED
      BY <3>1, <3>2, <3>3
  <2> QED
    BY <2>1, <2>2, <2>3 DEF ConnectStep
<1>3. TypeOK' /\ Streams'
  BY <1>1, <1>2 DEF IInv, TypeOK, Free, Streams
<1>4. TableInv'
  <2>1. \A m \in Fd : table[m] # None => table[m] \in Client
    BY DEF IInv, TypeOK
  <2> QED
    BY <1>1, <1>2, <2>1 DEF IInv, TableInv
<1>5. ThreadInv'
  <2>1. newest # None => newest \in Client
    BY DEF IInv, TypeOK
  <2> QED
    BY <1>1, <1>2, <2>1 DEF IInv, ThreadInv, Started
<1>6. LoopInv' /\ OwnLoop'
  BY <1>1 DEF IInv, LoopInv, OwnLoop, Serves
<1>7. PiecesInv'
  <2>1. \A d \in Client : Buf(d)' = Buf(d)
    BY <1>1 DEF Buf, Serves, Server
  <2>2. \A d \in Client : Lives(d)' => Lives(d) /\ snd'[d] = snd[d]
    BY <1>2 DEF Lives
  <2> QED
    BY <1>1, <1>2, <2>1, <2>2, PiecesKept DEF IInv
<1> QED
  BY <1>2, <1>3, <1>4, <1>5, <1>6, <1>7 DEF IInv

(* A step of the streams alone: whatever moves, nobody else's does.        *)
LEMMA StreamsMove ==
    ASSUME IInv, UNCHANGED <<ends, shut, prog, mainVars, table, sets, thr, raced>>,
           snd' \in [Client -> Seq(Bit)], rcv' \in [Client -> Seq(Bit)],
           sent' \in [Client -> 0..Bytes], got' \in [Client -> Nat],
           ~ raced => \A c \in Client : Lives(c) =>
               InOrder(c, snd'[c], Buf(c), rcv'[c], got'[c], sent'[c])
    PROVE  IInv'
<1>1. UNCHANGED <<lsn, queue, link, fds, shut, prog, main, sfd_client, newest, table, rfd, tfd,
                  thr, raced>>
  BY DEF ends, mainVars, sets
<1>2. TypeOK' /\ Streams'
  BY <1>1 DEF IInv, TypeOK, SockTypeOK, Free, Streams
<1>3. QueueInv' /\ TableInv' /\ ThreadInv'
  BY <1>1 DEF IInv, QueueInv, TableInv, ThreadInv, Started
<1>4. LoopInv' /\ OwnLoop'
  BY <1>1 DEF IInv, LoopInv, OwnLoop, Serves
<1>5. PiecesInv'
  <2> SUFFICES ASSUME ~ raced', NEW c \in Client, Lives(c)'
               PROVE  InOrder(c, snd'[c], Buf(c)', rcv'[c], got'[c], sent'[c])
    BY Zenon DEF PiecesInv
  <2>1. Buf(c)' = Buf(c) /\ Lives(c) /\ ~ raced
    BY <1>1 DEF Buf, Serves, Server, Lives
  <2> QED
    BY <2>1, Zenon
<1> QED
  BY <1>2, <1>3, <1>4, <1>5 DEF IInv

(* What a client has in its loop is a sequence of bytes.                   *)
LEMMA BufTypes ==
    ASSUME IInv, NEW c \in Client
    PROVE  Buf(c) \in Seq(Bit) /\ snd[c] \in Seq(Bit) /\ rcv[c] \in Seq(Bit)
<1>1. Server(c) \in Thread
  BY ThreadsApart DEF Server
<1>2. thr[Server(c)].buf \in Seq(Bit) /\ <<>> \in Seq(Bit)
  BY <1>1 DEF IInv, TypeOK, Loop
<1> QED
  BY <1>2 DEF Buf, IInv, Streams

LEMMA Sends == ASSUME IInv, NEW c \in Client, Send(c) PROVE IInv'
<1> DEFINE k == sent[c]
<1>1. k \in Nat /\ k + 1 \in 1..Bytes /\ <<c, k + 1>> \in Bit
  BY EchoAssumption DEF IInv, TypeOK, Send, Bit
<1>2. /\ rcv' = [rcv EXCEPT ![c] = rcv[c] \o <<<<c, k + 1>>>>] /\ sent' = [sent EXCEPT ![c] = k + 1]
      /\ UNCHANGED <<ends, shut, prog, mainVars, table, sets, thr, raced, snd, got>>
  BY Zenon DEF Send, ClientWrite
<1>3. rcv[c] \in Seq(Bit) /\ rcv[c] \o <<<<c, k + 1>>>> \in Seq(Bit)
  BY <1>1, BufTypes
<1>4. rcv' \in [Client -> Seq(Bit)] /\ sent' \in [Client -> 0..Bytes]
  BY <1>1, <1>2, <1>3 DEF IInv, Streams, TypeOK
<1>5. snd' \in [Client -> Seq(Bit)] /\ got' \in [Client -> Nat]
  BY <1>2 DEF IInv, Streams, TypeOK
<1> HIDE DEF k
<1>6. ASSUME ~ raced, NEW d \in Client, Lives(d)
      PROVE  InOrder(d, snd'[d], Buf(d), rcv'[d], got'[d], sent'[d])
  <2>1. InOrder(d, snd[d], Buf(d), rcv[d], got[d], sent[d]) /\ got[d] \in Nat
    BY <1>6 DEF IInv, PiecesInv, TypeOK
  <2>2. CASE d = c
    <3>1. InOrder(c, snd[c], Buf(c), rcv[c] \o <<<<c, k + 1>>>>, got[c], k + 1)
      BY <1>1, <2>1, <2>2, BufTypes, SendPieces DEF k
    <3>2. snd'[c] = snd[c] /\ got'[c] = got[c] /\ sent'[c] = k + 1
          /\ rcv'[c] = rcv[c] \o <<<<c, k + 1>>>>
      BY <1>2, <1>3 DEF IInv, Streams, TypeOK
    <3> QED
      BY <2>2, <3>1, <3>2, Zenon
  <2>3. CASE d # c
    BY <1>2, <2>1, <2>3 DEF IInv, Streams, TypeOK
  <2> QED
    BY <2>2, <2>3
<1> QED
  BY <1>2, <1>4, <1>5, <1>6, StreamsMove

LEMMA Receives == ASSUME IInv, NEW c \in Client, Receive(c) PROVE IInv'
<1> DEFINE a == snd[c]
           d == SubSeq(a, 1 + 1, Len(a))
<1>1. a \in Seq(Bit) /\ 1 \in 1 .. Len(a) /\ got[c] \in Nat
  BY BufTypes DEF Receive, ClientRead, IInv, TypeOK
<1>2. /\ snd' = [snd EXCEPT ![c] = d] /\ got' = [got EXCEPT ![c] = got[c] + 1]
      /\ UNCHANGED <<ends, shut, prog, mainVars, table, sets, thr, raced, rcv, sent>>
  BY Zenon DEF Receive, ClientRead
<1>3. d \in Seq(Bit)
  BY <1>1, DropOne
<1>4. rcv' \in [Client -> Seq(Bit)] /\ sent' \in [Client -> 0..Bytes]
  BY <1>2 DEF IInv, Streams, TypeOK
<1>5. snd' \in [Client -> Seq(Bit)] /\ got' \in [Client -> Nat]
  BY <1>1, <1>2, <1>3 DEF IInv, Streams, TypeOK
<1>6. ASSUME ~ raced, NEW e \in Client, Lives(e)
      PROVE  InOrder(e, snd'[e], Buf(e), rcv'[e], got'[e], sent'[e])
  <2>1. InOrder(e, snd[e], Buf(e), rcv[e], got[e], sent[e])
    BY <1>6 DEF IInv, PiecesInv
  <2>2. CASE e = c
    <3>1. InOrder(c, d, Buf(c), rcv[c], got[c] + 1, sent[c])
      BY <1>1, <2>1, <2>2, BufTypes, ReceivePieces
    <3>2. snd'[c] = d /\ got'[c] = got[c] + 1 /\ sent'[c] = sent[c] /\ rcv'[c] = rcv[c]
      BY <1>2 DEF IInv, Streams, TypeOK
    <3> QED
      BY <2>2, <3>1, <3>2, Zenon
  <2>3. CASE e # c
    BY <1>2, <2>1, <2>3 DEF IInv, Streams, TypeOK
  <2> QED
    BY <2>2, <2>3
<1> QED
  BY <1>2, <1>4, <1>5, <1>6, StreamsMove
-----------------------------------------------------------------------------
(* After a write a loop reads again or, in EX07-04, is left.               *)
LEMMA Continues ==
    ASSUME IInv, NEW t \in Thread, thr[t].pc = "write", Continue(t)
    PROVE  /\ \E r \in Loop : /\ thr' = [thr EXCEPT ![t] = r] /\ r.buf = <<>>
                              /\ \/ r.pc = "none" /\ main' = "scan"
                                 \/ r.pc = "read" /\ r.fd = thr[t].fd /\ main' = main
           /\ tfd' \subseteq rfd /\ (t # Main => thr'[t].pc = "read")
<1>1. thr[t] \in Loop /\ thr \in [Thread -> Loop] /\ tfd \subseteq rfd
  BY DEF IInv, TypeOK
<1>2. <<>> \in Seq(Bit)
  OBVIOUS
<1>3. CASE t = Main /\ prog = "multi"
  <2>1. Idle \in Loop /\ Idle.buf = <<>> /\ Idle.pc = "none"
    BY <1>2 DEF Idle, Loop
  <2>2. thr' = [thr EXCEPT ![t] = Idle] /\ main' = "scan" /\ tfd' \subseteq rfd
    BY <1>1, <1>3 DEF Continue
  <2> QED
    BY <1>3, <2>1, <2>2
<1>4. CASE ~ (t = Main /\ prog = "multi")
  <2> DEFINE r == [thr[t] EXCEPT !.pc = "read", !.buf = <<>>]
  <2>1. thr' = [thr EXCEPT ![t] = r] /\ main' = main /\ tfd' = tfd
    BY <1>4, Zenon DEF Continue
  <2>2. r \in Loop /\ r.pc = "read" /\ r.fd = thr[t].fd /\ r.buf = <<>>
    BY <1>1, <1>2 DEF Loop
  <2> HIDE DEF r
  <2> QED
    BY <1>1, <2>1, <2>2
<1> QED
  BY <1>3, <1>4

(* A step of the loop of t, which goes on: the client's bytes in the loop  *)
(* and in the streams are what they were, or they have moved on in order.  *)
LEMMA LoopStep ==
    ASSUME IInv, NEW t \in Thread, Serves(t), NEW r \in Loop, thr' = [thr EXCEPT ![t] = r],
           r.pc # "write" => r.buf = <<>>,
           \/ r.pc \in {"read", "write"} /\ r.fd = thr[t].fd /\ main' = main
           \/ r.pc = "none" /\ t = Main /\ main' = "scan",
           UNCHANGED <<ends, shut, prog, sfd_client, newest, table, rfd, clientVars, raced>>,
           tfd' \subseteq rfd, snd' \in [Client -> Seq(Bit)], rcv' \in [Client -> Seq(Bit)],
           ~ raced => \A c \in Client : Lives(c) =>
               IF c = table[thr[t].fd]
               THEN InOrder(c, snd'[c], r.buf, rcv'[c], got[c], sent[c])
               ELSE snd'[c] = snd[c] /\ rcv'[c] = rcv[c]
    PROVE  IInv'
<1>1. UNCHANGED <<lsn, queue, link, fds, shut, prog, sfd_client, newest, table, rfd, sent, got,
                  raced>>
  BY DEF ends, clientVars
<1>2. /\ thr \in [Thread -> Loop] /\ thr'[t] = r /\ \A u \in Thread \ {t} : thr'[u] = thr[u]
      /\ thr' \in [Thread -> Loop]
  BY DEF IInv, TypeOK
<1>3. TypeOK' /\ Streams'
  BY <1>1, <1>2 DEF IInv, TypeOK, SockTypeOK, Free, Streams
<1>4. QueueInv' /\ TableInv'
  BY <1>1 DEF IInv, QueueInv, TableInv
<1>5. t = Main => prog # "thread" /\ main = "serve" /\ table[thr[t].fd] # None
  BY DEF IInv, LoopInv
<1>6. ThreadInv'
  <2>1. \A c \in Client : Started(c)' => Started(c)
    BY <1>2, ThreadsApart DEF Started, Serves
  <2>2. \A c \in Client : thr'[c].pc = "start" => thr[c].pc = "start"
    BY <1>2, ThreadsApart
  <2>3. main' = "create" => main = "create"
    OBVIOUS
  <2>4. newest # None => newest \in Client
    BY DEF IInv, TypeOK
  <2> QED
    BY <1>1, <2>1, <2>2, <2>3, <2>4 DEF IInv, ThreadInv
<1>7. LoopInv'
  <2>1. \A u \in Thread : Serves(u)' => thr'[u].fd \in Fd
    BY <1>2 DEF IInv, LoopInv, Serves
  <2>2. \A u \in Thread : thr'[u].pc # "write" => thr'[u].buf = <<>>
    BY <1>2 DEF IInv, LoopInv
  <2>3. thr'[Main].pc # "start"
    BY <1>2, ThreadsApart DEF IInv, LoopInv
  <2>4. Serves(Main)' => prog' # "thread" /\ main' = "serve" /\ table'[thr'[Main].fd] # None
    <3>1. CASE t = Main
      BY <1>1, <1>2, <1>5, <3>1 DEF Serves
    <3>2. CASE t # Main
      BY <1>1, <1>2, <3>2, ThreadsApart DEF IInv, LoopInv, Serves
    <3> QED
      BY <3>1, <3>2
  <2>5. prog' = "thread" => main' \in {"accept", "create", "off"}
    BY <1>1, <1>5 DEF IInv, LoopInv
  <2> QED
    BY <2>1, <2>2, <2>3, <2>4, <2>5, Zenon DEF LoopInv
<1>8. OwnLoop'
  BY <1>1, <1>2, ThreadsApart DEF IInv, OwnLoop, Serves
<1>9. PiecesInv'
  <2> SUFFICES ASSUME ~ raced', NEW c \in Client, Lives(c)'
               PROVE  InOrder(c, snd'[c], Buf(c)', rcv'[c], got'[c], sent'[c])
    BY Zenon DEF PiecesInv
  <2>1. ~ raced /\ Lives(c) /\ got' = got /\ sent' = sent /\ Server(c)' = Server(c)
    BY <1>1 DEF Lives, Server
  <2>2. /\ table[thr[t].fd] \in Client /\ Server(table[thr[t].fd]) = t
        /\ Server(c) \in Thread
    BY <2>1, OwnBuf, ThreadsApart DEF Server
  <2>3. CASE c = table[thr[t].fd]
    <3>1. Buf(c)' = r.buf
      BY <1>1, <1>2, <2>1, <2>2, <2>3 DEF Buf, Serves
    <3>2. InOrder(c, snd'[c], r.buf, rcv'[c], got[c], sent[c])
      BY <2>1, <2>3
    <3> QED
      BY <2>1, <3>1, <3>2, Zenon
  <2>4. CASE c # table[thr[t].fd]
    <3>1. snd'[c] = snd[c] /\ rcv'[c] = rcv[c]
      BY <2>1, <2>4
    <3>2. Buf(c)' = Buf(c)
      <4>1. CASE Server(c) = t
        BY <1>1, <1>2, <2>1, <2>4, <4>1 DEF Buf, Serves
      <4>2. CASE Server(c) # t
        <5>1. thr'[Server(c)] = thr[Server(c)]
          BY <1>2, <2>2, <4>2
        <5> QED
          BY <1>1, <5>1, BufKept
      <4> QED
        BY <4>1, <4>2
    <3>3. InOrder(c, snd[c], Buf(c), rcv[c], got[c], sent[c])
      BY <2>1 DEF IInv, PiecesInv
    <3> QED
      BY <2>1, <3>1, <3>2, <3>3, Zenon
  <2> QED
    BY <2>3, <2>4
<1> QED
  BY <1>3, <1>4, <1>6, <1>7, <1>8, <1>9 DEF IInv

LEMMA Connected ==
    ASSUME IInv, NEW t \in Thread, Serves(t), table[thr[t].fd] # None
    PROVE  thr[t].fd \in Fd /\ table[thr[t].fd] \in Client /\ thr[t] \in Loop
BY DEF IInv, LoopInv, TypeOK

LEMMA Parts ==
    ASSUME NEW q \in Seq(Bit), NEW n \in 1 .. Len(q)
    PROVE  SubSeq(q, 1, n) \in Seq(Bit) /\ SubSeq(q, n + 1, Len(q)) \in Seq(Bit)
OBVIOUS

LEMMA Reads == ASSUME IInv, NEW t \in Thread, Read(t) PROVE IInv'
<1> DEFINE d == table[thr[t].fd]
<1>1. Serves(t) /\ d \in Client /\ thr[t] \in Loop /\ thr[t].buf = <<>>
  BY Connected DEF Read, Serves, IInv, LoopInv
<1>2. PICK n \in 1..Bytes :
         /\ SockRead(d, n)
         /\ thr' = [thr EXCEPT ![t].pc = "write", ![t].buf = SubSeq(rcv[d], 1, n)]
  BY Zenon DEF Read
<1>3. n \in 1 .. Len(rcv[d]) /\ rcv[d] \in Seq(Bit) /\ snd[d] \in Seq(Bit)
  BY <1>1, <1>2, BufTypes DEF SockRead
<1> DEFINE b == SubSeq(rcv[d], 1, n)
           e == SubSeq(rcv[d], n + 1, Len(rcv[d]))
           r == [thr[t] EXCEPT !.pc = "write", !.buf = b]
<1>4. b \in Seq(Bit) /\ e \in Seq(Bit)
  BY <1>3, Parts
<1>5. thr' = [thr EXCEPT ![t] = r] /\ rcv' = [rcv EXCEPT ![d] = e]
  BY <1>2, Zenon DEF SockRead
<1>6. UNCHANGED <<ends, shut, snd, prog, main, sfd_client, newest, table, rfd, tfd, clientVars,
                  raced>>
  BY <1>2 DEF Read, SockRead, mainVars, sets
<1>7. ~ raced => \A c \in Client : Lives(c) =>
          IF c = d THEN InOrder(c, snd'[c], b, rcv'[c], got[c], sent[c])
                   ELSE snd'[c] = snd[c] /\ rcv'[c] = rcv[c]
  <2> SUFFICES ASSUME ~ raced, NEW c \in Client, Lives(c)
               PROVE  IF c = d THEN InOrder(c, snd'[c], b, rcv'[c], got[c], sent[c])
                               ELSE snd'[c] = snd[c] /\ rcv'[c] = rcv[c]
    OBVIOUS
  <2> HIDE DEF b, e, d
  <2>1. InOrder(c, snd[c], Buf(c), rcv[c], got[c], sent[c]) /\ got[c] \in Nat
    BY DEF IInv, PiecesInv, TypeOK
  <2>2. ASSUME c = d PROVE InOrder(c, snd'[c], b, rcv'[c], got[c], sent[c])
    <3>1. Buf(c) = <<>>
      BY <1>1, <2>2, OwnBuf DEF d
    <3>2. InOrder(c, snd[c], b, e, got[c], sent[c])
      BY <1>3, <2>1, <2>2, <3>1, ReadPieces DEF b, e
    <3>3. snd'[c] = snd[c] /\ rcv'[c] = e
      BY <1>5, <1>6, <2>2 DEF IInv, Streams
    <3> QED
      BY <3>2, <3>3, Zenon
  <2>3. ASSUME c # d PROVE snd'[c] = snd[c] /\ rcv'[c] = rcv[c]
    BY <1>5, <1>6, <2>3 DEF IInv, Streams
  <2> QED
    BY <2>2, <2>3
<1>8. r \in Loop /\ r.pc = "write" /\ r.fd = thr[t].fd /\ r.buf = b
  <2> HIDE DEF b
  <2> QED
    BY <1>1, <1>4 DEF Loop
<1>9. /\ snd' \in [Client -> Seq(Bit)] /\ rcv' \in [Client -> Seq(Bit)] /\ tfd' \subseteq rfd
  <2> HIDE DEF e, d
  <2> QED
    BY <1>4, <1>5, <1>6 DEF IInv, Streams, TypeOK
<1> HIDE DEF r, b, e
<1> QED
  BY <1>1, <1>5, <1>6, <1>7, <1>8, <1>9, LoopStep

LEMMA Writes == ASSUME IInv, NEW t \in Thread, Write(t) PROVE IInv'
<1> DEFINE d == table[thr[t].fd]
           b == thr[t].buf
           new == IF d \in shut THEN snd[d] ELSE snd[d] \o b
<1>1. Serves(t) /\ d \in Client /\ thr[t] \in Loop /\ thr[t].pc = "write" /\ Continue(t)
  BY Connected DEF Write, Serves
<1>2. snd' = [snd EXCEPT ![d] = new]
  BY Zenon DEF Write, SockWrite
<1>3. UNCHANGED <<ends, shut, rcv, prog, sfd_client, newest, table, rfd, clientVars, raced>>
  BY DEF Write, SockWrite
<1>4. b \in Seq(Bit) /\ snd[d] \in Seq(Bit) /\ rcv[d] \in Seq(Bit)
  BY <1>1, BufTypes DEF Loop
<1>5. new \in Seq(Bit)
  BY <1>4, Joined
<1>6. PICK r \in Loop : /\ thr' = [thr EXCEPT ![t] = r] /\ r.buf = <<>>
                        /\ \/ r.pc = "none" /\ main' = "scan"
                           \/ r.pc = "read" /\ r.fd = thr[t].fd /\ main' = main
  BY <1>1, Continues
<1>7. tfd' \subseteq rfd /\ (r.pc = "none" => t = Main)
  <2>1. thr'[t] = r
    BY <1>6 DEF IInv, TypeOK
  <2> QED
    BY <1>1, <2>1, Continues
<1>8. ~ raced => \A c \in Client : Lives(c) =>
          IF c = d THEN InOrder(c, snd'[c], r.buf, rcv'[c], got[c], sent[c])
                   ELSE snd'[c] = snd[c] /\ rcv'[c] = rcv[c]
  <2> SUFFICES ASSUME ~ raced, NEW c \in Client, Lives(c)
               PROVE  IF c = d THEN InOrder(c, snd'[c], r.buf, rcv'[c], got[c], sent[c])
                               ELSE snd'[c] = snd[c] /\ rcv'[c] = rcv[c]
    OBVIOUS
  <2>1. InOrder(c, snd[c], Buf(c), rcv[c], got[c], sent[c]) /\ got[c] \in Nat
    BY DEF IInv, PiecesInv, TypeOK
  <2> HIDE DEF d, b
  <2>2. ASSUME c = d PROVE InOrder(c, snd'[c], r.buf, rcv'[c], got[c], sent[c])
    <3>1. Buf(c) = b
      BY <1>1, <2>2, OwnBuf DEF d, b
    <3>2. InOrder(c, snd[c] \o b, <<>>, rcv[c], got[c], sent[c])
      BY <1>4, <2>1, <2>2, <3>1, WritePieces
    <3>3. snd'[c] = snd[c] \o b /\ rcv'[c] = rcv[c]
      BY <1>2, <1>3, <2>2 DEF IInv, Streams, Lives
    <3> QED
      BY <1>6, <3>2, <3>3, Zenon
  <2>3. ASSUME c # d PROVE snd'[c] = snd[c] /\ rcv'[c] = rcv[c]
    BY <1>2, <1>3, <2>3 DEF IInv, Streams
  <2> QED
    BY <2>2, <2>3
<1> HIDE DEF new
<1>9. snd' \in [Client -> Seq(Bit)] /\ rcv' \in [Client -> Seq(Bit)]
  BY <1>2, <1>3, <1>5 DEF IInv, Streams
<1> QED
  BY <1>1, <1>3, <1>6, <1>7, <1>8, <1>9, LoopStep

LEMMA WritesClosed == ASSUME IInv, NEW t \in Thread, WriteClosed(t) PROVE IInv'
<1>1. /\ Serves(t) /\ thr[t].pc = "write" /\ Continue(t) /\ table[thr[t].fd] = None
      /\ UNCHANGED <<sockVars, prog, sfd_client, newest, table, rfd, clientVars, raced>>
  BY DEF WriteClosed, Serves
<1>2. raced
  BY <1>1, OwnBuf, ThreadsApart
<1>3. PICK r \in Loop : /\ thr' = [thr EXCEPT ![t] = r] /\ r.buf = <<>>
                        /\ \/ r.pc = "none" /\ main' = "scan"
                           \/ r.pc = "read" /\ r.fd = thr[t].fd /\ main' = main
  BY <1>1, Continues
<1>4. tfd' \subseteq rfd /\ (r.pc = "none" => t = Main)
  <2>1. thr'[t] = r
    BY <1>3 DEF IInv, TypeOK
  <2> QED
    BY <1>1, <2>1, Continues
<1>5. /\ UNCHANGED <<ends, shut>> /\ snd' \in [Client -> Seq(Bit)]
      /\ rcv' \in [Client -> Seq(Bit)]
  BY <1>1 DEF sockVars, ends, IInv, Streams
<1> QED
  BY <1>1, <1>2, <1>3, <1>4, <1>5, LoopStep

(* The end of a loop: the descriptor is free for the next client.          *)
LEMMA Closes == ASSUME IInv, NEW t \in Thread, Close(t) PROVE IInv'
<1> DEFINE n == thr[t].fd
           d == table[n]
           r == IF t = Main THEN Idle ELSE [Idle EXCEPT !.pc = "off"]
<1> HIDE DEF n, d, r
<1>1. /\ Serves(t) /\ n \in Fd /\ thr[t].buf = <<>> /\ d \in Client \cup {None}
      /\ thr \in [Thread -> Loop] /\ table \in [Fd -> Client \cup {None}]
  BY DEF Close, Serves, IInv, LoopInv, TypeOK, n, d
<1>2. r \in Loop /\ r.pc \in {"none", "off"} /\ r.buf = <<>>
  <2>1. <<>> \in Seq(Bit)
    OBVIOUS
  <2> QED
    BY <2>1 DEF r, Idle, Loop
<1>3. /\ table' = [table EXCEPT ![n] = None] /\ thr' = [thr EXCEPT ![t] = r]
      /\ rfd' = rfd \ {n} /\ tfd' = tfd \ {n}
      /\ UNCHANGED <<prog, sfd_client, newest, sent, got, raced>>
      /\ main' = IF t # Main THEN main ELSE IF prog = "multi" THEN "scan" ELSE Top
  BY Zenon DEF Close, clientVars, n, r
<1>4. /\ d = None => UNCHANGED sockVars
      /\ d # None => AtEnd(d) /\ CloseConn(Main, d)
  BY DEF Close, n, d
<1>5. /\ SockTypeOK' /\ UNCHANGED <<shut, rcv, snd>> /\ QueueInv'
      /\ \A c \in Client : link[c] \in {"open", "over"} => link'[c] \in {"open", "over"}
      /\ \A c \in Client : link[c] = "over" => link'[c] = "over"
      /\ \A c \in Client \ {d} : link[c] = "open" /\ Main \in fds[c] =>
            link'[c] = "open" /\ Main \in fds'[c]
  <2>1. CASE d = None
    BY <1>4, <2>1 DEF sockVars, IInv, TypeOK, SockTypeOK, QueueInv
  <2>2. CASE d # None
    <3>1. d \in Client /\ CloseConn(Main, d) /\ SockTypeOK /\ QueueInv
      BY <1>1, <1>4, <2>2 DEF IInv, TypeOK
    <3> QED
      BY <3>1, CloseKeeps
  <2> QED
    BY <2>1, <2>2
<1>6. /\ table'[n] = None /\ \A m \in Fd : m # n => table'[m] = table[m]
      /\ thr'[t] = r /\ \A u \in Thread \ {t} : thr'[u] = thr[u]
      /\ thr' \in [Thread -> Loop] /\ table' \in [Fd -> Client \cup {None}]
  BY <1>1, <1>2, <1>3
<1>7. /\ t = Main => main' \in {"accept", "arm", "scan"}
      /\ t # Main => main' = main
  BY <1>3 DEF Top
<1>8. TypeOK' /\ Streams'
  <2>1. rfd' \subseteq {ServerFd} \cup (Fd \ Free') /\ tfd' \subseteq rfd'
    BY <1>3, <1>6 DEF IInv, TypeOK, Free
  <2> QED
    BY <1>3, <1>5, <1>6, <1>7, <2>1 DEF IInv, TypeOK, Streams
<1>9. TableInv'
  <2>1. \A m \in Fd : table'[m] # None => m # n /\ table'[m] = table[m] /\ table[m] # d
    BY <1>1, <1>6 DEF IInv, TableInv, d
  <2>2. \A m \in Fd : table'[m] # None =>
            link'[table'[m]] = "open" /\ Main \in fds'[table'[m]]
    BY <1>1, <1>5, <2>1 DEF IInv, TableInv
  <2> QED
    BY <2>1, <2>2 DEF IInv, TableInv
<1>10. t = Main => prog # "thread" /\ main = "serve"
  BY <1>1 DEF IInv, LoopInv
<1>11. ThreadInv'
  <2>1. \A c \in Client : Started(c)' => Started(c)
    BY <1>2, <1>6, ThreadsApart DEF Started
  <2>2. \A c \in Client : thr'[c].pc = "start" => thr[c].pc = "start"
    BY <1>2, <1>6, ThreadsApart
  <2>3. newest # None => newest \in Client
    BY DEF IInv, TypeOK
  <2> QED
    BY <1>3, <1>5, <1>7, <2>1, <2>2, <2>3 DEF IInv, ThreadInv
<1>12. LoopInv'
  <2>1. \A u \in Thread : Serves(u)' => u # t /\ Serves(u) /\ thr'[u] = thr[u]
    BY <1>2, <1>6 DEF Serves
  <2>2. \A u \in Thread : Serves(u)' => thr'[u].fd \in Fd
    BY <2>1 DEF IInv, LoopInv
  <2>3. \A u \in Thread : thr'[u].pc # "write" => thr'[u].buf = <<>>
    BY <1>2, <1>6 DEF IInv, LoopInv
  <2>4. thr'[Main].pc # "start"
    BY <1>2, <1>6, ThreadsApart DEF IInv, LoopInv
  <2>5. ~ Serves(Main)'
    <3>1. CASE t = Main
      BY <2>1, <3>1
    <3>2. CASE t # Main
      BY <1>1, <2>1, <3>2, ThreadsApart DEF IInv, LoopInv, ThreadInv, Started, Serves, Thread
    <3> QED
      BY <3>1, <3>2
  <2>6. prog' = "thread" => main' \in {"accept", "create", "off"}
    BY <1>3, <1>7, <1>10 DEF IInv, LoopInv
  <2> QED
    BY <2>2, <2>3, <2>4, <2>5, <2>6, Zenon DEF LoopInv
<1>13. ASSUME ~ raced, NEW u \in Thread, u # t, Serves(u)
       PROVE  thr'[u] = thr[u] /\ table'[thr[u].fd] = table[thr[u].fd]
  <2>1. /\ table[thr[u].fd] \in Client /\ thr[u].fd \in Fd /\ Server(table[thr[u].fd]) = u
        /\ table[n] \in Client /\ Server(table[n]) = t
    BY <1>1, <1>13, OwnBuf DEF n
  <2>2. thr[u].fd # n
    BY <1>13, <2>1
  <2> QED
    BY <1>6, <1>13, <2>1, <2>2
<1>14. OwnLoop'
  <2> SUFFICES ASSUME ~ raced', NEW c \in Client, Serves(c)'
               PROVE  table'[thr'[c].fd] = c
    BY Zenon DEF OwnLoop
  <2>1. c # t /\ Serves(c) /\ ~ raced /\ c \in Thread
    BY <1>2, <1>3, <1>6, ThreadsApart DEF Serves
  <2> QED
    BY <1>13, <2>1 DEF IInv, OwnLoop
<1>15. PiecesInv'
  <2> SUFFICES ASSUME ~ raced, NEW c \in Client, Lives(c)'
               PROVE  Lives(c) /\ Buf(c)' = Buf(c)
    BY <1>3, <1>5, PiecesKept DEF IInv
  <2>1. Lives(c)
    BY <1>5 DEF Lives
  <2>2. c # d
    BY <1>4, <1>5, ThreadsApart DEF Lives, AtEnd
  <2>3. Server(c) \in Thread /\ Server(c)' = Server(c)
    BY <1>3, ThreadsApart DEF Server
  <2>4. CASE Server(c) = t
    BY <1>1, <1>2, <1>6, <2>1, <2>2, <2>3, <2>4 DEF Buf, Serves, n, d
  <2>5. CASE Server(c) # t /\ Serves(Server(c))
    BY <1>3, <1>13, <2>1, <2>3, <2>5, BufKept
  <2>6. CASE Server(c) # t /\ ~ Serves(Server(c))
    BY <1>3, <1>6, <2>1, <2>3, <2>6, BufKept
  <2> QED
    BY <2>1, <2>4, <2>5, <2>6
<1> QED
  BY <1>5, <1>8, <1>9, <1>11, <1>12, <1>14, <1>15 DEF IInv
-----------------------------------------------------------------------------
LEMMA StepHolds == IInv /\ [Next]_vars => IInv'
<1> SUFFICES ASSUME IInv, [Next]_vars PROVE IInv'
  OBVIOUS
<1>1. CASE MainStep
  BY <1>1, Accepts, Creates, Waits, Serving DEF MainStep
<1>2. CASE MainFails
  BY <1>2, Ends DEF MainFails
<1>3. ASSUME NEW t \in Thread, Echo(t) PROVE IInv'
  <2>1. CASE SigPipe(t)
    BY <2>1, Ends DEF SigPipe
  <2> QED
    BY <1>3, <2>1, Reads, Writes, WritesClosed, Closes DEF Echo
<1>4. ASSUME NEW c \in Client, ThreadStart(c) \/ Send(c) \/ Receive(c) \/ ConnectStep(c)
      PROVE  IInv'
  BY <1>4, Starts, Sends, Receives, Connects
<1>5. CASE UNCHANGED vars
  <2>1. UNCHANGED <<lsn, queue, link, fds, shut, rcv, snd, prog, main, sfd_client, newest, table,
                    rfd, tfd, thr, sent, got, raced>>
    BY <1>5 DEF vars, sockVars, mainVars, sets, clientVars
  <2>2. TypeOK' /\ Streams' /\ QueueInv' /\ TableInv'
    BY <2>1 DEF IInv, TypeOK, SockTypeOK, Free, Streams, QueueInv, TableInv
  <2>3. ThreadInv' /\ LoopInv' /\ OwnLoop'
    BY <2>1 DEF IInv, ThreadInv, LoopInv, OwnLoop, Started, Serves
  <2>4. \A c \in Client : Buf(c)' = Buf(c) /\ (Lives(c)' <=> Lives(c))
    BY <2>1 DEF Buf, Serves, Server, Lives
  <2>5. PiecesInv'
    BY <2>1, <2>4, PiecesKept DEF IInv
  <2> QED
    BY <2>2, <2>3, <2>5 DEF IInv
<1> QED
  BY <1>1, <1>2, <1>3, <1>4, <1>5 DEF Next

THEOREM EchoInvariant == Spec => []IInv
BY InitHolds, StepHolds, PTL DEF Spec

(* Every variable has its type: the sets of select hold the listening      *)
(* socket and descriptors that are open, and accept always finds one.      *)
THEOREM EchoTypeOK == Spec => []TypeOK
<1>1. IInv => TypeOK
  BY DEF IInv
<1> QED
  BY <1>1, EchoInvariant, PTL

(* What the loops hold for a client is what its own loop holds.            *)
LEMMA HeldIs ==
    ASSUME IInv, ~ raced, NEW c \in Client
    PROVE  Held(c) = Buf(c)
<1>1. ASSUME NEW t \in Thread, thr[t].buf # <<>>, table[thr[t].fd] = c
      PROVE  t = Server(c) /\ thr[t].buf = Buf(c)
  <2>1. Serves(t)
    BY <1>1 DEF IInv, LoopInv, Serves
  <2> QED
    BY <1>1, <2>1, OwnBuf
<1>2. CASE \E t \in Thread : thr[t].buf # <<>> /\ table[thr[t].fd] = c
  <2> DEFINE u == CHOOSE t \in Thread : thr[t].buf # <<>> /\ table[thr[t].fd] = c
  <2>1. u \in Thread /\ thr[u].buf # <<>> /\ table[thr[u].fd] = c
    BY <1>2
  <2>2. Held(c) = thr[u].buf
    BY <1>2, Zenon DEF Held
  <2> HIDE DEF u
  <2> QED
    BY <1>1, <2>1, <2>2
<1>3. CASE ~ \E t \in Thread : thr[t].buf # <<>> /\ table[thr[t].fd] = c
  <2>1. Server(c) \in Thread
    BY ThreadsApart DEF Server
  <2>2. Buf(c) = <<>>
    BY <1>3, <2>1 DEF Buf
  <2> QED
    BY <1>3, <2>2 DEF Held
<1> QED
  BY <1>2, <1>3

(* Unless a thread has read another client's descriptor, every byte of a   *)
(* client that is still connected is there once and in order: on the way   *)
(* back, in the client's loop or on the way to the server.                 *)
THEOREM EchoWhole == Spec => []WholeEcho
<1>1. IInv => WholeEcho
  <2> SUFFICES ASSUME IInv, ~ raced, NEW c \in Client, CanSend(c)
               PROVE  snd[c] \o Held(c) \o rcv[c] =
                        [i \in 1..(sent[c] - got[c]) |-> <<c, got[c] + i>>]
    BY DEF WholeEcho
  <2>1. InOrder(c, snd[c], Buf(c), rcv[c], got[c], sent[c]) /\ got[c] \in Nat
    BY DEF CanSend, IInv, PiecesInv, Lives, TypeOK
  <2>2. Held(c) = Buf(c)
    BY HeldIs
  <2>3. Buf(c) \in Seq(Bit) /\ snd[c] \in Seq(Bit) /\ rcv[c] \in Seq(Bit)
    BY BufTypes
  <2>4. Numbered(snd[c] \o Buf(c) \o rcv[c], c, got[c], sent[c])
    BY <2>1, <2>3, WholePieces, Zenon
  <2> QED
    BY <2>2, <2>4, Zenon DEF Numbered
<1> QED
  BY <1>1, EchoInvariant, PTL
-----------------------------------------------------------------------------
(* What is on the way back stays in order also after the connection ended. *)
BackInv == raced \/ \A c \in Client : Bytewise(snd[c], c, got[c])

LEMMA BackStep == ASSUME IInv, IInv', BackInv, [Next]_vars PROVE BackInv'
<1>1. ASSUME UNCHANGED <<snd, got>>, raced => raced' PROVE BackInv'
  BY <1>1 DEF BackInv
<1>2. raced => raced'
  BY DEF Next, MainStep, AcceptServe, AcceptThread, CreateThread, Arm, SelectReady, SelectTimeout,
         ScanAccept, ScanServe, ScanDone, MainFails, ProcessEnds, Echo, Read, Write, WriteClosed,
         SigPipe, Close, ThreadStart, Send, Receive, ConnectStep, vars
<1>3. CASE MainStep \/ MainFails
  <2>1. UNCHANGED <<snd, got>>
    BY <1>3 DEF MainStep, AcceptServe, AcceptThread, CreateThread, Arm, SelectReady, SelectTimeout,
                ScanAccept, ScanServe, ScanDone, MainFails, ProcessEnds, Accepted, SockAccept,
                SockExit, Hold, sockVars, clientVars
  <2> QED
    BY <1>1, <1>2, <2>1
<1>4. ASSUME NEW t \in Thread, Echo(t) PROVE BackInv'
  <2>1. CASE Write(t)
    <3> DEFINE d == table[thr[t].fd]
    <3>1. Serves(t) /\ d # None /\ SockWrite(d, thr[t].buf) /\ UNCHANGED <<got, raced>>
      BY <2>1 DEF Write, Serves, clientVars
    <3>2. d \in Client /\ thr[t].fd \in Fd
      BY <3>1, Connected
    <3>3. link[d] = "open" /\ UNCHANGED <<link, shut>>
      BY <3>1, <3>2 DEF IInv, TableInv, SockWrite, ends
    <3>4. snd \in [Client -> Seq(Bit)]
      BY DEF IInv, Streams
    <3> HIDE DEF d
    <3>5. \A c \in Client : snd'[c] = snd[c] \/ (c = d /\ d \notin shut)
      BY <3>1, <3>2, <3>4 DEF SockWrite
    <3> SUFFICES ASSUME ~ raced', NEW c \in Client PROVE Bytewise(snd'[c], c, got'[c])
      BY Zenon DEF BackInv
    <3>6. CASE snd'[c] = snd[c]
      BY <3>1, <3>6 DEF BackInv
    <3>7. CASE c = d /\ d \notin shut
      <4>1. Lives(c)'
        BY <3>3, <3>7 DEF Lives
      <4> QED
        BY <4>1 DEF IInv, PiecesInv, InOrder
    <3> QED
      BY <3>5, <3>6, <3>7
  <2>2. CASE ~ Write(t)
    <3>1. UNCHANGED <<snd, got>>
      BY <1>4, <2>2 DEF Echo, Read, SockRead, WriteClosed, SigPipe, ProcessEnds, SockExit, Close,
                        CloseConn, Hold, sockVars, clientVars
    <3> QED
      BY <1>1, <1>2, <3>1
  <2> QED
    BY <2>1, <2>2
<1>5. ASSUME NEW c \in Client, ThreadStart(c) \/ Send(c) PROVE BackInv'
  <2>1. UNCHANGED <<snd, got>>
    BY <1>5 DEF ThreadStart, Send, ClientWrite, sockVars, clientVars
  <2> QED
    BY <1>1, <1>2, <2>1
<1>6. ASSUME NEW c \in Client, Receive(c) PROVE BackInv'
  <2> DEFINE a == snd[c]
             d == SubSeq(a, 1 + 1, Len(a))
  <2>1. a \in Seq(Bit) /\ 1 \in 1 .. Len(a) /\ got[c] \in Nat
    BY <1>6, BufTypes DEF Receive, ClientRead, IInv, TypeOK
  <2>2. snd' = [snd EXCEPT ![c] = d] /\ got' = [got EXCEPT ![c] = got[c] + 1] /\ raced' = raced
    BY <1>6, Zenon DEF Receive, ClientRead
  <2>3. ~ raced => Bytewise(a, c, got[c])
    BY DEF BackInv
  <2>4. ~ raced => Bytewise(d, c, got[c] + 1)
    BY <2>1, <2>3, ReceiveBytes
  <2> HIDE DEF d
  <2>5. /\ snd'[c] = d /\ got'[c] = got[c] + 1
        /\ \A e \in Client \ {c} : snd'[e] = snd[e] /\ got'[e] = got[e]
    BY <2>2 DEF IInv, Streams, TypeOK
  <2> SUFFICES ASSUME ~ raced', NEW e \in Client PROVE Bytewise(snd'[e], e, got'[e])
    BY Zenon DEF BackInv
  <2>6. CASE e = c
    BY <2>2, <2>4, <2>5, <2>6
  <2>7. CASE e # c
    BY <2>2, <2>5, <2>7 DEF BackInv
  <2> QED
    BY <2>6, <2>7
<1>7. ASSUME NEW c \in Client, ConnectStep(c) PROVE BackInv'
  <2>1. UNCHANGED <<got, raced>> /\ (snd' = snd \/ snd' = [snd EXCEPT ![c] = <<>>])
    BY <1>7 DEF ConnectStep, Connect, Refused, ClientClose, clientVars
  <2>2. \A e \in Client : snd'[e] = snd[e] \/ snd'[e] = <<>>
    BY <2>1 DEF IInv, Streams
  <2>3. \A e \in Client : Bytewise(<<>>, e, got[e])
    BY DEF Bytewise
  <2> QED
    BY <2>1, <2>2, <2>3 DEF BackInv
<1>8. CASE UNCHANGED vars
  BY <1>1, <1>2, <1>8 DEF vars, sockVars, clientVars
<1> QED
  BY <1>3, <1>4, <1>5, <1>6, <1>7, <1>8 DEF Next

(* "echo back" (tcp_server_bd.c and the others): unless a thread has read  *)
(* another client's descriptor, a client gets its bytes in order and once, *)
(* and nothing else, also what it reads after the server has ended.        *)
THEOREM EchoInOrder == Spec => [](raced \/ EchoBack)
<1>1. Init => BackInv
  BY DEF Init, SockInit, BackInv, Bytewise
<1>2. BackInv /\ IInv => (raced \/ EchoBack)
  <2> SUFFICES ASSUME IInv, ~ raced, BackInv, NEW c \in Client, NEW i \in DOMAIN snd[c]
               PROVE  snd[c][i] = <<c, got[c] + i>>
    BY DEF EchoBack
  <2>1. snd[c] \in Seq(Bit) /\ Bytewise(snd[c], c, got[c])
    BY DEF IInv, Streams, BackInv
  <2>2. i \in 1 .. Len(snd[c])
    BY <2>1
  <2> QED
    BY <2>1, <2>2 DEF Bytewise
<1>3. IInv /\ IInv' /\ BackInv /\ [Next]_vars => BackInv'
  BY BackStep
<1> QED
  BY <1>1, <1>2, <1>3, EchoInvariant, PTL DEF Spec

(* Only EX07-06 can race: the three programs without threads give every    *)
(* client its own bytes back whatever happens (the race is the address of  *)
(* sfd_client that thread_server_bd.c:105 passes).                         *)
THEOREM EchoAlone == Spec => [](prog # "thread" => WholeEcho /\ EchoBack /\ ~ raced)
<1> DEFINE Alone == raced => prog = "thread"
<1>1. Init => Alone
  BY DEF Init
<1>2. IInv /\ Alone /\ [Next]_vars => Alone'
  <2> SUFFICES ASSUME IInv, Alone, [Next]_vars PROVE Alone'
    OBVIOUS
  <2>1. prog' = prog
    BY DEF Next, MainStep, AcceptServe, AcceptThread, CreateThread, Arm, SelectReady,
           SelectTimeout, ScanAccept, ScanServe, ScanDone, MainFails, ProcessEnds, Echo, Read,
           Write, WriteClosed, SigPipe, Close, ThreadStart, Send, Receive, ConnectStep, vars
  <2>2. CASE \E c \in Client : ThreadStart(c)
    BY <2>1, <2>2 DEF ThreadStart, IInv, ThreadInv, Started
  <2>3. CASE ~ \E c \in Client : ThreadStart(c)
    <3>1. raced' = raced
      BY <2>3 DEF Next, MainStep, AcceptServe, AcceptThread, CreateThread, Arm, SelectReady,
             SelectTimeout, ScanAccept, ScanServe, ScanDone, MainFails, ProcessEnds, Echo, Read,
             Write, WriteClosed, SigPipe, Close, Send, Receive, ConnectStep, vars
    <3> QED
      BY <2>1, <3>1
  <2> QED
    BY <2>2, <2>3
<1>3. Alone /\ (raced \/ EchoBack) /\ WholeEcho /\ IInv =>
          (prog # "thread" => WholeEcho /\ EchoBack /\ ~ raced)
  OBVIOUS
<1> QED
  BY <1>1, <1>2, <1>3, EchoInvariant, EchoInOrder, EchoWhole, PTL DEF Spec
=============================================================================
