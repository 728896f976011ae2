-------------------------- MODULE SctpStreams_proof --------------------------
(***************************************************************************)
(* What holds of the streams of an association for every set of streams,   *)
(* every setting of them and every order of the packets: a stream that can *)
(* be read has a Readable event pending, a reset that stop() asked for has *)
(* its timer, and n_bytes is what the reassembly queue holds.              *)
(*                                                                         *)
(* A Readable event is reported where a chunk completes a set, so it must  *)
(* be shown that a queue becomes readable in no other way: that no chunk   *)
(* is in a queue twice (QueuesInv), and that reading, FORWARD-TSN and the  *)
(* other streams' chunks leave complete sets what they are.                *)
(***************************************************************************)
EXTENDS SctpStreams, FiniteSetTheorems, WellFoundedInduction, TLAPS

-----------------------------------------------------------------------------
(***************************************************************************)
(* The inductive invariant.                                                *)
(***************************************************************************)
\* What write_source and packetize fix for a message.
Message == [s : Streams, ssn : Nat, unordered : BOOLEAN, frags : Nat, pos : Nat,
            dcep : BOOLEAN, reliable : BOOLEAN]

\* A chunk of one of the first w messages, or a marker.
Chunk(w) == [m : 0 .. w, k : Nat, s : Streams]

\* A queue of chunks ends with the last fragment of a message.
EndsWhole(q) == q # <<>> => Ends(q[Len(q)])

\* The pending queue p: each chunk is in the queue of its kind, and the queue a
\* message is being sent from still has its next fragment.
PendingOK(p) ==
    /\ p \in [u : Seq(Chunk(Len(written))), o : Seq(Chunk(Len(written))),
              selected : BOOLEAN, unordered_is_selected : BOOLEAN]
    /\ \A i \in DOMAIN p.u : Unordered(p.u[i])
    /\ \A i \in DOMAIN p.o : ~Unordered(p.o[i])
    /\ EndsWhole(p.u) /\ EndsWhole(p.o)
    /\ p.selected /\ p.unordered_is_selected => p.u # <<>>
    /\ p.selected /\ ~p.unordered_is_selected => p.o # <<>>

\* The reassembly queues of chunks with TSNs in S.
Reassembly(S) ==
    [next : Nat, ordered : SUBSET [ssn : Nat, tsns : SUBSET S], unordered : Seq(SUBSET S),
     chunks : SUBSET S, flag : BOOLEAN, readable : BOOLEAN, bytes : Int]

\* The chunks in the ordered sets of r, and in its complete unordered sets.
InOrdered(r) == UNION {c.tsns : c \in r.ordered}
InUnordered(r) == UNION Range(r.unordered)

\* No chunk is twice in a reassembly queue, and n_bytes counts each of them.
Disjoint(r) ==
    /\ \A c, d \in r.ordered : c # d => c.tsns \cap d.tsns = {}
    /\ \A i, j \in DOMAIN r.unordered : i # j => r.unordered[i] \cap r.unordered[j] = {}
    /\ r.chunks \cap InUnordered(r) = {}

Counted(r) ==
    r.bytes = Cardinality(r.chunks) + Cardinality(InOrdered(r)) + Cardinality(InUnordered(r))

\* A reassembly queue of chunks that are all in S.
QueueOK(r, S) == r \in Reassembly(S) /\ Disjoint(r) /\ Counted(r)

\* The chunks side B has acknowledged, cumulatively or by gap blocks.
Received == {t \in TSNs : t <= last_tsn \/ t \in queue}

\* The types of what the other conjuncts depend on.
TypeInv ==
    /\ config \in Configs
    /\ registered \subseteq DOMAIN config.stream
    /\ ssn \in [Streams -> Nat]
    /\ written \in Seq(Message)
    /\ sent \in [Streams -> Seq([ordered : BOOLEAN, reliable : BOOLEAN])]
    /\ PendingOK(pending)
    /\ tsn \in Seq([m : 1 .. Len(written), k : Nat, s : Streams])
    /\ advanced \in Nat
    /\ forwards \subseteq [cum : Nat, ssns : SUBSET (Streams \X Nat)]
    /\ last_tsn \in 0 .. Len(tsn) /\ queue \subseteq TSNs
    /\ live \subseteq Streams
    /\ DOMAIN rcv = Streams

\* Side B's queues hold acknowledged chunks only, each of them once.
QueuesInv == \A s \in Streams : QueueOK(rcv[s], Received)

\* The inductive invariant: what NeverStuck says, and the facts it needs, that a
\* chunk handle_data accepts is in no queue yet and that a message once begun is whole
\* in the pending queue, and that the Reconfig timer runs for a request only.
TimerInv == ResetArmed /\ (t_reconfig => reconfigs # {})
StreamsInv == TypeInv /\ QueuesInv /\ NoLostWakeup /\ TimerInv

-----------------------------------------------------------------------------
(***************************************************************************)
(* Induction over the natural numbers, for sets.                           *)
(***************************************************************************)

\* A set of natural numbers that is not empty has a least element.
LEMMA Least ==
    ASSUME NEW T \in SUBSET Nat, T # {}
    PROVE  \E x \in T : \A y \in T : x <= y
<1>. DEFINE R == OpToRel(<, Nat)
<1>1. IsWellFoundedOn(R, Nat)
  BY NatLessThanWellFounded
<1>2. \A y, x \in Nat : y < x => <<y, x>> \in R
  BY DEF OpToRel
<1>. HIDE DEF R
<1>3. PICK x \in T : \A y \in T : ~ (<<y, x>> \in R)
  BY <1>1, WFMin, Zenon
<1>4. ASSUME NEW y \in T PROVE x <= y
  <2>1. x \in Nat /\ y \in Nat
    BY Zenon
  <2>2. ~(y < x)
    BY <1>2, <1>3, <2>1, Zenon
  <2>. QED BY <2>1, <2>2
<1>. QED BY <1>4, Zenon

\* Induction over a set.
LEMMA SetInduction ==
    ASSUME NEW S \in SUBSET Nat, 0 \in S, \A n \in S : n + 1 \in S
    PROVE  S = Nat
<1>. SUFFICES ASSUME NEW n \in Nat, n \notin S PROVE FALSE
  BY Zenon
<1>. DEFINE T == Nat \ S
<1>1. T \in SUBSET Nat /\ T # {}
  BY Zenon
<1>. HIDE DEF T
<1>2. PICK x \in T : \A y \in T : x <= y
  BY <1>1, Least, Zenon
<1>3. x \in Nat /\ x \notin S /\ x # 0
  BY <1>2 DEF T
<1>4. x - 1 \in Nat /\ x - 1 \notin T
  BY <1>1, <1>2, <1>3
<1>5. x - 1 \in S
  BY <1>4 DEF T
<1>. QED BY <1>3, <1>5

\* A part of an interval of TSNs has a first and a last one.
LEMMA MinMax ==
    ASSUME NEW N \in Nat, NEW S \in SUBSET (1 .. N), S # {}
    PROVE  /\ Min(S) \in S /\ \A y \in S : Min(S) <= y
           /\ Max(S) \in S /\ \A y \in S : Max(S) >= y
<1>1. S \in SUBSET Nat
  OBVIOUS
<1>2. \E x \in S : \A y \in S : x <= y
  BY <1>1, Least, Zenon
<1>. DEFINE T == {N - x : x \in S}
<1>3. T \in SUBSET Nat /\ T # {}
  <2>1. \A x \in S : N - x \in Nat
    OBVIOUS
  <2>. QED BY <2>1, Zenon
<1>. HIDE DEF T
<1>4. PICK z \in T : \A y \in T : z <= y
  BY <1>3, Least, Zenon
<1>5. PICK x \in S : z = N - x
  BY DEF T
<1>6. \A y \in S : N - x <= N - y
  BY <1>4, <1>5 DEF T
<1>7. \A y \in S : x >= y
  BY <1>6
<1>. QED BY <1>2, <1>7, Zenon DEF Min, Max

\* A set of TSNs is finite and has a natural cardinality.
LEMMA TsnsFinite ==
    ASSUME NEW N \in Nat, NEW S, S \subseteq 1 .. N
    PROVE  IsFiniteSet(S) /\ Cardinality(S) \in Nat
<1>1. IsFiniteSet(1 .. N)
  BY FS_Interval
<1>2. IsFiniteSet(S)
  BY <1>1, FS_Subset, Zenon
<1>. QED BY <1>2, FS_CardinalityType, Zenon

-----------------------------------------------------------------------------
(***************************************************************************)
(* The pending queue.                                                      *)
(***************************************************************************)

\* The loop of pop_pending_data_chunks_to_send after some turns.
Walk(w) ==
    /\ DOMAIN w = {"p", "out", "sis"} /\ w = [p |-> w.p, out |-> w.out, sis |-> w.sis]
    /\ PendingOK(w.p)
    /\ w.out \in Seq([m : 1 .. Len(written), k : Nat, s : Streams])

\* peek returns a chunk of the queue it belongs to.
LEMMA PeekFirst ==
    ASSUME NEW p, PendingOK(p), p.u \o p.o # <<>>
    PROVE  /\ Unordered(Peek(p)) => p.u # <<>> /\ Peek(p) = Head(p.u)
           /\ ~Unordered(Peek(p)) => p.o # <<>> /\ Peek(p) = Head(p.o)
<1>1. p.u # <<>> \/ p.o # <<>>
  BY DEF PendingOK
<1>2. p.u # <<>> => Head(p.u) = p.u[1] /\ 1 \in DOMAIN p.u
  BY DEF PendingOK
<1>3. p.o # <<>> => Head(p.o) = p.o[1] /\ 1 \in DOMAIN p.o
  BY DEF PendingOK
<1>4. p.u # <<>> => Unordered(Head(p.u))
  BY <1>2, Zenon DEF PendingOK
<1>5. p.o # <<>> => ~Unordered(Head(p.o))
  BY <1>3, Zenon DEF PendingOK
<1>6. CASE p.selected /\ p.unordered_is_selected
  <2>1. Peek(p) = Head(p.u) /\ p.u # <<>>
    BY <1>6, Zenon DEF Peek, PendingOK
  <2>. QED BY <2>1, <1>4, Zenon
<1>7. CASE p.selected /\ ~p.unordered_is_selected
  <2>1. Peek(p) = Head(p.o) /\ p.o # <<>>
    BY <1>7, Zenon DEF Peek, PendingOK
  <2>. QED BY <2>1, <1>5, Zenon
<1>8. CASE ~p.selected /\ p.u # <<>>
  <2>1. Peek(p) = Head(p.u)
    BY <1>8, Zenon DEF Peek
  <2>. QED BY <2>1, <1>4, <1>8, Zenon
<1>9. CASE ~p.selected /\ p.u = <<>>
  <2>1. Peek(p) = Head(p.o) /\ p.o # <<>>
    BY <1>9, <1>1, Zenon DEF Peek
  <2>. QED BY <2>1, <1>5, Zenon
<1>. QED BY <1>6, <1>7, <1>8, <1>9, Zenon

\* What is behind the first chunk of a queue.
LEMMA TailQueue ==
    ASSUME NEW C, NEW q \in Seq(C), q # <<>>, EndsWhole(q)
    PROVE  /\ Head(q) \in C /\ Tail(q) \in Seq(C) /\ EndsWhole(Tail(q))
           /\ \A i \in DOMAIN Tail(q) : i + 1 \in DOMAIN q /\ Tail(q)[i] = q[i + 1]
           /\ ~Ends(Head(q)) => Tail(q) # <<>>
<1>1. /\ Head(q) \in C /\ Tail(q) \in Seq(C) /\ Head(q) = q[1]
      /\ \A i \in DOMAIN Tail(q) : i + 1 \in DOMAIN q /\ Tail(q)[i] = q[i + 1]
  OBVIOUS
<1>2. Ends(q[Len(q)])
  BY Zenon DEF EndsWhole
<1>3. Tail(q) # <<>> => Tail(q)[Len(Tail(q))] = q[Len(q)]
  OBVIOUS
<1>4. Tail(q) = <<>> => q[Len(q)] = q[1]
  <2>1. Len(Tail(q)) = Len(q) - 1 /\ Len(q) \in Nat
    OBVIOUS
  <2>2. Tail(q) = <<>> => Len(q) = 1
    BY <2>1
  <2>. QED BY <2>2, Zenon
<1>. QED BY <1>1, <1>2, <1>3, <1>4, Zenon DEF EndsWhole

\* pop leaves a pending queue.
LEMMA PopOK ==
    ASSUME NEW p, PendingOK(p), p.u \o p.o # <<>>
    PROVE  PendingOK(Pop(p, Peek(p))) /\ Peek(p) \in Chunk(Len(written))
<1>. DEFINE c == Peek(p)  C == Chunk(Len(written))  q == Pop(p, c)
<1>1. /\ p.u \in Seq(C) /\ p.o \in Seq(C) /\ EndsWhole(p.u) /\ EndsWhole(p.o)
      /\ p.selected \in BOOLEAN /\ p.unordered_is_selected \in BOOLEAN
  BY DEF PendingOK
<1>2. /\ \A i \in DOMAIN p.u : Unordered(p.u[i])
      /\ \A i \in DOMAIN p.o : ~Unordered(p.o[i])
      /\ p.selected /\ p.unordered_is_selected => p.u # <<>>
      /\ p.selected /\ ~p.unordered_is_selected => p.o # <<>>
  BY Zenon DEF PendingOK
<1>3. /\ Unordered(c) => p.u # <<>> /\ c = Head(p.u)
      /\ ~Unordered(c) => p.o # <<>> /\ c = Head(p.o)
  BY PeekFirst, Zenon
<1>4. q.selected = ~Ends(c) /\ q.selected \in BOOLEAN
  BY DEF Pop
<1>5. /\ p.selected \/ Ends(c) => q.unordered_is_selected = p.unordered_is_selected
      /\ ~(p.selected \/ Ends(c)) => q.unordered_is_selected = Unordered(c)
  BY DEF Pop
<1>6. /\ Unordered(c) => q.u = Tail(p.u) /\ q.o = p.o
      /\ ~Unordered(c) => q.u = p.u /\ q.o = Tail(p.o)
  BY DEF Pop
<1>7. q = [u |-> q.u, o |-> q.o, selected |-> q.selected,
           unordered_is_selected |-> q.unordered_is_selected]
  BY DEF Pop
<1>8. Unordered(c) \in BOOLEAN
  BY DEF Unordered
<1>9. p.selected => (p.unordered_is_selected <=> Unordered(c))
  <2>1. CASE p.selected /\ p.unordered_is_selected
    <3>1. c = p.u[1] /\ 1 \in DOMAIN p.u
      <4>1. c = Head(p.u) /\ p.u # <<>>
        BY <2>1, <1>2, Zenon DEF Peek
      <4>. QED BY <4>1, <1>1
    <3>. QED BY <3>1, <2>1, <1>2, Zenon
  <2>2. CASE p.selected /\ ~p.unordered_is_selected
    <3>1. c = p.o[1] /\ 1 \in DOMAIN p.o
      <4>1. c = Head(p.o) /\ p.o # <<>>
        BY <2>2, <1>2, Zenon DEF Peek
      <4>. QED BY <4>1, <1>1
    <3>. QED BY <3>1, <2>2, <1>2, Zenon
  <2>. QED BY <2>1, <2>2, Zenon
<1>. HIDE DEF c, C, q
<1>10. CASE Unordered(c)
  <2>1. /\ c \in C /\ q.u \in Seq(C) /\ EndsWhole(q.u) /\ (~Ends(c) => q.u # <<>>)
        /\ \A i \in DOMAIN q.u : i + 1 \in DOMAIN p.u /\ q.u[i] = p.u[i + 1]
    <3>1. p.u # <<>> /\ c = Head(p.u) /\ q.u = Tail(p.u)
      BY <1>3, <1>6, <1>10, Zenon
    <3>. QED BY <1>1, <3>1, TailQueue, Zenon
  <2>2. \A i \in DOMAIN q.u : Unordered(q.u[i])
    BY <2>1, <1>2, Zenon
  <2>3. q.o \in Seq(C) /\ EndsWhole(q.o) /\ \A i \in DOMAIN q.o : ~Unordered(q.o[i])
    BY <1>1, <1>2, <1>6, <1>10, Zenon
  <2>4. q.unordered_is_selected \in BOOLEAN /\ (q.selected => q.unordered_is_selected)
    BY <1>1, <1>4, <1>5, <1>8, <1>9, <1>10, Zenon
  <2>5. q \in [u : Seq(C), o : Seq(C), selected : BOOLEAN, unordered_is_selected : BOOLEAN]
    BY <1>4, <1>7, <2>1, <2>3, <2>4
  <2>6. q.selected => q.u # <<>>
    BY <1>4, <2>1, Zenon
  <2>. QED BY <2>1, <2>2, <2>3, <2>4, <2>5, <2>6, Zenon DEF PendingOK, c, C, q
<1>11. CASE ~Unordered(c)
  <2>1. /\ c \in C /\ q.o \in Seq(C) /\ EndsWhole(q.o) /\ (~Ends(c) => q.o # <<>>)
        /\ \A i \in DOMAIN q.o : i + 1 \in DOMAIN p.o /\ q.o[i] = p.o[i + 1]
    <3>1. p.o # <<>> /\ c = Head(p.o) /\ q.o = Tail(p.o)
      BY <1>3, <1>6, <1>11, Zenon
    <3>. QED BY <1>1, <3>1, TailQueue, Zenon
  <2>2. \A i \in DOMAIN q.o : ~Unordered(q.o[i])
    BY <2>1, <1>2, Zenon
  <2>3. q.u \in Seq(C) /\ EndsWhole(q.u) /\ \A i \in DOMAIN q.u : Unordered(q.u[i])
    BY <1>1, <1>2, <1>6, <1>11, Zenon
  <2>4. q.unordered_is_selected \in BOOLEAN /\ (q.selected => ~q.unordered_is_selected)
    BY <1>1, <1>4, <1>5, <1>8, <1>9, <1>11, Zenon
  <2>5. q \in [u : Seq(C), o : Seq(C), selected : BOOLEAN, unordered_is_selected : BOOLEAN]
    BY <1>4, <1>7, <2>1, <2>3, <2>4
  <2>6. q.selected => q.o # <<>>
    BY <1>4, <2>1, Zenon
  <2>. QED BY <2>1, <2>2, <2>3, <2>4, <2>5, <2>6, Zenon DEF PendingOK, c, C, q
<1>. QED BY <1>10, <1>11, Zenon

\* A turn of the loop keeps the queue, and takes no marker for data.
LEMMA TurnWalk ==
    ASSUME NEW w, Walk(w), NEW n
    PROVE  Walk(Turn(w, n))
<1>. DEFINE c == Peek(w.p)  q == Pop(w.p, c)  D == [m : 1 .. Len(written), k : Nat, s : Streams]
<1>1. CASE w.p.u \o w.p.o = <<>>
  <2>1. Turn(w, n) = w
    BY <1>1, Zenon DEF Turn
  <2>. QED BY <2>1, Zenon
<1>2. CASE w.p.u \o w.p.o # <<>>
  <2>1. PendingOK(q) /\ c \in Chunk(Len(written))
    BY <1>2, PopOK, Zenon DEF Walk
  <2>2. /\ DOMAIN w = {"p", "out", "sis"} /\ w = [p |-> w.p, out |-> w.out, sis |-> w.sis]
        /\ w.out \in Seq(D)
    BY Zenon DEF Walk
  <2>. HIDE DEF c, q, D
  <2>3. CASE c.m = 0
    <3>1. Turn(w, n) = [w EXCEPT !.p = q, !.sis = @ \cup {c.s}]
      BY <1>2, <2>3, Zenon DEF Turn, c, q
    <3>2. Turn(w, n) = [p |-> q, out |-> w.out, sis |-> w.sis \cup {c.s}]
      BY <3>1, <2>2
    <3>. QED BY <3>2, <2>1, <2>2 DEF Walk, D
  <2>4. CASE c.m # 0 /\ Len(w.out) < n
    <3>1. Turn(w, n) = [w EXCEPT !.p = q, !.out = Append(@, c)]
      BY <1>2, <2>4, Zenon DEF Turn, c, q
    <3>2. Turn(w, n) = [p |-> q, out |-> Append(w.out, c), sis |-> w.sis]
      BY <3>1, <2>2
    <3>3. c \in D
      BY <2>1, <2>4 DEF Chunk, D
    <3>4. Append(w.out, c) \in Seq(D)
      BY <2>2, <3>3
    <3>. QED BY <3>2, <3>4, <2>1 DEF Walk, D
  <2>5. CASE c.m # 0 /\ ~(Len(w.out) < n)
    <3>1. Turn(w, n) = w
      BY <1>2, <2>5, Zenon DEF Turn, c
    <3>. QED BY <3>1, Zenon
  <2>. QED BY <2>3, <2>4, <2>5, Zenon
<1>. QED BY <1>1, <1>2, Zenon

\* The loop ends with a pending queue and with chunks of messages.
LEMMA PoppedWalk ==
    ASSUME PendingOK(pending), NEW n
    PROVE  Walk(Popped(n))
<1>. DEFINE N == Len(pending.u) + Len(pending.o)
            W0 == [p |-> pending, out |-> <<>>, sis |-> {}]
            Take(f, i) == IF i = 0 THEN W0 ELSE Turn(f[i - 1], n)
            S == {k \in Nat : \E f : f = [i \in 0 .. k |-> Take(f, i)]}
<1>1. N \in Nat
  BY DEF PendingOK
<1>2. Walk(W0)
  BY DEF Walk
<1>. HIDE DEF W0, N
<1>3. 0 \in S
  <2>. DEFINE f == [i \in 0 .. 0 |-> W0]
  <2>1. f = [i \in 0 .. 0 |-> Take(f, i)]
    OBVIOUS
  <2>. QED BY <2>1
<1>4. \A k \in S : k + 1 \in S
  <2>. SUFFICES ASSUME NEW k \in Nat, NEW f, f = [i \in 0 .. k |-> Take(f, i)]
                PROVE  k + 1 \in S
    OBVIOUS
  <2>. DEFINE g == [i \in 0 .. k + 1 |-> IF i <= k THEN f[i] ELSE Turn(f[k], n)]
  <2>1. ASSUME NEW i \in 0 .. k + 1 PROVE g[i] = Take(g, i)
    <3>1. CASE i = 0
      BY <3>1
    <3>2. CASE i # 0 /\ i <= k
      <4>1. g[i] = f[i] /\ i - 1 \in 0 .. k + 1 /\ g[i - 1] = f[i - 1]
        BY <3>2
      <4>2. i \in 0 .. k
        BY <3>2
      <4>3. f[i] = Take(f, i)
        BY <4>2, Zenon
      <4>. QED BY <4>1, <4>3, <3>2, Zenon
    <3>3. CASE i = k + 1
      <4>1. g[i] = Turn(f[k], n) /\ g[i - 1] = f[k]
        BY <3>3
      <4>. QED BY <4>1, <3>3
    <3>. QED BY <3>1, <3>2, <3>3
  <2>2. g = [i \in 0 .. k + 1 |-> Take(g, i)]
    BY <2>1, Zenon
  <2>. HIDE DEF g
  <2>. QED BY <2>2
<1>5. S = Nat
  <2>1. S \in SUBSET Nat
    OBVIOUS
  <2>. HIDE DEF S
  <2>. QED BY <1>3, <1>4, <2>1, SetInduction, Zenon
<1>. DEFINE take == CHOOSE f : f = [i \in 0 .. N |-> Take(f, i)]
<1>6. take = [i \in 0 .. N |-> Take(take, i)]
  <2>1. \E f : f = [i \in 0 .. N |-> Take(f, i)]
    BY <1>1, <1>5, Zenon
  <2>. QED BY <2>1, Zenon
<1>7. Popped(n) = take[N]
  BY Zenon DEF Popped, N, W0
<1>. HIDE DEF take
<1>. DEFINE V == {k \in Nat : k <= N => Walk(take[k])}
<1>8. 0 \in V
  <2>1. 0 \in 0 .. N
    BY <1>1
  <2>2. take[0] = W0
    BY <1>6, <2>1, Zenon
  <2>. QED BY <2>2, <1>2
<1>9. \A k \in V : k + 1 \in V
  <2>. SUFFICES ASSUME NEW k \in Nat, k + 1 <= N, k <= N => Walk(take[k])
                PROVE  Walk(take[k + 1])
    OBVIOUS
  <2>1. k + 1 \in 0 .. N /\ k + 1 # 0 /\ (k + 1) - 1 = k /\ k <= N
    BY <1>1
  <2>2. take[k + 1] = Turn(take[k], n)
    BY <1>6, <2>1, Zenon
  <2>. QED BY <2>1, <2>2, TurnWalk, Zenon
<1>10. N \in V
  <2>1. V \in SUBSET Nat
    OBVIOUS
  <2>. HIDE DEF V
  <2>. QED BY <1>1, <1>8, <1>9, <2>1, SetInduction, Zenon
<1>11. N <= N
  BY <1>1
<1>. QED BY <1>7, <1>10, <1>11, Zenon

-----------------------------------------------------------------------------
(***************************************************************************)
(* The reassembly queue.                                                   *)
(***************************************************************************)

\* Sets of TSNs that share none.
LEMMA DisjointCardinality ==
    ASSUME NEW N \in Nat, NEW A \in SUBSET (1 .. N), NEW B \in SUBSET (1 .. N), A \cap B = {}
    PROVE  /\ Cardinality(A) \in Nat /\ Cardinality(B) \in Nat
           /\ Cardinality(A \cup B) = Cardinality(A) + Cardinality(B)
<1>1. /\ IsFiniteSet(A) /\ Cardinality(A) \in Nat
      /\ IsFiniteSet(B) /\ Cardinality(B) \in Nat
  BY TsnsFinite, Zenon
<1>2. Cardinality(A \cup B) = Cardinality(A) + Cardinality(B) - Cardinality(A \cap B)
  BY <1>1, FS_Union, Zenon
<1>3. Cardinality(A \cap B) = 0
  BY FS_EmptySet, Zenon
<1>. QED BY <1>1, <1>2, <1>3

\* One TSN more.
LEMMA OneMore ==
    ASSUME NEW N \in Nat, NEW A \in SUBSET (1 .. N), NEW t \in 1 .. N, t \notin A
    PROVE  Cardinality(A) \in Nat /\ Cardinality(A \cup {t}) = Cardinality(A) + 1
<1>1. IsFiniteSet(A) /\ Cardinality(A) \in Nat
  BY TsnsFinite, Zenon
<1>. QED BY <1>1, FS_AddElement, Zenon

\* The parts of a reassembly queue.
LEMMA Parts ==
    ASSUME NEW S, NEW r \in Reassembly(S)
    PROVE  /\ DOMAIN r = {"next", "ordered", "unordered", "chunks", "flag", "readable", "bytes"}
           /\ r.next \in Nat /\ r.flag \in BOOLEAN /\ r.readable \in BOOLEAN /\ r.bytes \in Int
           /\ r.chunks \subseteq S /\ r.unordered \in Seq(SUBSET S)
           /\ \A c \in r.ordered : c.ssn \in Nat /\ c.tsns \subseteq S
           /\ InOrdered(r) \subseteq S /\ InUnordered(r) \subseteq S
<1>1. /\ DOMAIN r = {"next", "ordered", "unordered", "chunks", "flag", "readable", "bytes"}
      /\ r.next \in Nat /\ r.flag \in BOOLEAN /\ r.readable \in BOOLEAN /\ r.bytes \in Int
      /\ r.chunks \subseteq S /\ r.unordered \in Seq(SUBSET S)
      /\ r.ordered \subseteq [ssn : Nat, tsns : SUBSET S]
  BY DEF Reassembly
<1>2. \A c \in r.ordered : c.ssn \in Nat /\ c.tsns \subseteq S
  BY <1>1
<1>3. \A x \in Range(r.unordered) : x \subseteq S
  BY <1>1 DEF Range
<1>4. InOrdered(r) \subseteq S
  BY <1>2, Zenon DEF InOrdered
<1>5. InUnordered(r) \subseteq S
  BY <1>3, Zenon DEF InUnordered
<1>. QED BY <1>1, <1>2, <1>4, <1>5, Zenon

\* What holds of a queue for the chunks in S holds for more of them.
LEMMA QueueGrows ==
    ASSUME NEW S, NEW T, S \subseteq T, NEW r, QueueOK(r, S)
    PROVE  QueueOK(r, T)
<1>1. r \in Reassembly(S)
  BY Zenon DEF QueueOK
<1>2. [ssn : Nat, tsns : SUBSET S] \subseteq [ssn : Nat, tsns : SUBSET T]
  OBVIOUS
<1>3. Seq(SUBSET S) \subseteq Seq(SUBSET T)
  OBVIOUS
<1>4. r \in Reassembly(T)
  BY <1>1, <1>2, <1>3 DEF Reassembly
<1>. QED BY <1>4, Zenon DEF QueueOK

\* ReassemblyQueue::new.
LEMMA NewQueueOK == ASSUME NEW S PROVE QueueOK(NewQueue, S) /\ ~IsReadable(NewQueue)
<1>1. NewQueue \in Reassembly(S)
  BY DEF NewQueue, Reassembly
<1>2. InOrdered(NewQueue) = {}
  BY DEF NewQueue, InOrdered
<1>3. InUnordered(NewQueue) = {}
  BY DEF NewQueue, InUnordered, Range
<1>4. Cardinality({}) = 0
  BY FS_EmptySet, Zenon
<1>5. NewQueue.bytes = 0 /\ NewQueue.chunks = {} /\ NewQueue.ordered = {} /\ NewQueue.unordered = <<>>
  BY DEF NewQueue
<1>6. Counted(NewQueue)
  BY <1>2, <1>3, <1>4, <1>5 DEF Counted
<1>7. Disjoint(NewQueue)
  BY <1>2, <1>3, <1>5 DEF Disjoint
<1>8. ~IsReadable(NewQueue)
  BY <1>5, Zenon DEF IsReadable, ReadableOrdered
<1>. QED BY <1>1, <1>6, <1>7, <1>8, Zenon DEF QueueOK

\* find_complete_unordered_chunk_set finds a set of the chunks, when there is one.
LEMMA FirstRunIn ==
    ASSUME NEW N \in Nat, NEW S \in SUBSET (1 .. N), Runs(S) # {}
    PROVE  FirstRun(S) \in Runs(S) /\ FirstRun(S) \subseteq S
<1>1. ASSUME NEW f \in Runs(S) PROVE f \subseteq S /\ f # {}
  <2>1. f \subseteq S /\ IsComplete(f)
    BY DEF Runs
  <2>. QED BY <2>1, Zenon DEF IsComplete
<1>. DEFINE T == {Min(f) : f \in Runs(S)}
<1>2. \A f \in Runs(S) : Min(f) \in Nat
  <2>. SUFFICES ASSUME NEW f \in Runs(S) PROVE Min(f) \in Nat
    BY Zenon
  <2>1. f \in SUBSET (1 .. N) /\ f # {}
    BY <1>1, Zenon
  <2>2. Min(f) \in f
    BY <2>1, MinMax, Zenon
  <2>3. Min(f) \in 1 .. N
    BY <2>1, <2>2, Zenon
  <2>. QED BY <2>3
<1>3. T \in SUBSET Nat /\ T # {}
  BY <1>2, Zenon
<1>. HIDE DEF T
<1>4. PICK z \in T : \A y \in T : z <= y
  BY <1>3, Least, Zenon
<1>5. PICK f \in Runs(S) : z = Min(f)
  BY Zenon DEF T
<1>6. \A g \in Runs(S) : Min(f) <= Min(g)
  BY <1>4, <1>5, Zenon DEF T
<1>7. FirstRun(S) \in Runs(S)
  BY <1>6, Zenon DEF FirstRun
<1>. QED BY <1>1, <1>7, Zenon

\* Push of a fragment of an unordered message.
LEMMA PushUnorderedOK ==
    ASSUME NEW N \in Nat, NEW S \in SUBSET (1 .. N), NEW r, QueueOK(r, S),
           NEW t \in 1 .. N, t \notin S
    PROVE  /\ QueueOK(PushUnordered(r, t), S \cup {t})
           /\ PushUnordered(r, t).readable = r.readable
           /\ PushUnordered(r, t).ordered = r.ordered
           /\ PushUnordered(r, t).next = r.next
           /\ PushUnordered(r, t).unordered = r.unordered
                \/ Len(PushUnordered(r, t).unordered) = Len(r.unordered) + 1
<1>. DEFINE chunks == r.chunks \cup {t}  p == PushUnordered(r, t)  F == FirstRun(chunks)  T == S \cup {t}
<1>1. r \in Reassembly(S) /\ Disjoint(r) /\ Counted(r)
  BY Zenon DEF QueueOK
<1>2. /\ DOMAIN r = {"next", "ordered", "unordered", "chunks", "flag", "readable", "bytes"}
      /\ r.next \in Nat /\ r.flag \in BOOLEAN /\ r.readable \in BOOLEAN /\ r.bytes \in Int
      /\ r.chunks \subseteq S /\ r.unordered \in Seq(SUBSET S)
      /\ InOrdered(r) \subseteq S /\ InUnordered(r) \subseteq S
  BY <1>1, Parts, Zenon
<1>3. QueueOK(r, T) /\ r \in Reassembly(T)
  BY QueueGrows, Zenon DEF QueueOK
<1>4. /\ Cardinality(r.chunks) \in Nat /\ Cardinality(chunks) = Cardinality(r.chunks) + 1
      /\ Cardinality(InOrdered(r)) \in Nat /\ Cardinality(InUnordered(r)) \in Nat
  BY <1>2, OneMore, TsnsFinite, Zenon
<1>5. r.bytes = Cardinality(r.chunks) + Cardinality(InOrdered(r)) + Cardinality(InUnordered(r))
  BY <1>1, Zenon DEF Counted
<1>6. /\ \A c, d \in r.ordered : c # d => c.tsns \cap d.tsns = {}
      /\ \A i, j \in DOMAIN r.unordered : i # j => r.unordered[i] \cap r.unordered[j] = {}
      /\ r.chunks \cap InUnordered(r) = {}
  BY <1>1, Zenon DEF Disjoint
<1>7. chunks \cap InUnordered(r) = {}
  BY <1>2, <1>6, Zenon
<1>8. CASE Runs(chunks) = {}
  <2>1. p = [[r EXCEPT !.bytes = @ + 1] EXCEPT !.chunks = chunks]
    BY <1>8, Zenon DEF PushUnordered
  <2>. HIDE DEF p, chunks
  <2>2. p = [next |-> r.next, ordered |-> r.ordered, unordered |-> r.unordered, chunks |-> chunks,
             flag |-> r.flag, readable |-> r.readable, bytes |-> r.bytes + 1]
    BY <2>1, <1>2, <1>3 DEF Reassembly
  <2>3. p \in Reassembly(T)
    <3>1. chunks \subseteq T
      BY <1>2, Zenon DEF chunks
    <3>. QED BY <2>2, <3>1, <1>3 DEF Reassembly
  <2>4. InOrdered(p) = InOrdered(r) /\ InUnordered(p) = InUnordered(r)
    BY <2>2, Zenon DEF InOrdered, InUnordered
  <2>5. Counted(p)
    BY <2>2, <2>4, <1>4, <1>5 DEF Counted
  <2>6. Disjoint(p)
    BY <2>2, <2>4, <1>6, <1>7, Zenon DEF Disjoint
  <2>7. /\ p.readable = r.readable /\ p.ordered = r.ordered /\ p.next = r.next
        /\ p.unordered = r.unordered
    BY <2>2
  <2>. QED BY <2>3, <2>5, <2>6, <2>7, Zenon DEF QueueOK, p
<1>9. CASE Runs(chunks) # {}
  <2>1. p = [[r EXCEPT !.bytes = @ + 1] EXCEPT !.chunks = chunks \ F, !.unordered = Append(@, F)]
    BY <1>9, Zenon DEF PushUnordered
  <2>2. chunks \in SUBSET (1 .. N) /\ chunks \subseteq T
    BY <1>2, Zenon
  <2>3. F \subseteq chunks
    BY <2>2, <1>9, FirstRunIn, Zenon
  <2>. HIDE DEF p, chunks, F
  <2>4. p = [next |-> r.next, ordered |-> r.ordered, unordered |-> Append(r.unordered, F),
             chunks |-> chunks \ F, flag |-> r.flag, readable |-> r.readable,
             bytes |-> r.bytes + 1]
    BY <2>1, <1>2, <1>3 DEF Reassembly
  <2>5. p \in Reassembly(T)
    <3>1. chunks \ F \subseteq T /\ F \in SUBSET T
      BY <2>2, <2>3, Zenon
    <3>2. r.unordered \in Seq(SUBSET T)
      BY <1>3 DEF Reassembly
    <3>3. Append(r.unordered, F) \in Seq(SUBSET T)
      BY <3>1, <3>2
    <3>. QED BY <2>4, <3>1, <3>3, <1>3 DEF Reassembly
  <2>6. /\ Len(Append(r.unordered, F)) = Len(r.unordered) + 1
        /\ DOMAIN Append(r.unordered, F) = DOMAIN r.unordered \cup {Len(r.unordered) + 1}
        /\ \A i \in DOMAIN r.unordered : Append(r.unordered, F)[i] = r.unordered[i]
        /\ Append(r.unordered, F)[Len(r.unordered) + 1] = F
        /\ Len(r.unordered) + 1 \notin DOMAIN r.unordered
    BY <1>2
  <2>7. Range(p.unordered) = Range(r.unordered) \cup {F}
    <3>1. p.unordered = Append(r.unordered, F)
      BY <2>4, Zenon
    <3>. QED BY <3>1, <2>6 DEF Range
  <2>8. InOrdered(p) = InOrdered(r) /\ InUnordered(p) = InUnordered(r) \cup F
    BY <2>4, <2>7, Zenon DEF InOrdered, InUnordered
  <2>9. InUnordered(r) \cap F = {}
    BY <2>3, <1>7, Zenon DEF chunks
  <2>10. Cardinality(InUnordered(r) \cup F) = Cardinality(InUnordered(r)) + Cardinality(F)
    <3>1. InUnordered(r) \in SUBSET (1 .. N) /\ F \in SUBSET (1 .. N)
      BY <1>2, <2>2, <2>3, Zenon
    <3>. QED BY <3>1, <2>9, DisjointCardinality, ZenonT(60)
  <2>11. /\ Cardinality(chunks \ F) \in Nat /\ Cardinality(F) \in Nat
         /\ Cardinality(chunks) = Cardinality(chunks \ F) + Cardinality(F)
    <3>. DEFINE G == chunks \ F
    <3>1. G \in SUBSET (1 .. N) /\ F \in SUBSET (1 .. N) /\ G \cup F = chunks /\ G \cap F = {}
      BY <2>2, <2>3, Zenon
    <3>. HIDE DEF G
    <3>2. /\ Cardinality(G) \in Nat /\ Cardinality(F) \in Nat
          /\ Cardinality(G \cup F) = Cardinality(G) + Cardinality(F)
      BY <3>1, DisjointCardinality, ZenonT(60)
    <3>. QED BY <3>1, <3>2, Zenon DEF G
  <2>12. Counted(p)
    <3>1. Cardinality(chunks) = Cardinality(r.chunks) + 1
      BY <1>4, Zenon DEF chunks
    <3>2. r.bytes + 1 = Cardinality(chunks \ F) + Cardinality(InOrdered(r))
                          + (Cardinality(InUnordered(r)) + Cardinality(F))
      BY <3>1, <2>11, <1>4, <1>5
    <3>. QED BY <3>2, <2>4, <2>8, <2>10, Zenon DEF Counted
  <2>13. \A i \in DOMAIN r.unordered : r.unordered[i] \cap F = {}
    BY <2>9, Zenon DEF InUnordered, Range
  <2>14. \A i, j \in DOMAIN p.unordered : i # j => p.unordered[i] \cap p.unordered[j] = {}
    <3>. SUFFICES ASSUME NEW i \in DOMAIN p.unordered, NEW j \in DOMAIN p.unordered, i # j
                  PROVE  p.unordered[i] \cap p.unordered[j] = {}
      BY Zenon
    <3>1. CASE i \in DOMAIN r.unordered /\ j \in DOMAIN r.unordered
      BY <3>1, <2>4, <2>6, <1>6, Zenon
    <3>2. CASE i \in DOMAIN r.unordered /\ j = Len(r.unordered) + 1
      BY <3>2, <2>4, <2>6, <2>13, Zenon
    <3>3. CASE i = Len(r.unordered) + 1 /\ j \in DOMAIN r.unordered
      <4>1. p.unordered[i] = F /\ p.unordered[j] = r.unordered[j]
        BY <3>3, <2>4, <2>6, Zenon
      <4>2. r.unordered[j] \cap F = {}
        BY <3>3, <2>13, Zenon
      <4>. QED BY <4>1, <4>2, Zenon
    <3>4. DOMAIN p.unordered = DOMAIN r.unordered \cup {Len(r.unordered) + 1}
      BY <2>4, <2>6, Zenon
    <3>. QED BY <3>1, <3>2, <3>3, <3>4, Zenon
  <2>15. p.chunks \cap InUnordered(p) = {}
    BY <2>4, <2>8, <1>7, Zenon DEF chunks
  <2>16. Disjoint(p)
    BY <2>4, <2>14, <2>15, <1>6, Zenon DEF Disjoint
  <2>17. /\ p.readable = r.readable /\ p.ordered = r.ordered /\ p.next = r.next
         /\ p.unordered = Append(r.unordered, F)
    BY <2>4
  <2>. QED BY <2>5, <2>6, <2>12, <2>16, <2>17, Zenon DEF QueueOK, p
<1>. QED BY <1>8, <1>9, Zenon

\* Push of a fragment of an ordered message.
LEMMA PushOrderedOK ==
    ASSUME NEW N \in Nat, NEW S \in SUBSET (1 .. N), NEW r, QueueOK(r, S),
           NEW t \in 1 .. N, t \notin S, Ssn(tsn[t]) \in Nat
    PROVE  /\ QueueOK(PushOrdered(r, t), S \cup {t})
           /\ PushOrdered(r, t).readable = r.readable
<1>. DEFINE n == Ssn(tsn[t])  T == S \cup {t}  p == PushOrdered(r, t)
            same == {c \in r.ordered : c.ssn = n}
            G == [ssn |-> n, tsns |-> {t} \cup UNION {c.tsns : c \in same}]
            O == (r.ordered \ same) \cup {G}
<1>1. r \in Reassembly(S) /\ Disjoint(r) /\ Counted(r)
  BY Zenon DEF QueueOK
<1>2. /\ DOMAIN r = {"next", "ordered", "unordered", "chunks", "flag", "readable", "bytes"}
      /\ r.bytes \in Int /\ r.chunks \subseteq S
      /\ \A c \in r.ordered : c.ssn \in Nat /\ c.tsns \subseteq S
      /\ InOrdered(r) \subseteq S /\ InUnordered(r) \subseteq S
  BY <1>1, Parts, Zenon
<1>3. QueueOK(r, T) /\ r \in Reassembly(T)
  BY QueueGrows, Zenon DEF QueueOK
<1>4. CASE Sna16lt(n, r.next)
  <2>1. p = r
    BY <1>4, Zenon DEF PushOrdered
  <2>. QED BY <2>1, <1>3, Zenon
<1>5. CASE ~Sna16lt(n, r.next)
  <2>1. p = [r EXCEPT !.bytes = @ + 1, !.ordered = O]
    BY <1>5 DEF PushOrdered
  <2>2. G.ssn = n /\ G.tsns = {t} \cup UNION {c.tsns : c \in same}
    BY Zenon
  <2>3. G.tsns \subseteq T
    BY <2>2, <1>2, Zenon
  <2>4. G \in [ssn : Nat, tsns : SUBSET T]
    BY <2>3
  <2>5. UNION {c.tsns : c \in O} = InOrdered(r) \cup {t}
    <3>1. \A x \in UNION {c.tsns : c \in O} : x \in InOrdered(r) \cup {t}
      BY <2>2, Zenon DEF InOrdered
    <3>2. \A x \in InOrdered(r) : x \in UNION {c.tsns : c \in O}
      <4>. SUFFICES ASSUME NEW c \in r.ordered, NEW x \in c.tsns
                    PROVE  x \in UNION {d.tsns : d \in O}
        BY Zenon DEF InOrdered
      <4>1. CASE c \in same
        <5>1. x \in G.tsns
          BY <4>1, <2>2, Zenon
        <5>. QED BY <5>1, Zenon
      <4>2. CASE c \notin same
        BY <4>2, Zenon
      <4>. QED BY <4>1, <4>2, Zenon
    <3>3. t \in UNION {c.tsns : c \in O}
      BY <2>2, Zenon
    <3>. QED BY <3>1, <3>2, <3>3, Zenon
  <2>6. \A c, d \in O : c # d => c.tsns \cap d.tsns = {}
    <3>1. \A c, d \in r.ordered : c # d => c.tsns \cap d.tsns = {}
      BY <1>1, Zenon DEF Disjoint
    <3>2. \A d \in r.ordered \ same : G.tsns \cap d.tsns = {}
      <4>. SUFFICES ASSUME NEW d \in r.ordered, d \notin same, NEW x \in G.tsns, x \in d.tsns
                    PROVE  FALSE
        BY Zenon
      <4>1. CASE x = t
        BY <4>1, <1>2, Zenon
      <4>2. CASE x # t
        <5>1. PICK c \in same : x \in c.tsns
          BY <4>2, <2>2, Zenon
        <5>. QED BY <5>1, <3>1, Zenon
      <4>. QED BY <4>1, <4>2, Zenon
    <3>. QED BY <3>1, <3>2, Zenon
  <2>. HIDE DEF p, O, G
  <2>7. p = [next |-> r.next, ordered |-> O, unordered |-> r.unordered, chunks |-> r.chunks,
             flag |-> r.flag, readable |-> r.readable, bytes |-> r.bytes + 1]
    BY <2>1, <1>2, <1>3 DEF Reassembly
  <2>8. O \subseteq [ssn : Nat, tsns : SUBSET T]
    <3>1. r.ordered \subseteq [ssn : Nat, tsns : SUBSET T]
      BY <1>3 DEF Reassembly
    <3>. QED BY <3>1, <2>4, Zenon DEF O
  <2>9. p \in Reassembly(T)
    BY <2>7, <2>8, <1>3 DEF Reassembly
  <2>10. /\ p.ordered = O /\ p.chunks = r.chunks /\ p.unordered = r.unordered
         /\ p.bytes = r.bytes + 1 /\ p.readable = r.readable
    BY <2>7
  <2>11. InUnordered(p) = InUnordered(r) /\ InOrdered(p) = InOrdered(r) \cup {t}
    BY <2>5, <2>10, Zenon DEF InOrdered, InUnordered
  <2>12. Disjoint(p)
    BY <2>6, <2>10, <2>11, <1>1, Zenon DEF Disjoint
  <2>13. /\ Cardinality(InOrdered(r)) \in Nat
         /\ Cardinality(InOrdered(r) \cup {t}) = Cardinality(InOrdered(r)) + 1
    BY <1>2, OneMore, Zenon
  <2>14. Cardinality(r.chunks) \in Nat /\ Cardinality(InUnordered(r)) \in Nat
    BY <1>2, TsnsFinite, Zenon
  <2>15. r.bytes + 1 = Cardinality(r.chunks) + (Cardinality(InOrdered(r)) + 1)
                         + Cardinality(InUnordered(r))
    BY <2>13, <2>14, <1>1 DEF Counted
  <2>16. Counted(p)
    BY <2>10, <2>11, <2>13, <2>15, Zenon DEF Counted
  <2>. QED BY <2>9, <2>10, <2>12, <2>16, Zenon DEF QueueOK, p
<1>. QED BY <1>4, <1>5, Zenon

\* The queue r without some of its ordered sets.
Without(r, gone, y) ==
    [r EXCEPT !.ordered = @ \ gone,
              !.bytes = @ - Cardinality(UNION {c.tsns : c \in gone}), !.next = y]

\* Sets of an ordered queue leave it with the bytes they hold.
LEMMA GroupsLeave ==
    ASSUME NEW N \in Nat, NEW S \in SUBSET (1 .. N), NEW r, QueueOK(r, S),
           NEW gone, gone \subseteq r.ordered, NEW y \in Nat
    PROVE  QueueOK(Without(r, gone, y), S) /\ Without(r, gone, y).readable = r.readable
<1>. DEFINE p == Without(r, gone, y)
            O == r.ordered \ gone  L == UNION {c.tsns : c \in gone}  K == UNION {c.tsns : c \in O}
            n == Cardinality(L)
<1>1. r \in Reassembly(S) /\ Disjoint(r) /\ Counted(r)
  BY Zenon DEF QueueOK
<1>2. /\ DOMAIN r = {"next", "ordered", "unordered", "chunks", "flag", "readable", "bytes"}
      /\ r.bytes \in Int /\ r.chunks \subseteq S
      /\ \A c \in r.ordered : c.ssn \in Nat /\ c.tsns \subseteq S
      /\ InOrdered(r) \subseteq S /\ InUnordered(r) \subseteq S
  BY <1>1, Parts, Zenon
<1>3. \A c, d \in r.ordered : c # d => c.tsns \cap d.tsns = {}
  BY <1>1, Zenon DEF Disjoint
<1>4. K \cup L = InOrdered(r)
  BY Zenon DEF InOrdered
<1>5. K \cap L = {}
  <2>. SUFFICES ASSUME NEW x \in K, x \in L PROVE FALSE
    BY Zenon
  <2>1. PICK c \in O : x \in c.tsns
    BY Zenon
  <2>2. PICK d \in gone : x \in d.tsns
    BY Zenon
  <2>. QED BY <2>1, <2>2, <1>3, Zenon
<1>6. K \in SUBSET (1 .. N) /\ L \in SUBSET (1 .. N)
  BY <1>2, <1>4, Zenon
<1>7. p = [r EXCEPT !.ordered = O, !.bytes = r.bytes - n, !.next = y]
  BY <1>2 DEF Without
<1>. HIDE DEF K, L, O, p
<1>8. /\ Cardinality(K) \in Nat /\ n \in Nat
      /\ Cardinality(InOrdered(r)) = Cardinality(K) + n
  <2>1. /\ Cardinality(K) \in Nat /\ Cardinality(L) \in Nat
        /\ Cardinality(K \cup L) = Cardinality(K) + Cardinality(L)
    BY <1>5, <1>6, DisjointCardinality, ZenonT(60)
  <2>. QED BY <2>1, <1>4, Zenon
<1>9. Cardinality(r.chunks) \in Nat /\ Cardinality(InUnordered(r)) \in Nat
  BY <1>2, TsnsFinite, Zenon
<1>10. r.bytes - n = Cardinality(r.chunks) + Cardinality(K) + Cardinality(InUnordered(r))
  BY <1>1, <1>8, <1>9 DEF Counted
<1>. HIDE DEF n
<1>11. p = [next |-> y, ordered |-> O, unordered |-> r.unordered, chunks |-> r.chunks,
            flag |-> r.flag, readable |-> r.readable, bytes |-> r.bytes - n]
  BY <1>7, <1>1 DEF Reassembly
<1>12. O \subseteq [ssn : Nat, tsns : SUBSET S] /\ O \subseteq r.ordered
  BY <1>1 DEF Reassembly, O
<1>13. r.bytes - n \in Int
  BY <1>2, <1>8
<1>14. p \in Reassembly(S)
  BY <1>11, <1>12, <1>13, <1>1 DEF Reassembly
<1>15. /\ p.ordered = O /\ p.chunks = r.chunks /\ p.unordered = r.unordered
       /\ p.bytes = r.bytes - n /\ p.readable = r.readable
  BY <1>11
<1>16. InUnordered(p) = InUnordered(r) /\ InOrdered(p) = K
  BY <1>15, Zenon DEF InOrdered, InUnordered, K
<1>17. Disjoint(p)
  BY <1>15, <1>16, <1>12, <1>1, Zenon DEF Disjoint
<1>18. Counted(p)
  BY <1>10, <1>15, <1>16, Zenon DEF Counted
<1>. QED BY <1>14, <1>15, <1>17, <1>18, Zenon DEF QueueOK, p

\* read of an ordered set.
LEMMA ReadOrderedOK ==
    ASSUME NEW N \in Nat, NEW S \in SUBSET (1 .. N), NEW r, QueueOK(r, S), NEW c \in r.ordered
    PROVE  QueueOK(ReadOrdered(r, c), S) /\ ReadOrdered(r, c).readable = r.readable
<1>. DEFINE y == IF c.ssn = r.next THEN (r.next + 1) % SsnMod ELSE r.next
            b2 == Cardinality(c.tsns)
<1>1. /\ DOMAIN r = {"next", "ordered", "unordered", "chunks", "flag", "readable", "bytes"}
      /\ r.next \in Nat
  BY Parts, Zenon DEF QueueOK
<1>2. y \in Nat
  BY <1>1, StreamsAssumption
<1>3. UNION {d.tsns : d \in {c}} = c.tsns
  BY Zenon
<1>4. ReadOrdered(r, c) = [r EXCEPT !.ordered = @ \ {c}, !.bytes = @ - b2, !.next = y]
  BY <1>1 DEF ReadOrdered
<1>. HIDE DEF y
<1>5. ReadOrdered(r, c) = Without(r, {c}, y)
  BY <1>3, <1>4, Zenon DEF Without
<1>6. {c} \subseteq r.ordered
  BY Zenon
<1>7. QueueOK(Without(r, {c}, y), S) /\ Without(r, {c}, y).readable = r.readable
  BY <1>2, <1>6, GroupsLeave, Zenon
<1>. QED BY <1>5, <1>7, Zenon

\* forward_tsn_for_ordered.
LEMMA ForwardOrderedOK ==
    ASSUME NEW N \in Nat, NEW S \in SUBSET (1 .. N), NEW r, QueueOK(r, S), NEW n \in Nat
    PROVE  QueueOK(ForwardOrdered(r, n), S) /\ ForwardOrdered(r, n).readable = r.readable
<1>. DEFINE gone == {c \in r.ordered : Sna16lte(c.ssn, n) /\ ~IsComplete(c.tsns)}
            y == IF Sna16lte(r.next, n) THEN (n + 1) % SsnMod ELSE r.next
<1>1. /\ DOMAIN r = {"next", "ordered", "unordered", "chunks", "flag", "readable", "bytes"}
      /\ r.next \in Nat
  BY Parts, Zenon DEF QueueOK
<1>2. y \in Nat
  BY <1>1, StreamsAssumption
<1>3. gone \subseteq r.ordered
  BY Zenon
<1>4. ForwardOrdered(r, n) =
        [r EXCEPT !.ordered = @ \ gone, !.bytes = @ - Cardinality(UNION {c.tsns : c \in gone}),
                  !.next = IF Sna16lte(@, n) THEN (n + 1) % SsnMod ELSE @]
  BY Zenon DEF ForwardOrdered
<1>. HIDE DEF gone
<1>5. ForwardOrdered(r, n) = Without(r, gone, y)
  BY <1>1, <1>4 DEF Without
<1>. HIDE DEF y
<1>6. QueueOK(Without(r, gone, y), S) /\ Without(r, gone, y).readable = r.readable
  <2>1. gone \subseteq r.ordered
    BY <1>3, Zenon
  <2>. QED BY <1>2, <2>1, GroupsLeave, Zenon
<1>. QED BY <1>5, <1>6, Zenon

\* forward_tsn_for_unordered.
LEMMA ForwardUnorderedOK ==
    ASSUME NEW N \in Nat, NEW S \in SUBSET (1 .. N), NEW r, QueueOK(r, S), NEW q \in Nat
    PROVE  QueueOK(ForwardUnordered(r, q), S) /\ ForwardUnordered(r, q).readable = r.readable
<1>. DEFINE L == {t \in r.chunks : t <= q}  K == {t \in r.chunks : t > q}
            p == ForwardUnordered(r, q)  n == Cardinality(L)
<1>1. r \in Reassembly(S) /\ Disjoint(r) /\ Counted(r)
  BY Zenon DEF QueueOK
<1>2. /\ DOMAIN r = {"next", "ordered", "unordered", "chunks", "flag", "readable", "bytes"}
      /\ r.bytes \in Int /\ r.chunks \subseteq S
      /\ InOrdered(r) \subseteq S /\ InUnordered(r) \subseteq S
  BY <1>1, Parts, Zenon
<1>3. K \cup L = r.chunks /\ K \cap L = {}
  <2>1. \A t \in r.chunks : t \in 1 .. N
    BY <1>2, Zenon
  <2>2. \A t \in r.chunks : t <= q <=> ~(t > q)
    BY <2>1
  <2>. QED BY <2>2, Zenon
<1>4. K \in SUBSET (1 .. N) /\ L \in SUBSET (1 .. N)
  BY <1>2, Zenon
<1>5. p = [r EXCEPT !.chunks = K, !.bytes = r.bytes - n]
  BY <1>2 DEF ForwardUnordered
<1>. HIDE DEF K, L, p
<1>6. Cardinality(K) \in Nat /\ n \in Nat /\ Cardinality(r.chunks) = Cardinality(K) + n
  <2>1. K \cap L = {}
    BY <1>3, Zenon
  <2>2. /\ Cardinality(K) \in Nat /\ Cardinality(L) \in Nat
        /\ Cardinality(K \cup L) = Cardinality(K) + Cardinality(L)
    BY <2>1, <1>4, DisjointCardinality, ZenonT(60)
  <2>. QED BY <2>2, <1>3, Zenon
<1>7. Cardinality(InOrdered(r)) \in Nat /\ Cardinality(InUnordered(r)) \in Nat
  BY <1>2, TsnsFinite, Zenon
<1>8. r.bytes - n = Cardinality(K) + Cardinality(InOrdered(r)) + Cardinality(InUnordered(r))
  BY <1>1, <1>6, <1>7 DEF Counted
<1>. HIDE DEF n
<1>9. p = [next |-> r.next, ordered |-> r.ordered, unordered |-> r.unordered, chunks |-> K,
           flag |-> r.flag, readable |-> r.readable, bytes |-> r.bytes - n]
  BY <1>5, <1>1 DEF Reassembly
<1>10. K \subseteq S /\ K \subseteq r.chunks
  BY <1>2, <1>3, Zenon
<1>11. r.bytes - n \in Int
  BY <1>2, <1>6
<1>12. p \in Reassembly(S)
  BY <1>9, <1>10, <1>11, <1>1 DEF Reassembly
<1>13. /\ p.ordered = r.ordered /\ p.chunks = K /\ p.unordered = r.unordered
       /\ p.bytes = r.bytes - n /\ p.readable = r.readable
  BY <1>9
<1>14. InUnordered(p) = InUnordered(r) /\ InOrdered(p) = InOrdered(r)
  BY <1>13, Zenon DEF InOrdered, InUnordered
<1>15. Disjoint(p)
  BY <1>13, <1>14, <1>10, <1>1, Zenon DEF Disjoint
<1>16. Counted(p)
  BY <1>8, <1>13, <1>14, Zenon DEF Counted
<1>. QED BY <1>12, <1>13, <1>15, <1>16, Zenon DEF QueueOK, p

\* read of an unordered set.
LEMMA ReadUnorderedOK ==
    ASSUME NEW N \in Nat, NEW S \in SUBSET (1 .. N), NEW r, QueueOK(r, S), r.unordered # <<>>
    PROVE  QueueOK(ReadUnordered(r), S) /\ ReadUnordered(r).readable = r.readable
<1>. DEFINE u == r.unordered  F == Head(u)  v == Tail(u)  p == ReadUnordered(r)  n == Cardinality(F)
            K == UNION Range(v)
<1>1. r \in Reassembly(S) /\ Disjoint(r) /\ Counted(r)
  BY Zenon DEF QueueOK
<1>2. /\ DOMAIN r = {"next", "ordered", "unordered", "chunks", "flag", "readable", "bytes"}
      /\ r.bytes \in Int /\ r.chunks \subseteq S /\ u \in Seq(SUBSET S)
      /\ InOrdered(r) \subseteq S /\ InUnordered(r) \subseteq S
  BY <1>1, Parts, Zenon
<1>3. /\ v \in Seq(SUBSET S) /\ F \in SUBSET S /\ 1 \in DOMAIN u /\ F = u[1]
      /\ \A i \in DOMAIN v : i + 1 \in DOMAIN u /\ i + 1 # 1 /\ v[i] = u[i + 1]
      /\ \A j \in DOMAIN u : j = 1 \/ (j - 1 \in DOMAIN v /\ v[j - 1] = u[j])
      /\ \A i, j \in DOMAIN v : i # j => i + 1 # j + 1
  BY <1>2, SMTT(60)
<1>4. \A i, j \in DOMAIN u : i # j => u[i] \cap u[j] = {}
  BY <1>1, Zenon DEF Disjoint
<1>5. p = [r EXCEPT !.unordered = v, !.bytes = r.bytes - n]
  BY <1>2 DEF ReadUnordered
<1>. HIDE DEF u, v, F, p
<1>6. K \cup F = UNION Range(u)
  <2>1. ASSUME NEW x \in K PROVE x \in UNION Range(u)
    <3>1. PICK i \in DOMAIN v : x \in v[i]
      BY Zenon DEF Range
    <3>. QED BY <3>1, <1>3, Zenon DEF Range
  <2>2. ASSUME NEW x \in F PROVE x \in UNION Range(u)
    BY <1>3, Zenon DEF Range
  <2>3. ASSUME NEW x \in UNION Range(u) PROVE x \in K \cup F
    <3>1. PICK j \in DOMAIN u : x \in u[j]
      BY Zenon DEF Range
    <3>. QED BY <3>1, <1>3, Zenon DEF Range
  <2>. QED BY <2>1, <2>2, <2>3, Zenon
<1>7. K \cap F = {}
  <2>. SUFFICES ASSUME NEW x \in K, x \in F PROVE FALSE
    BY Zenon
  <2>1. PICK i \in DOMAIN v : x \in v[i]
    BY Zenon DEF Range
  <2>. QED BY <2>1, <1>3, <1>4, Zenon
<1>8. \A i, j \in DOMAIN v : i # j => v[i] \cap v[j] = {}
  BY <1>3, <1>4, Zenon
<1>. HIDE DEF K
<1>9. InUnordered(r) = K \cup F
  BY <1>6, Zenon DEF InUnordered, u
<1>10. K \in SUBSET (1 .. N) /\ F \in SUBSET (1 .. N) /\ K \subseteq S
  BY <1>2, <1>9, Zenon
<1>11. Cardinality(K) \in Nat /\ n \in Nat /\ Cardinality(InUnordered(r)) = Cardinality(K) + n
  BY <1>7, <1>9, <1>10, DisjointCardinality, ZenonT(60)
<1>12. Cardinality(InOrdered(r)) \in Nat /\ Cardinality(r.chunks) \in Nat
  BY <1>2, TsnsFinite, Zenon
<1>13. r.bytes - n = Cardinality(r.chunks) + Cardinality(InOrdered(r)) + Cardinality(K)
  BY <1>1, <1>11, <1>12 DEF Counted
<1>. HIDE DEF n
<1>14. p = [next |-> r.next, ordered |-> r.ordered, unordered |-> v, chunks |-> r.chunks,
            flag |-> r.flag, readable |-> r.readable, bytes |-> r.bytes - n]
  BY <1>5, <1>1 DEF Reassembly
<1>15. r.bytes - n \in Int
  BY <1>2, <1>11
<1>16. p \in Reassembly(S)
  BY <1>14, <1>15, <1>3, <1>1 DEF Reassembly
<1>17. /\ p.ordered = r.ordered /\ p.chunks = r.chunks /\ p.unordered = v
       /\ p.bytes = r.bytes - n /\ p.readable = r.readable
  BY <1>14
<1>18. InUnordered(p) = K /\ InOrdered(p) = InOrdered(r)
  BY <1>17, Zenon DEF InOrdered, InUnordered, K
<1>19. Disjoint(p)
  <2>1. r.chunks \cap InUnordered(r) = {}
    BY <1>1, Zenon DEF Disjoint
  <2>2. p.chunks \cap InUnordered(p) = {}
    BY <2>1, <1>9, <1>17, <1>18, Zenon
  <2>. QED BY <2>2, <1>1, <1>8, <1>17, Zenon DEF Disjoint
<1>20. Counted(p)
  BY <1>13, <1>17, <1>18, Zenon DEF Counted
<1>. QED BY <1>16, <1>17, <1>19, <1>20, Zenon DEF QueueOK, p
\* Push of a fragment that has not been received.
LEMMA PushOK ==
    ASSUME NEW N \in Nat, NEW S \in SUBSET (1 .. N), NEW r, QueueOK(r, S),
           NEW t \in 1 .. N, t \notin S, Ssn(tsn[t]) \in Nat
    PROVE  QueueOK(Push(r, t), S \cup {t}) /\ Push(r, t).readable = r.readable
  BY PushUnorderedOK, PushOrderedOK, ZenonT(60) DEF Push

\* A fragment that makes a queue readable completes a set: the Readable event of
\* handle_data is not missed.
LEMMA PushReadable ==
    ASSUME NEW N \in Nat, NEW S \in SUBSET (1 .. N), NEW r, QueueOK(r, S),
           NEW t \in 1 .. N, t \notin S, Ssn(tsn[t]) \in Nat,
           IsReadable(Push(r, t)), ~Completes(r, t)
    PROVE  IsReadable(r)
<1>0. r.bytes \in Int /\ r.unordered \in Seq(SUBSET S)
      /\ DOMAIN r = {"next", "ordered", "unordered", "chunks", "flag", "readable", "bytes"}
  BY Parts, Zenon DEF QueueOK
<1>1. CASE Unordered(tsn[t])
  <2>. DEFINE p == PushUnordered(r, t)
  <2>1. Push(r, t) = p
    BY <1>1, Zenon DEF Push
  <2>2. /\ p.ordered = r.ordered /\ p.next = r.next
        /\ p.unordered = r.unordered \/ Len(p.unordered) = Len(r.unordered) + 1
    BY PushUnorderedOK, Zenon
  <2>. HIDE DEF p
  <2>3. CASE p.unordered = r.unordered
    <3>1. ReadableOrdered(p) = ReadableOrdered(r)
      BY <2>2, Zenon DEF ReadableOrdered
    <3>. QED BY <3>1, <2>1, <2>3, Zenon DEF IsReadable
  <2>4. CASE Len(p.unordered) = Len(r.unordered) + 1
    <3>1. Len(p.unordered) > Len(r.unordered) /\ p # r
      BY <2>4, <1>0
    <3>. QED BY <3>1, <2>1, <1>1, Zenon DEF Completes
  <2>. QED BY <2>2, <2>3, <2>4, Zenon
<1>2. CASE ~Unordered(tsn[t])
  <2>. DEFINE p == PushOrdered(r, t)  n == Ssn(tsn[t])
              same == {c \in r.ordered : c.ssn = n}
              G == [ssn |-> n, tsns |-> {t} \cup UNION {c.tsns : c \in same}]
              O == (r.ordered \ same) \cup {G}
  <2>1. Push(r, t) = p
    BY <1>2, Zenon DEF Push
  <2>2. CASE Sna16lt(n, r.next)
    <3>1. p = r
      BY <2>2, Zenon DEF PushOrdered
    <3>. QED BY <3>1, <2>1, Zenon
  <2>3. CASE ~Sna16lt(n, r.next)
    <3>1. p = [r EXCEPT !.bytes = @ + 1, !.ordered = O]
      BY <2>3 DEF PushOrdered
    <3>2. G.ssn = n /\ t \in G.tsns
      BY Zenon
    <3>3. \A c \in same : c.ssn = n
      BY Zenon
    <3>. HIDE DEF p, O, G, n, same
    <3>4. p.ordered = O /\ p.next = r.next /\ p.unordered = r.unordered /\ p.bytes # r.bytes
      BY <3>1, <1>0
    <3>5. r # p
      BY <3>4, Zenon
    <3>6. ~IsComplete(G.tsns)
      <4>1. G \in p.ordered
        BY <3>4, Zenon DEF O
      <4>. QED BY <4>1, <3>2, <3>5, <2>1, <1>2, Zenon DEF Completes
    <3>7. CASE r.unordered # <<>>
      BY <3>7, Zenon DEF IsReadable
    <3>8. CASE r.unordered = <<>>
      <4>1. PICK c \in ReadableOrdered(p) : TRUE
        BY <3>8, <3>4, <2>1, Zenon DEF IsReadable
      <4>2. /\ c \in O /\ \A d \in O : Sna16lte(c.ssn, d.ssn)
            /\ IsComplete(c.tsns) /\ ~Sna16gt(c.ssn, r.next)
        BY <4>1, <3>4, Zenon DEF ReadableOrdered
      <4>3. c # G
        BY <4>2, <3>6, Zenon
      <4>4. c \in r.ordered
        BY <4>2, <4>3, Zenon DEF O
      <4>5. \A d \in r.ordered : Sna16lte(c.ssn, d.ssn)
        <5>. SUFFICES ASSUME NEW d \in r.ordered PROVE Sna16lte(c.ssn, d.ssn)
          BY Zenon
        <5>1. CASE d \in same
          <6>1. d.ssn = G.ssn /\ G \in O
            BY <5>1, <3>2, <3>3, Zenon DEF O
          <6>. QED BY <6>1, <4>2, Zenon
        <5>2. CASE d \notin same
          BY <5>2, <4>2, Zenon DEF O
        <5>. QED BY <5>1, <5>2, Zenon
      <4>6. c \in ReadableOrdered(r)
        BY <4>2, <4>4, <4>5, Zenon DEF ReadableOrdered
      <4>. QED BY <4>6, Zenon DEF IsReadable
    <3>. QED BY <3>7, <3>8, Zenon
  <2>. QED BY <2>2, <2>3, Zenon
<1>. QED BY <1>1, <1>2, Zenon

-----------------------------------------------------------------------------
(***************************************************************************)
(* What has been written and sent does not change.                         *)
(***************************************************************************)
\* Messages are only added, and so are TSNs.
WrittenGrows ==
    /\ Len(written) \in Nat /\ Len(written') \in Nat /\ Len(written) <= Len(written')
    /\ \A m \in 1 .. Len(written) : written'[m] = written[m]

TsnGrows ==
    /\ Len(tsn) \in Nat /\ Len(tsn') \in Nat /\ Len(tsn) <= Len(tsn')
    /\ \A t \in TSNs : tsn'[t] = tsn[t] /\ tsn[t] \in Chunk(Len(written))

\* What a chunk's flags say does not change when messages and TSNs are added.
LEMMA ChunkStable ==
    ASSUME WrittenGrows, NEW c \in Chunk(Len(written))
    PROVE  /\ c \in Chunk(Len(written)')
           /\ Begins(c)' <=> Begins(c)
           /\ Ends(c)' <=> Ends(c)
           /\ Unordered(c)' <=> Unordered(c)
<1>1. c.m = 0 \/ c.m \in 1 .. Len(written)
  BY DEF Chunk, WrittenGrows
<1>2. c \in Chunk(Len(written)')
  BY DEF Chunk, WrittenGrows
<1>3. c.m # 0 => written'[c.m] = written[c.m]
  BY <1>1, Zenon DEF WrittenGrows
<1>4. Begins(c)' <=> Begins(c)
  BY Zenon DEF Begins
<1>5. Ends(c)' <=> Ends(c)
  BY <1>3, Zenon DEF Ends
<1>6. Unordered(c)' <=> Unordered(c)
  BY <1>3, Zenon DEF Unordered
<1>. QED BY <1>2, <1>4, <1>5, <1>6, Zenon

\* Whether a set is complete does not change.
LEMMA CompleteStable ==
    ASSUME WrittenGrows, TsnGrows, NEW S \in SUBSET TSNs
    PROVE  IsComplete(S)' <=> IsComplete(S)
<1>1. CASE S = {}
  BY <1>1, Zenon DEF IsComplete
<1>2. CASE S # {}
  <2>1. Min(S) \in TSNs /\ Max(S) \in TSNs
    <3>1. Len(tsn) \in Nat /\ S \in SUBSET (1 .. Len(tsn))
      BY Zenon DEF TsnGrows, TSNs
    <3>2. Min(S) \in S /\ Max(S) \in S
      BY <3>1, <1>2, MinMax, Zenon
    <3>. QED BY <3>2, Zenon
  <2>2. /\ tsn'[Min(S)] = tsn[Min(S)] /\ tsn[Min(S)] \in Chunk(Len(written))
        /\ tsn'[Max(S)] = tsn[Max(S)] /\ tsn[Max(S)] \in Chunk(Len(written))
    BY <2>1, Zenon DEF TsnGrows
  <2>3. Begins(tsn[Min(S)])' <=> Begins(tsn[Min(S)])
    <3>1. PICK c \in Chunk(Len(written)) : c = tsn[Min(S)] /\ c = tsn'[Min(S)]
      BY <2>2, Zenon
    <3>2. Begins(c)' <=> Begins(c)
      BY ChunkStable, Zenon
    <3>. QED BY <3>1, <3>2, Zenon
  <2>4. Ends(tsn[Max(S)])' <=> Ends(tsn[Max(S)])
    <3>1. PICK c \in Chunk(Len(written)) : c = tsn[Max(S)] /\ c = tsn'[Max(S)]
      BY <2>2, Zenon
    <3>2. Ends(c)' <=> Ends(c)
      BY ChunkStable, Zenon
    <3>. QED BY <3>1, <3>2, Zenon
  <2>. QED BY <2>3, <2>4, Zenon DEF IsComplete
<1>. QED BY <1>1, <1>2, Zenon

\* Nor whether a queue can be read.
LEMMA ReadableStable ==
    ASSUME WrittenGrows, TsnGrows, NEW r \in Reassembly(TSNs)
    PROVE  IsReadable(r)' <=> IsReadable(r)
<1>1. \A c \in r.ordered : c.tsns \in SUBSET TSNs
  BY Parts, Zenon
<1>2. \A c \in r.ordered : IsComplete(c.tsns)' <=> IsComplete(c.tsns)
  BY <1>1, CompleteStable, Zenon
<1>3. ReadableOrdered(r)' = ReadableOrdered(r)
  BY <1>2, Zenon DEF ReadableOrdered, Sna16lte, Sna16gt, Sna16lt, Half
<1>. QED BY <1>3, Zenon DEF IsReadable

\* The pending queue stays one.
LEMMA PendingStable ==
    ASSUME WrittenGrows, NEW p, PendingOK(p)
    PROVE  PendingOK(p)'
<1>. DEFINE C == Chunk(Len(written))  D == Chunk(Len(written'))
<1>1. p.u \in Seq(C) /\ p.o \in Seq(C)
  BY DEF PendingOK
<1>2. C \subseteq D
  BY DEF Chunk, WrittenGrows
<1>3. Seq(C) \subseteq Seq(D)
  BY <1>2
<1>4. /\ \A i \in DOMAIN p.u : p.u[i] \in C
      /\ \A i \in DOMAIN p.o : p.o[i] \in C
  BY <1>1
<1>5. /\ p.u # <<>> => Len(p.u) \in DOMAIN p.u
      /\ p.o # <<>> => Len(p.o) \in DOMAIN p.o
  BY <1>1
<1>6. \A c \in C : (Ends(c)' <=> Ends(c)) /\ (Unordered(c)' <=> Unordered(c))
  BY ChunkStable, Zenon
<1>7. p \in [u : Seq(D), o : Seq(D), selected : BOOLEAN, unordered_is_selected : BOOLEAN]
  <2>1. p \in [u : Seq(C), o : Seq(C), selected : BOOLEAN, unordered_is_selected : BOOLEAN]
    BY Zenon DEF PendingOK
  <2>. HIDE DEF C, D
  <2>. QED BY <2>1, <1>3
<1>8. EndsWhole(p.u)' /\ EndsWhole(p.o)'
  <2>. HIDE DEF C
  <2>. QED BY <1>4, <1>5, <1>6, Zenon DEF PendingOK, EndsWhole
<1>9. /\ \A i \in DOMAIN p.u : Unordered(p.u[i])'
      /\ \A i \in DOMAIN p.o : ~Unordered(p.o[i])'
  <2>. HIDE DEF C
  <2>. QED BY <1>4, <1>6, Zenon DEF PendingOK
<1>. QED BY <1>7, <1>8, <1>9, Zenon DEF PendingOK

\* No step takes back what was written or sent, so a queue that is left alone is
\* as readable as before.
LEMMA WakeupKept ==
    ASSUME TypeInv, QueuesInv, NoLostWakeup, WrittenGrows, TsnGrows,
           UNCHANGED <<rcv, live, notified>>
    PROVE  NoLostWakeup'
<1>. SUFFICES ASSUME NEW s \in live', rcv'[s].readable, IsReadable(rcv[s])' PROVE s \in notified'
  BY Zenon DEF NoLostWakeup
<1>1. s \in Streams /\ s \in live
  BY Zenon DEF TypeInv
<1>2. PICK r : r = rcv[s] /\ r = rcv'[s]
  BY Zenon
<1>3. r \in Reassembly(TSNs)
  <2>1. QueueOK(r, Received) /\ Received \subseteq TSNs
    BY <1>1, <1>2, Zenon DEF QueuesInv, Received
  <2>. QED BY <2>1, QueueGrows, Zenon DEF QueueOK
<1>4. IsReadable(r)' <=> IsReadable(r)
  BY <1>3, ReadableStable, Zenon
<1>5. IsReadable(r)
  BY <1>2, <1>4, Zenon
<1>. QED BY <1>1, <1>2, <1>5, Zenon DEF NoLostWakeup
-----------------------------------------------------------------------------
(***************************************************************************)
(* The steps.                                                              *)
(***************************************************************************)

\* Nothing is written or sent.
LEMMA SameChunks ==
    ASSUME TypeInv, UNCHANGED <<tsn, written>>
    PROVE  WrittenGrows /\ TsnGrows
<1>1. Len(written) \in Nat /\ Len(tsn) \in Nat
  BY DEF TypeInv
<1>. DEFINE D == [m : 1 .. Len(written), k : Nat, s : Streams]
<1>2. tsn \in Seq(D)
  BY Zenon DEF TypeInv
<1>3. \A t \in TSNs : tsn[t] \in Chunk(Len(written))
  <2>1. D \subseteq Chunk(Len(written))
    BY <1>1 DEF Chunk
  <2>. HIDE DEF D
  <2>2. \A t \in TSNs : tsn[t] \in D
    BY <1>2 DEF TSNs
  <2>. QED BY <2>1, <2>2, Zenon
<1>4. Len(written) <= Len(written) /\ Len(tsn) <= Len(tsn)
  BY <1>1
<1>. QED BY <1>1, <1>3, <1>4, Zenon DEF WrittenGrows, TsnGrows

\* Steps of side A that neither write nor send.
LEMMA SideA ==
    ASSUME StreamsInv, UNCHANGED <<config, tsn, written, sent, pending, forwards, b>>,
           registered' \subseteq DOMAIN config.stream, ssn' \in [Streams -> Nat], advanced' \in Nat,
           TimerInv'
    PROVE  StreamsInv'
<1>1. TypeInv /\ QueuesInv /\ NoLostWakeup
  BY Zenon DEF StreamsInv
<1>2. UNCHANGED <<last_tsn, queue, live, rcv, notified>>
  BY Zenon DEF b
<1>3. WrittenGrows /\ TsnGrows
  BY <1>1, SameChunks, Zenon
<1>4. NoLostWakeup'
  BY <1>1, <1>2, <1>3, WakeupKept, Zenon
<1>5. PendingOK(pending)'
  <2>1. PICK p : p = pending /\ p = pending'
    BY Zenon
  <2>2. PendingOK(p)'
    BY <1>1, <1>3, <2>1, PendingStable, Zenon DEF TypeInv
  <2>. QED BY <2>1, <2>2, Zenon
<1>6. TypeInv'
  BY <1>1, <1>2, <1>5, Zenon DEF TypeInv, TSNs
<1>7. QueuesInv'
  <2>1. Received' = Received
    BY <1>2, Zenon DEF Received, TSNs
  <2>. QED BY <1>1, <1>2, <2>1, Zenon
             DEF QueuesInv, QueueOK, Reassembly, Disjoint, Counted, InOrdered, InUnordered
<1>. QED BY <1>4, <1>6, <1>7, Zenon DEF StreamsInv

\* open_stream starts a stream's sequence numbers again and leaves all queues alone.
LEMMA OpenInv == ASSUME StreamsInv, NEW s \in Streams, Open(s) PROVE StreamsInv'
<1>1. /\ UNCHANGED <<config, tsn, written, sent, pending, forwards, b>>
      /\ UNCHANGED <<advanced, reconfigs, t_reconfig, retrans>>
      /\ registered' = registered \cup {s} /\ s \in DOMAIN config.stream
      /\ ssn' = [ssn EXCEPT ![s] = 0]
  BY Zenon DEF Open, network, timer
<1>2. ssn' \in [Streams -> Nat] /\ advanced' \in Nat /\ registered' \subseteq DOMAIN config.stream
  BY <1>1 DEF StreamsInv, TypeInv
<1>3. TimerInv'
  BY <1>1, Zenon DEF StreamsInv, TimerInv, ResetArmed
<1>. QED BY <1>1, <1>2, <1>3, SideA, Zenon

\* Stream::finish closes the write direction only.
LEMMA FinishInv == ASSUME StreamsInv, NEW s \in Streams, Finish(s) PROVE StreamsInv'
<1>1. /\ UNCHANGED <<config, tsn, written, sent, pending, forwards, b>>
      /\ UNCHANGED <<registered, ssn, advanced, reconfigs, t_reconfig, retrans>>
  BY Zenon DEF Finish, network, history, timer
<1>2. ssn' \in [Streams -> Nat] /\ advanced' \in Nat /\ registered' \subseteq DOMAIN config.stream
  BY <1>1, Zenon DEF StreamsInv, TypeInv
<1>3. TimerInv'
  BY <1>1, Zenon DEF StreamsInv, TimerInv, ResetArmed
<1>. QED BY <1>1, <1>2, <1>3, SideA, Zenon

\* handle_sack and the T3-rtx timeout move points of side A only.
LEMMA SackInv == ASSUME StreamsInv, HandleSack \/ T3Timeout PROVE StreamsInv'
<1>1. /\ UNCHANGED <<config, tsn, written, sent, pending, forwards, b>>
      /\ UNCHANGED <<registered, ssn, reconfigs, t_reconfig, retrans>>
  BY Zenon DEF HandleSack, T3Timeout, network, history, timer
<1>2. advanced' \in 0 .. Len(tsn)
  BY Zenon DEF HandleSack, T3Timeout
<1>3. ssn' \in [Streams -> Nat] /\ registered' \subseteq DOMAIN config.stream
  BY <1>1, Zenon DEF StreamsInv, TypeInv
<1>4. TimerInv'
  BY <1>1, Zenon DEF StreamsInv, TimerInv, ResetArmed
<1>5. advanced' \in Nat
  BY <1>2
<1>. QED BY <1>1, <1>3, <1>4, <1>5, SideA, Zenon

\* reset_streams_if_any on side A sends a request that is not stop()'s own.
LEMMA ReplyInv == ASSUME StreamsInv, NEW sis, HandleReply(sis) PROVE StreamsInv'
<1>1. /\ UNCHANGED <<config, tsn, written, sent, pending, forwards, b>>
      /\ UNCHANGED <<ssn, advanced, t_reconfig, retrans>>
      /\ registered' \subseteq registered
      /\ reconfigs' = reconfigs \cup {[rsn |-> rsn, own |-> FALSE]}
  BY Zenon DEF HandleReply, history, timer
<1>2. ssn' \in [Streams -> Nat] /\ advanced' \in Nat /\ registered' \subseteq DOMAIN config.stream
  BY <1>1, Zenon DEF StreamsInv, TypeInv
<1>3. TimerInv'
  BY <1>1 DEF StreamsInv, TimerInv, ResetArmed
<1>. QED BY <1>1, <1>2, <1>3, SideA, Zenon

\* handle_reconfig_param stops the Reconfig timer with the last request only.
LEMMA ResponseInv == ASSUME StreamsInv, NEW n, HandleResponse(n) PROVE StreamsInv'
<1>1. /\ UNCHANGED <<config, tsn, written, sent, pending, forwards, b>>
      /\ UNCHANGED <<registered, ssn, advanced>>
      /\ reconfigs' = {r \in reconfigs : r.rsn # n}
      /\ t_reconfig' = (t_reconfig /\ reconfigs' # {})
      /\ retrans' = IF reconfigs' = {} THEN 0 ELSE retrans
  BY Zenon DEF HandleResponse, network, history
<1>2. ssn' \in [Streams -> Nat] /\ advanced' \in Nat /\ registered' \subseteq DOMAIN config.stream
  BY <1>1, Zenon DEF StreamsInv, TypeInv
<1>3. TimerInv'
  <2>1. CASE reconfigs' = {}
    <3>1. retrans' = 0 /\ ~t_reconfig'
      BY <1>1, <2>1, Zenon
    <3>2. ~(retrans' > 0)
      BY <3>1
    <3>. QED BY <2>1, <3>1, <3>2, Zenon DEF TimerInv, ResetArmed
  <2>2. CASE reconfigs' # {}
    <3>1. UNCHANGED <<retrans, config>> /\ (t_reconfig => t_reconfig')
      BY <1>1, <2>2, Zenon
    <3>. QED BY <1>1, <2>2, <3>1, Zenon DEF StreamsInv, TimerInv, ResetArmed
  <2>. QED BY <2>1, <2>2, Zenon
<1>. QED BY <1>1, <1>2, <1>3, SideA, Zenon

\* The Reconfig timer is started again until it is given up.
LEMMA TimeoutInv == ASSUME StreamsInv, ReconfigTimeout PROVE StreamsInv'
<1>1. /\ UNCHANGED <<config, tsn, written, sent, pending, forwards, b>>
      /\ UNCHANGED <<registered, ssn, advanced, reconfigs>>
      /\ t_reconfig /\ (retrans' > config.retrans \/ t_reconfig')
  BY Zenon DEF ReconfigTimeout, network, history
<1>2. ssn' \in [Streams -> Nat] /\ advanced' \in Nat /\ registered' \subseteq DOMAIN config.stream
  BY <1>1, Zenon DEF StreamsInv, TypeInv
<1>3. TimerInv'
  BY <1>1, Zenon DEF StreamsInv, TimerInv, ResetArmed
<1>. QED BY <1>1, <1>2, <1>3, SideA, Zenon

\* The chunks of q followed by others.
Followed(q, chunks) ==
    \A i \in DOMAIN (q \o chunks) :
        \/ i \in DOMAIN q /\ (q \o chunks)[i] = q[i]
        \/ i - Len(q) \in DOMAIN chunks /\ (q \o chunks)[i] = chunks[i - Len(q)]

\* Chunks are appended to one of the two queues.
LEMMA Appended ==
    ASSUME NEW C, NEW q \in Seq(C), EndsWhole(q), NEW chunks \in Seq(C), chunks # <<>>,
           Ends(chunks[Len(chunks)])
    PROVE  q \o chunks \in Seq(C) /\ EndsWhole(q \o chunks) /\ Followed(q, chunks)
<1>1. /\ q \o chunks \in Seq(C)
      /\ (q \o chunks)[Len(q \o chunks)] = chunks[Len(chunks)]
      /\ \A i \in DOMAIN (q \o chunks) :
           \/ i \in DOMAIN q /\ (q \o chunks)[i] = q[i]
           \/ i - Len(q) \in DOMAIN chunks /\ (q \o chunks)[i] = chunks[i - Len(q)]
  OBVIOUS
<1>. QED BY <1>1, Zenon DEF EndsWhole, Followed

\* Chunks of a message join the queue of its kind.
LEMMA PendingJoined ==
    ASSUME NEW p, PendingOK(p), NEW chunks \in Seq(Chunk(Len(written))), chunks # <<>>,
           Ends(chunks[Len(chunks)])
    PROVE  /\ (\A i \in DOMAIN chunks : Unordered(chunks[i]))
                => PendingOK([p EXCEPT !.u = @ \o chunks])
           /\ (\A i \in DOMAIN chunks : ~Unordered(chunks[i]))
                => PendingOK([p EXCEPT !.o = @ \o chunks])
<1>. DEFINE C == Chunk(Len(written))
<1>1. /\ p \in [u : Seq(C), o : Seq(C), selected : BOOLEAN, unordered_is_selected : BOOLEAN]
      /\ EndsWhole(p.u) /\ EndsWhole(p.o)
      /\ \A i \in DOMAIN p.u : Unordered(p.u[i])
      /\ \A i \in DOMAIN p.o : ~Unordered(p.o[i])
      /\ p.selected /\ p.unordered_is_selected => p.u # <<>>
      /\ p.selected /\ ~p.unordered_is_selected => p.o # <<>>
  BY Zenon DEF PendingOK
<1>2. p.u \in Seq(C) /\ p.o \in Seq(C) /\ chunks \in Seq(C)
  BY <1>1
<1>. HIDE DEF C
<1>3. p.u \o chunks \in Seq(C) /\ EndsWhole(p.u \o chunks) /\ Followed(p.u, chunks)
  BY <1>1, <1>2, Appended, Zenon
<1>4. p.o \o chunks \in Seq(C) /\ EndsWhole(p.o \o chunks) /\ Followed(p.o, chunks)
  BY <1>1, <1>2, Appended, Zenon
<1>5. p.u \o chunks # <<>> /\ p.o \o chunks # <<>>
  BY <1>2
<1>6. ASSUME \A i \in DOMAIN chunks : Unordered(chunks[i])
      PROVE  PendingOK([p EXCEPT !.u = @ \o chunks])
  <2>. DEFINE v == p.u \o chunks  q == [p EXCEPT !.u = @ \o chunks]
  <2>1. q = [p EXCEPT !.u = v]
    BY <1>1
  <2>2. \A i \in DOMAIN v : Unordered(v[i])
    BY <1>1, <1>3, <1>6, Zenon DEF Followed
  <2>. HIDE DEF v, q
  <2>3. /\ q \in [u : Seq(C), o : Seq(C), selected : BOOLEAN, unordered_is_selected : BOOLEAN]
        /\ q.u = v /\ q.o = p.o /\ q.selected = p.selected
        /\ q.unordered_is_selected = p.unordered_is_selected
    <3>1. v \in Seq(C)
      BY <1>3, Zenon DEF v
    <3>. QED BY <2>1, <3>1, <1>1
  <2>4. EndsWhole(v) /\ v # <<>>
    BY <1>3, <1>5, Zenon DEF v
  <2>5. PendingOK(q)
    BY <2>2, <2>3, <2>4, <1>1, Zenon DEF PendingOK, C
  <2>. QED BY <2>5, Zenon DEF q
<1>7. ASSUME \A i \in DOMAIN chunks : ~Unordered(chunks[i])
      PROVE  PendingOK([p EXCEPT !.o = @ \o chunks])
  <2>. DEFINE v == p.o \o chunks  q == [p EXCEPT !.o = @ \o chunks]
  <2>1. q = [p EXCEPT !.o = v]
    BY <1>1
  <2>2. \A i \in DOMAIN v : ~Unordered(v[i])
    BY <1>1, <1>4, <1>7, Zenon DEF Followed
  <2>. HIDE DEF v, q
  <2>3. /\ q \in [u : Seq(C), o : Seq(C), selected : BOOLEAN, unordered_is_selected : BOOLEAN]
        /\ q.o = v /\ q.u = p.u /\ q.selected = p.selected
        /\ q.unordered_is_selected = p.unordered_is_selected
    <3>1. v \in Seq(C)
      BY <1>4, Zenon DEF v
    <3>. QED BY <2>1, <3>1, <1>1
  <2>4. EndsWhole(v) /\ v # <<>>
    BY <1>4, <1>5, Zenon DEF v
  <2>5. PendingOK(q)
    BY <2>2, <2>3, <2>4, <1>1, Zenon DEF PendingOK, C
  <2>. QED BY <2>5, Zenon DEF q
<1>. QED BY <1>6, <1>7, Zenon

\* The same for all queues and chunks.
Joins ==
    \A p, chunks : PendingOK(p) /\ chunks \in Seq(Chunk(Len(written))) /\ chunks # <<>>
                     /\ Ends(chunks[Len(chunks)])
        => /\ (\A i \in DOMAIN chunks : Unordered(chunks[i]))
                 => PendingOK([p EXCEPT !.u = @ \o chunks])
           /\ (\A i \in DOMAIN chunks : ~Unordered(chunks[i]))
                 => PendingOK([p EXCEPT !.o = @ \o chunks])

\* Chunks of whole messages can be appended to a queue in every state.
LEMMA AllJoin == Joins
  BY PendingJoined, Zenon DEF Joins

\* Stream::stop on side A queues a marker, which is a message of its own.
LEMMA StopInv == ASSUME StreamsInv, NEW s \in Streams, Stop(s) PROVE StreamsInv'
<1>. DEFINE c == [m |-> 0, k |-> 0, s |-> s]
<1>1. /\ UNCHANGED <<config, registered, ssn, tsn, advanced, reconfigs, t_reconfig, retrans>>
      /\ UNCHANGED <<forwards, written, sent>>
      /\ UNCHANGED <<last_tsn, queue, live, rcv, notified>>
      /\ pending' = [pending EXCEPT !.o = Append(@, c)]
  BY Zenon DEF Stop, b, network, timer
<1>2. TypeInv /\ QueuesInv /\ NoLostWakeup /\ TimerInv
  BY Zenon DEF StreamsInv
<1>3. WrittenGrows /\ TsnGrows
  BY <1>1, <1>2, SameChunks, Zenon
<1>4. PendingOK(pending')
  <2>1. Len(written) \in Nat
    BY <1>2 DEF TypeInv
  <2>2. c \in Chunk(Len(written)) /\ Ends(c) /\ ~Unordered(c)
    BY <2>1 DEF Chunk, Ends, Unordered
  <2>. HIDE DEF c
  <2>3. /\ <<c>> \in Seq(Chunk(Len(written))) /\ <<c>> # <<>> /\ <<c>>[Len(<<c>>)] = c
        /\ \A i \in DOMAIN <<c>> : <<c>>[i] = c
    BY <2>2
  <2>4. PendingOK(pending)
    BY <1>2, Zenon DEF TypeInv
  <2>5. pending.o \in Seq(Chunk(Len(written)))
    BY <2>4 DEF PendingOK
  <2>6. Append(pending.o, c) = pending.o \o <<c>>
    BY <2>5
  <2>7. DOMAIN pending = {"u", "o", "selected", "unordered_is_selected"}
    BY <2>4 DEF PendingOK
  <2>8. pending' = [pending EXCEPT !.o = @ \o <<c>>]
    BY <1>1, <2>6, <2>7, Zenon
  <2>9. PendingOK([pending EXCEPT !.o = @ \o <<c>>])
    BY <2>2, <2>3, <2>4, PendingJoined, Zenon
  <2>. QED BY <2>8, <2>9, Zenon
<1>5. PendingOK(pending)'
  <2>1. PICK p : p = pending'
    BY Zenon
  <2>2. PendingOK(p)'
    BY <1>3, <1>4, <2>1, PendingStable, Zenon
  <2>. QED BY <2>1, <2>2, Zenon
<1>6. TypeInv'
  BY <1>1, <1>2, <1>5, Zenon DEF TypeInv, TSNs
<1>7. NoLostWakeup'
  BY <1>1, <1>2, <1>3, WakeupKept, Zenon
<1>8. QueuesInv'
  <2>1. Received' = Received
    BY <1>1, Zenon DEF Received, TSNs
  <2>. QED BY <1>1, <1>2, <2>1, Zenon
             DEF QueuesInv, QueueOK, Reassembly, Disjoint, Counted, InOrdered, InUnordered
<1>9. TimerInv'
  BY <1>1, <1>2, Zenon DEF TimerInv, ResetArmed
<1>. QED BY <1>6, <1>7, <1>8, <1>9, Zenon DEF StreamsInv

\* What is received grows, so the queues stay in order.
LEMMA QueuesKept ==
    ASSUME QueuesInv, UNCHANGED rcv, Received \subseteq Received'
    PROVE  QueuesInv'
<1>. SUFFICES ASSUME NEW s \in Streams PROVE QueueOK(rcv[s], Received)'
  BY Zenon DEF QueuesInv
<1>1. QueueOK(rcv[s], Received')
  BY QueueGrows, Zenon DEF QueuesInv
<1>. QED BY <1>1, Zenon DEF QueueOK, Reassembly, Disjoint, Counted, InOrdered, InUnordered

\* write_source queues all the fragments of one message, in the queue of its kind.
LEMMA WriteInv ==
    ASSUME StreamsInv, NEW s \in Streams, NEW n \in 1 .. config.frags, Write(s, n)
    PROVE  StreamsInv'
<1>. DEFINE unordered == config.stream[s].unordered /\ s \notin silent
            reliable == s \in silent \/ config.stream[s].type = "Reliable"
            w == Len(written)
            chunks == [k \in 1 .. n |-> [m |-> w + 1, k |-> k, s |-> s]]
            msg == [s |-> s, ssn |-> ssn[s], unordered |-> unordered, frags |-> n,
                    pos |-> Len(sent[s]) + 1, dcep |-> s \in silent, reliable |-> reliable]
<1>1. /\ UNCHANGED <<config, registered, tsn, advanced, reconfigs, t_reconfig, retrans, forwards>>
      /\ UNCHANGED <<last_tsn, queue, live, rcv, notified>>
      /\ written' = Append(written, msg)
      /\ sent' = [sent EXCEPT ![s] = Append(@, [ordered |-> ~unordered, reliable |-> reliable])]
      /\ ssn' = [ssn EXCEPT ![s] = NextSsn(s, unordered)]
      /\ pending' = IF unordered THEN [pending EXCEPT !.u = @ \o chunks]
                                 ELSE [pending EXCEPT !.o = @ \o chunks]
  BY Zenon DEF Write, b, network, timer
<1>2. TypeInv /\ QueuesInv /\ NoLostWakeup /\ TimerInv
  BY Zenon DEF StreamsInv
<1>3. n \in Nat \ {0}
  BY <1>2, StreamsAssumption DEF TypeInv
<1>4. w \in Nat /\ written \in Seq(Message) /\ ssn \in [Streams -> Nat]
  BY <1>2 DEF TypeInv
<1>5. unordered \in BOOLEAN /\ reliable \in BOOLEAN /\ (s \in silent) \in BOOLEAN
  OBVIOUS
<1>6. msg \in Message /\ msg.unordered = unordered /\ msg.frags = n
  <2>1. Len(sent[s]) + 1 \in Nat
    BY <1>2 DEF TypeInv
  <2>2. ssn[s] \in Nat
    BY <1>4
  <2>. HIDE DEF unordered, reliable
  <2>. QED BY <1>3, <1>5, <2>1, <2>2 DEF Message
<1>. HIDE DEF msg
<1>7. /\ written' \in Seq(Message) /\ Len(written') = w + 1 /\ written'[w + 1] = msg
      /\ \A m \in 1 .. w : written'[m] = written[m]
  BY <1>1, <1>4, <1>6, SMTT(60)
<1>8. WrittenGrows
  BY <1>4, <1>7 DEF WrittenGrows
<1>9. TsnGrows
  <2>. DEFINE D == [m : 1 .. w, k : Nat, s : Streams]
  <2>1. tsn \in Seq(D)
    BY <1>2, Zenon DEF TypeInv
  <2>2. D \subseteq Chunk(w)
    BY <1>4 DEF Chunk
  <2>. HIDE DEF D
  <2>3. \A t \in TSNs : tsn[t] \in D
    BY <2>1 DEF TSNs
  <2>4. Len(tsn) \in Nat /\ Len(tsn) <= Len(tsn)
    BY <2>1
  <2>. QED BY <1>1, <2>2, <2>3, <2>4, Zenon DEF TsnGrows
<1>10. PICK v : v = chunks
  BY Zenon
<1>11. PICK x : x = w + 1
  BY Zenon
<1>12. /\ v \in Seq(Chunk(x)) /\ v # <<>> /\ Len(v) = n /\ x = Len(written') /\ x # 0
       /\ \A i \in DOMAIN v : v[i].m = x
       /\ v[Len(v)].k = n /\ v[Len(v)].m = x
  <2>1. \A k \in 1 .. n : [m |-> w + 1, k |-> k, s |-> s] \in Chunk(w + 1)
    BY <1>3, <1>4 DEF Chunk
  <2>2. chunks \in Seq(Chunk(w + 1)) /\ Len(chunks) = n
    BY <1>3, <2>1
  <2>3. v \in Seq(Chunk(x)) /\ Len(v) = n /\ x = Len(written')
    BY <2>2, <1>7, <1>10, <1>11, Zenon
  <2>4. v # <<>> /\ x # 0 /\ n \in 1 .. n
    BY <2>3, <1>3, <1>4, <1>11
  <2>5. DOMAIN v = 1 .. n /\ \A i \in 1 .. n : v[i] = [m |-> x, k |-> i, s |-> s]
    BY <1>10, <1>11, Zenon
  <2>6. \A i \in 1 .. n : v[i].m = x /\ v[i].k = i
    BY <2>5
  <2>. QED BY <2>3, <2>4, <2>5, <2>6, Zenon
<1>13. PICK u : u = unordered
  BY Zenon
<1>14. pending' = IF u THEN [pending EXCEPT !.u = @ \o v] ELSE [pending EXCEPT !.o = @ \o v]
  BY <1>1, <1>10, <1>13, Zenon
<1>15. written'[x].unordered = u /\ written'[x].frags = n
  BY <1>6, <1>7, <1>11, <1>13, Zenon
<1>. HIDE DEF chunks, unordered, reliable, w
<1>16. /\ \A i \in DOMAIN v : Unordered(v[i])' <=> u
       /\ Ends(v[Len(v)])'
  <2>1. \A i \in DOMAIN v : Unordered(v[i])' <=> u
    BY <1>12, <1>15, Zenon DEF Unordered
  <2>2. Ends(v[Len(v)])'
    BY <1>12, <1>15, Zenon DEF Ends
  <2>. QED BY <2>1, <2>2, Zenon
<1>17. PendingOK(pending)'
  <2>1. PICK p : p = pending
    BY Zenon
  <2>2. PendingOK(p)'
    BY <1>2, <1>8, <2>1, PendingStable, Zenon DEF TypeInv
  <2>3. Joins'
    BY AllJoin, PTL
  <2>4. v \in Seq(Chunk(Len(written)'))
    BY <1>12, Zenon
  <2>5. /\ (\A i \in DOMAIN v : Unordered(v[i])') => PendingOK([p EXCEPT !.u = @ \o v])'
        /\ (\A i \in DOMAIN v : ~Unordered(v[i])') => PendingOK([p EXCEPT !.o = @ \o v])'
    BY <1>12, <1>16, <2>2, <2>3, <2>4, Zenon DEF Joins
  <2>6. CASE u
    <3>1. pending' = [p EXCEPT !.u = @ \o v]
      BY <1>14, <2>1, <2>6, Zenon
    <3>2. PendingOK([p EXCEPT !.u = @ \o v])'
      BY <1>16, <2>5, <2>6, Zenon
    <3>. QED BY <3>1, <3>2, Zenon
  <2>7. CASE ~u
    <3>1. pending' = [p EXCEPT !.o = @ \o v]
      BY <1>14, <2>1, <2>7, Zenon
    <3>2. PendingOK([p EXCEPT !.o = @ \o v])'
      BY <1>16, <2>5, <2>7, Zenon
    <3>. QED BY <3>1, <3>2, Zenon
  <2>. QED BY <2>6, <2>7, Zenon
<1>18. tsn' \in Seq([m : 1 .. Len(written'), k : Nat, s : Streams])
  <2>. DEFINE D == [m : 1 .. Len(written), k : Nat, s : Streams]
              E == [m : 1 .. Len(written'), k : Nat, s : Streams]
  <2>1. tsn \in Seq(D)
    BY <1>2, Zenon DEF TypeInv
  <2>2. D \subseteq E
    BY <1>8 DEF WrittenGrows
  <2>. HIDE DEF D, E
  <2>3. tsn' \in Seq(E)
    BY <1>1, <2>1, <2>2
  <2>. QED BY <2>3, Zenon DEF E
<1>19. ssn' \in [Streams -> Nat]
  <2>1. NextSsn(s, unordered) \in Nat
    BY <1>4, StreamsAssumption DEF NextSsn
  <2>. QED BY <1>1, <1>4, <2>1
<1>20. sent' \in [Streams -> Seq([ordered : BOOLEAN, reliable : BOOLEAN])]
  <2>1. [ordered |-> ~unordered, reliable |-> reliable] \in [ordered : BOOLEAN, reliable : BOOLEAN]
    BY <1>5
  <2>2. sent \in [Streams -> Seq([ordered : BOOLEAN, reliable : BOOLEAN])]
    BY <1>2, Zenon DEF TypeInv
  <2>. QED BY <1>1, <2>1, <2>2
<1>21. TypeInv'
  BY <1>1, <1>2, <1>7, <1>17, <1>18, <1>19, <1>20, Zenon DEF TypeInv, TSNs
<1>22. NoLostWakeup'
  BY <1>1, <1>2, <1>8, <1>9, WakeupKept, Zenon
<1>23. QueuesInv'
  <2>1. Received \subseteq Received'
    BY <1>1, Zenon DEF Received, TSNs
  <2>. QED BY <1>1, <1>2, <2>1, QueuesKept, Zenon
<1>24. TimerInv'
  BY <1>1, <1>2, Zenon DEF TimerInv, ResetArmed
<1>. QED BY <1>21, <1>22, <1>23, <1>24, Zenon DEF StreamsInv

\* gather_outbound takes chunks off the pending queue in order, gives them the next
\* TSNs, and starts the Reconfig timer whenever a marker became a request.
LEMMA PollInv ==
    ASSUME StreamsInv, NEW R, NEW n \in Nat, PollTransmit(R, n)
    PROVE  StreamsInv'
<1>. DEFINE popped == Popped(n)  D == [m : 1 .. Len(written), k : Nat, s : Streams]
<1>1. /\ UNCHANGED <<config, registered, ssn, advanced, written, sent, cum, retrans>>
      /\ UNCHANGED <<last_tsn, queue, live, rcv, notified>>
      /\ pending' = popped.p /\ tsn' = tsn \o popped.out
      /\ \/ popped.sis = {} /\ UNCHANGED reconfigs
         \/ popped.sis # {} /\ reconfigs' = reconfigs \cup {[rsn |-> rsn, own |-> TRUE]}
      /\ t_reconfig' = Armed(popped.sis)
      /\ forwards' \subseteq forwards \cup {TheForward}
  BY Zenon DEF PollTransmit, b, history
<1>2. TypeInv /\ QueuesInv /\ NoLostWakeup /\ TimerInv
  BY Zenon DEF StreamsInv
<1>3. PendingOK(popped.p) /\ popped.out \in Seq(D)
  BY <1>2, PoppedWalk, Zenon DEF TypeInv, Walk
<1>4. tsn \in Seq(D) /\ Len(written) \in Nat
  BY <1>2 DEF TypeInv
<1>5. D \subseteq Chunk(Len(written))
  BY <1>4 DEF Chunk
<1>. HIDE DEF popped, D
<1>6. WrittenGrows
  <2>1. Len(written) <= Len(written)
    BY <1>4
  <2>. QED BY <1>1, <1>4, <2>1, Zenon DEF WrittenGrows
<1>7. /\ tsn' \in Seq(D) /\ Len(tsn) \in Nat /\ Len(tsn') \in Nat /\ Len(tsn) <= Len(tsn')
      /\ \A t \in 1 .. Len(tsn) : tsn'[t] = tsn[t] /\ tsn[t] \in D
  BY <1>1, <1>3, <1>4, SMTT(60)
<1>8. TsnGrows
  BY <1>5, <1>7, Zenon DEF TsnGrows, TSNs
<1>9. PendingOK(pending)'
  <2>1. PICK p : p = pending'
    BY Zenon
  <2>2. PendingOK(p)'
    BY <1>1, <1>3, <1>6, <2>1, PendingStable, Zenon
  <2>. QED BY <2>1, <2>2, Zenon
<1>10. TheForward \in [cum : Nat, ssns : SUBSET (Streams \X Nat)]
  <2>1. \A t \in TSNs : tsn[t].s \in Streams /\ Ssn(tsn[t]) \in Nat
    <3>. SUFFICES ASSUME NEW t \in TSNs PROVE tsn[t].s \in Streams /\ Ssn(tsn[t]) \in Nat
      BY Zenon
    <3>1. tsn[t] \in D
      BY <1>7, Zenon DEF TSNs
    <3>2. tsn[t].s \in Streams /\ tsn[t].m \in 1 .. Len(written)
      BY <3>1 DEF D
    <3>3. written \in Seq(Message)
      BY <1>2, Zenon DEF TypeInv
    <3>4. written[tsn[t].m] \in Message
      BY <3>2, <3>3
    <3>5. written[tsn[t].m].ssn \in Nat
      BY <3>4 DEF Message
    <3>. QED BY <3>2, <3>5, Zenon DEF Ssn
  <2>. DEFINE skipped == {t \in TSNs : cum < t /\ t <= advanced}
              X == {x \in skipped : \A y \in skipped : tsn[y].s = tsn[x].s =>
                                              ~Sna16lt(Ssn(tsn[x]), Ssn(tsn[y]))}
              P == {<<tsn[t].s, Ssn(tsn[t])>> : t \in X}
  <2>2. TheForward = [cum |-> advanced, ssns |-> P]
    BY Zenon DEF TheForward
  <2>3. \A t \in X : <<tsn[t].s, Ssn(tsn[t])>> \in Streams \X Nat
    BY <2>1, Zenon
  <2>4. P \subseteq Streams \X Nat
    BY <2>3, Zenon
  <2>5. advanced \in Nat
    BY <1>2, Zenon DEF TypeInv
  <2>. HIDE DEF P
  <2>. QED BY <2>2, <2>4, <2>5
<1>11. TSNs \subseteq TSNs'
  BY <1>7 DEF TSNs
<1>12. last_tsn' \in 0 .. Len(tsn') /\ queue' \subseteq TSNs'
  <2>1. last_tsn \in 0 .. Len(tsn) /\ queue \subseteq TSNs
    BY <1>2, Zenon DEF TypeInv
  <2>2. last_tsn \in 0 .. Len(tsn')
    BY <1>7, <2>1
  <2>. QED BY <1>1, <1>11, <2>1, <2>2, Zenon
<1>13. tsn' \in Seq([m : 1 .. Len(written'), k : Nat, s : Streams])
  BY <1>1, <1>7, Zenon DEF D
<1>14. forwards' \subseteq [cum : Nat, ssns : SUBSET (Streams \X Nat)]
  BY <1>1, <1>2, <1>10, Zenon DEF TypeInv
<1>15. TypeInv'
  BY <1>1, <1>2, <1>9, <1>12, <1>13, <1>14, Zenon DEF TypeInv
<1>16. NoLostWakeup'
  BY <1>1, <1>2, <1>6, <1>8, WakeupKept, Zenon
<1>17. QueuesInv'
  <2>1. Received \subseteq Received'
    BY <1>1, <1>11, Zenon DEF Received
  <2>. QED BY <1>1, <1>2, <2>1, QueuesKept, Zenon
<1>18. TimerInv'
  <2>1. CASE popped.sis = {}
    BY <1>1, <1>2, <2>1, Zenon DEF TimerInv, ResetArmed, Armed
  <2>2. CASE popped.sis # {}
    <3>1. reconfigs' # {} /\ t_reconfig'
      BY <1>1, <2>2, Zenon DEF Armed
    <3>. QED BY <3>1, <1>1, Zenon DEF TimerInv, ResetArmed
  <2>. QED BY <2>1, <2>2, Zenon
<1>. QED BY <1>15, <1>16, <1>17, <1>18, Zenon DEF StreamsInv

-----------------------------------------------------------------------------
(***************************************************************************)
(* Side B.                                                                 *)
(***************************************************************************)

\* Steps of side B: neither the chunks nor what side A knows changes.
LEMMA SideB ==
    ASSUME StreamsInv, UNCHANGED <<config, a, forwards, written, sent>>,
           last_tsn' \in 0 .. Len(tsn), queue' \subseteq TSNs, live' \subseteq Streams,
           DOMAIN rcv' = Streams,
           \A s \in Streams : QueueOK(rcv'[s], Received'),
           \A s \in live' : rcv'[s].readable /\ IsReadable(rcv'[s]) => s \in notified'
    PROVE  StreamsInv'
<1>1. TypeInv /\ QueuesInv /\ NoLostWakeup /\ TimerInv
  BY Zenon DEF StreamsInv
<1>2. UNCHANGED <<registered, ssn, pending, tsn, advanced, reconfigs, t_reconfig, retrans>>
  BY Zenon DEF a, timer
<1>3. PendingOK(pending)'
  <2>1. PICK p : p = pending /\ p = pending'
    BY <1>2, Zenon
  <2>2. PendingOK(p)'
    BY <1>1, <1>2, <2>1, SameChunks, PendingStable, Zenon DEF TypeInv
  <2>. QED BY <2>1, <2>2, Zenon
<1>4. TypeInv'
  BY <1>1, <1>2, <1>3, Zenon DEF TypeInv, TSNs
<1>5. QueuesInv'
  BY Zenon
             DEF QueuesInv, QueueOK, Reassembly, Disjoint, Counted, InOrdered, InUnordered
<1>6. \A r : IsReadable(r)' <=> IsReadable(r)
  BY <1>2, ZenonT(60) DEF IsReadable, ReadableOrdered, IsComplete, Begins, Ends, Min, Max,
                     Sna16lte, Sna16gt, Sna16lt, Half
<1>7. NoLostWakeup'
  <2>. SUFFICES ASSUME NEW s \in live', rcv'[s].readable, IsReadable(rcv[s])' PROVE s \in notified'
    BY Zenon DEF NoLostWakeup
  <2>1. PICK r : r = rcv'[s]
    BY Zenon
  <2>2. IsReadable(r)' <=> IsReadable(r)
    BY <1>6, Zenon
  <2>3. IsReadable(r)
    BY <2>1, <2>2, Zenon
  <2>. QED BY <2>1, <2>3, Zenon
<1>8. TimerInv'
  BY <1>1, <1>2, Zenon DEF TimerInv, ResetArmed
<1>. QED BY <1>4, <1>5, <1>7, <1>8, Zenon DEF StreamsInv

\* Facts of every state that the steps of side B use.
LEMMA StateB ==
    ASSUME StreamsInv
    PROVE  /\ Len(tsn) \in Nat /\ TSNs = 1 .. Len(tsn) /\ last_tsn \in 0 .. Len(tsn)
           /\ queue \subseteq TSNs /\ live \subseteq Streams /\ DOMAIN rcv = Streams
           /\ Received \in SUBSET (1 .. Len(tsn))
           /\ \A t \in TSNs : tsn[t].s \in Streams /\ Ssn(tsn[t]) \in Nat
           /\ \A s \in Streams : QueueOK(rcv[s], Received)
           /\ \A s \in live : rcv[s].readable /\ IsReadable(rcv[s]) => s \in notified
<1>. DEFINE D == [m : 1 .. Len(written), k : Nat, s : Streams]
<1>1. TypeInv /\ QueuesInv /\ NoLostWakeup
  BY Zenon DEF StreamsInv
<1>2. tsn \in Seq(D)
  BY <1>1, Zenon DEF TypeInv
<1>. HIDE DEF D
<1>3. Len(tsn) \in Nat /\ \A t \in TSNs : tsn[t] \in D
  BY <1>2 DEF TSNs
<1>4. ASSUME NEW t \in TSNs PROVE tsn[t].s \in Streams /\ Ssn(tsn[t]) \in Nat
  <2>1. tsn[t] \in D
    BY <1>3, Zenon
  <2>2. tsn[t].s \in Streams /\ tsn[t].m \in 1 .. Len(written)
    BY <2>1 DEF D
  <2>3. written[tsn[t].m] \in Message
    BY <1>1, <2>2, SMTT(60) DEF TypeInv
  <2>4. written[tsn[t].m].ssn \in Nat
    BY <2>3 DEF Message
  <2>. QED BY <2>2, <2>4, Zenon DEF Ssn
<1>5. Received \in SUBSET (1 .. Len(tsn)) /\ TSNs = 1 .. Len(tsn)
  BY Zenon DEF Received, TSNs
<1>6. last_tsn \in 0 .. Len(tsn) /\ queue \subseteq TSNs /\ live \subseteq Streams /\ DOMAIN rcv = Streams
  BY <1>1, Zenon DEF TypeInv
<1>. QED BY <1>1, <1>3, <1>4, <1>5, <1>6, Zenon DEF QueuesInv, NoLostWakeup

\* handle_data pushes a chunk it has not acknowledged before, and reports a Readable
\* event if the stream has become readable by it.
LEMMA DataInv ==
    ASSUME StreamsInv, NEW t \in TSNs, HandleData(t)
    PROVE  StreamsInv'
<1>. DEFINE s == tsn[t].s
            r == IF s \in live THEN rcv[s] ELSE NewQueue
            S == Received  T == Received \cup {t}
<1>1. PICK q \in 0 .. Len(tsn) :
             /\ Reaches(last_tsn, queue \cup {t}, q)
             /\ last_tsn' = q
             /\ queue' = {x \in queue \cup {t} : x > q}
             /\ live' = AfterResets(last_tsn, q, live \cup {s})
             /\ rcv' = [x \in Streams |-> IF x \notin live' THEN NewQueue
                                         ELSE IF x = s THEN Push(r, t) ELSE rcv[x]]
  BY Zenon DEF HandleData
<1>2. /\ notified' = notified \cup (IF Completes(r, t) THEN {s} ELSE {})
      /\ Accepts(t) /\ UNCHANGED <<config, a, forwards, written, sent>>
  BY Zenon DEF HandleData, history
<1>3. /\ Len(tsn) \in Nat /\ TSNs = 1 .. Len(tsn) /\ last_tsn \in 0 .. Len(tsn)
      /\ queue \subseteq TSNs /\ live \subseteq Streams
      /\ S \in SUBSET (1 .. Len(tsn))
      /\ s \in Streams /\ Ssn(tsn[t]) \in Nat
      /\ \A x \in Streams : QueueOK(rcv[x], S)
      /\ \A x \in live : rcv[x].readable /\ IsReadable(rcv[x]) => x \in notified
  BY StateB, Zenon
<1>4. t \notin S
  <2>1. ~(t <= last_tsn)
    BY <1>2, <1>3, SMTT(60) DEF Accepts
  <2>. QED BY <1>2, <2>1, Zenon DEF Accepts, Received
<1>5. last_tsn <= q /\ queue' \subseteq TSNs
  BY <1>1, <1>3, Zenon DEF Reaches
<1>6. T \subseteq Received'
  <2>. SUFFICES ASSUME NEW x \in T PROVE x \in Received'
    BY Zenon
  <2>1. x \in TSNs /\ x \in Nat /\ (x <= last_tsn \/ x \in queue \cup {t})
    BY <1>3, SMTT(60) DEF Received
  <2>2. TSNs' = TSNs
    BY <1>2, Zenon DEF TSNs, a
  <2>3. x <= q \/ x > q
    BY <2>1
  <2>4. CASE x <= q
    BY <2>1, <2>2, <2>4, <1>1, Zenon DEF Received
  <2>5. CASE x > q
    <3>1. ~(x <= last_tsn)
      BY <2>1, <2>5, <1>3, <1>5, SMTT(60)
    <3>2. x \in queue'
      BY <2>1, <2>5, <3>1, <1>1, Zenon
    <3>. QED BY <3>2, <2>1, <2>2, Zenon DEF Received
  <2>. QED BY <2>3, <2>4, <2>5, Zenon
<1>7. live' \subseteq live \cup {s}
  BY <1>1, Zenon DEF AfterResets
<1>8. QueueOK(r, S)
  BY <1>3, NewQueueOK, Zenon
<1>9. QueueOK(Push(r, t), T) /\ Push(r, t).readable = r.readable
  <2>1. t \in 1 .. Len(tsn)
    BY <1>3, Zenon
  <2>. HIDE DEF r, S, s
  <2>2. QueueOK(Push(r, t), S \cup {t}) /\ Push(r, t).readable = r.readable
    BY <1>3, <1>4, <1>8, <2>1, PushOK
  <2>. QED BY <2>2, Zenon DEF S
<1>10. IsReadable(Push(r, t)) /\ ~Completes(r, t) => IsReadable(r)
  <2>. HIDE DEF r, S, s
  <2>. QED BY <1>3, <1>4, <1>8, PushReadable, Zenon
<1>11. ASSUME NEW x \in Streams PROVE QueueOK(rcv'[x], Received')
  <2>1. CASE x \notin live'
    <3>1. rcv'[x] = NewQueue
      BY <1>1, <2>1, Zenon
    <3>. QED BY <3>1, NewQueueOK, Zenon
  <2>2. CASE x \in live' /\ x = s
    <3>1. rcv'[x] = Push(r, t)
      BY <1>1, <2>2, Zenon
    <3>2. QueueOK(Push(r, t), Received')
      <4>. HIDE DEF r, T
      <4>. QED BY <1>6, <1>9, QueueGrows, Zenon
    <3>. QED BY <3>1, <3>2, Zenon
  <2>3. CASE x \in live' /\ x # s
    <3>1. rcv'[x] = rcv[x] /\ QueueOK(rcv[x], S)
      BY <1>1, <1>3, <2>3, Zenon
    <3>2. S \subseteq Received'
      BY <1>6, Zenon
    <3>3. QueueOK(rcv[x], Received')
      BY <3>1, <3>2, QueueGrows, Zenon
    <3>. QED BY <3>1, <3>3, Zenon
  <2>. QED BY <2>1, <2>2, <2>3, Zenon
<1>12. ASSUME NEW x \in live', rcv'[x].readable, IsReadable(rcv'[x]) PROVE x \in notified'
  <2>0. x \in Streams
    BY <1>3, <1>7, Zenon
  <2>1. CASE x = s
    <3>1. rcv'[x] = Push(r, t)
      BY <1>1, <2>0, <2>1, Zenon
    <3>2. CASE Completes(r, t)
      BY <1>2, <2>1, <3>2, Zenon
    <3>3. CASE ~Completes(r, t)
      <4>1. IsReadable(r) /\ r.readable
        BY <1>9, <1>10, <1>12, <3>1, <3>3, Zenon
      <4>2. s \in live /\ r = rcv[s]
        BY <4>1, NewQueueOK, Zenon
      <4>. QED BY <4>1, <4>2, <1>2, <1>3, <2>1, Zenon
    <3>. QED BY <3>2, <3>3, Zenon
  <2>2. CASE x # s
    <3>1. rcv'[x] = rcv[x] /\ x \in live
      BY <1>1, <1>7, <2>0, <2>2, Zenon
    <3>. QED BY <3>1, <1>2, <1>3, <1>12, Zenon
  <2>. QED BY <2>1, <2>2, Zenon
<1>13. last_tsn' \in 0 .. Len(tsn) /\ DOMAIN rcv' = Streams /\ live' \subseteq Streams
  BY <1>1, <1>3, <1>7, Zenon
<1>. QED BY <1>2, <1>5, <1>11, <1>12, <1>13, SideB, Zenon

\* What handle_forward_tsn leaves in a stream's queue.
LEMMA ForwardedOK ==
    ASSUME StreamsInv, NEW f \in forwards, NEW s \in Streams
    PROVE  QueueOK(Forwarded(s, f), Received)
<1>1. f \in [cum : Nat, ssns : SUBSET (Streams \X Nat)]
  BY Zenon DEF StreamsInv, TypeInv
<1>2. f.cum \in Nat /\ f.ssns \subseteq Streams \X Nat
  BY <1>1
<1>3. QueueOK(rcv[s], Received) /\ Len(tsn) \in Nat /\ Received \in SUBSET (1 .. Len(tsn))
  BY StateB, Zenon
<1>4. CASE rcv[s].flag
  <2>1. Forwarded(s, f) = ForwardUnordered(rcv[s], f.cum)
    BY <1>4, Zenon DEF Forwarded
  <2>2. QueueOK(ForwardUnordered(rcv[s], f.cum), Received)
    BY <1>2, <1>3, ForwardUnorderedOK
  <2>. QED BY <2>1, <2>2, Zenon
<1>5. CASE ~rcv[s].flag /\ \E e \in f.ssns : e[1] = s
  <2>. DEFINE e == CHOOSE e \in f.ssns : e[1] = s
  <2>1. Forwarded(s, f) = ForwardOrdered(rcv[s], e[2])
    BY <1>5, Zenon DEF Forwarded
  <2>2. e \in Streams \X Nat
    BY <1>2, <1>5, Zenon
  <2>3. e[2] \in Nat
    BY <2>2
  <2>. HIDE DEF e
  <2>4. QueueOK(ForwardOrdered(rcv[s], e[2]), Received)
    BY <1>3, <2>3, ForwardOrderedOK
  <2>. QED BY <2>1, <2>4, Zenon
<1>6. CASE ~rcv[s].flag /\ ~\E e \in f.ssns : e[1] = s
  <2>1. Forwarded(s, f) = rcv[s]
    BY <1>6, Zenon DEF Forwarded
  <2>. QED BY <1>3, <2>1, Zenon
<1>. QED BY <1>4, <1>5, <1>6, Zenon

\* handle_forward_tsn reports a Readable event for every stream it made readable.
LEMMA ForwardInv ==
    ASSUME StreamsInv, NEW f \in forwards, HandleForward(f)
    PROVE  StreamsInv'
<1>1. PICK q \in 0 .. Len(tsn) :
         /\ Reaches(f.cum, queue, q)
         /\ last_tsn' = q
         /\ queue' = {x \in queue : x > q}
         /\ live' = AfterResets(f.cum, q, live)
         /\ rcv' = [s \in Streams |-> IF s \in live' THEN Forwarded(s, f) ELSE NewQueue]
         /\ notified' = notified \cup {s \in live : IsReadable(Forwarded(s, f))}
  BY Zenon DEF HandleForward
<1>2. f.cum > last_tsn /\ UNCHANGED <<config, a, forwards, written, sent>>
  BY Zenon DEF HandleForward, history
<1>3. /\ Len(tsn) \in Nat /\ TSNs = 1 .. Len(tsn) /\ last_tsn \in 0 .. Len(tsn)
      /\ queue \subseteq TSNs /\ live \subseteq Streams
      /\ Received \in SUBSET (1 .. Len(tsn))
  BY StateB, Zenon
<1>4. f.cum \in Nat
  <2>1. f \in [cum : Nat, ssns : SUBSET (Streams \X Nat)]
    BY Zenon DEF StreamsInv, TypeInv
  <2>. QED BY <2>1
<1>5. f.cum <= q
  BY <1>1, Zenon DEF Reaches
<1>6. last_tsn <= q
  BY <1>2, <1>3, <1>4, <1>5
<1>7. Received \subseteq Received'
  <2>. SUFFICES ASSUME NEW x \in Received PROVE x \in Received'
    BY Zenon
  <2>1. x \in TSNs /\ x \in Nat /\ (x <= last_tsn \/ x \in queue)
    BY <1>3 DEF Received
  <2>2. TSNs' = TSNs
    BY <1>2, Zenon DEF TSNs, a
  <2>3. x <= q \/ x > q
    BY <2>1
  <2>4. CASE x <= q
    BY <2>1, <2>2, <2>4, <1>1, Zenon DEF Received
  <2>5. CASE x > q
    <3>1. ~(x <= last_tsn)
      BY <2>1, <2>5, <1>3, <1>6
    <3>2. x \in queue'
      BY <2>1, <2>5, <3>1, <1>1, Zenon
    <3>. QED BY <3>2, <2>1, <2>2, Zenon DEF Received
  <2>. QED BY <2>3, <2>4, <2>5, Zenon
<1>8. live' \subseteq live
  BY <1>1, Zenon DEF AfterResets
<1>9. ASSUME NEW x \in Streams PROVE QueueOK(rcv'[x], Received')
  <2>1. CASE x \notin live'
    <3>1. rcv'[x] = NewQueue
      BY <1>1, <2>1, Zenon
    <3>. QED BY <3>1, NewQueueOK, Zenon
  <2>2. CASE x \in live'
    <3>1. rcv'[x] = Forwarded(x, f)
      BY <1>1, <2>2, Zenon
    <3>2. QueueOK(Forwarded(x, f), Received)
      BY ForwardedOK, Zenon
    <3>3. QueueOK(Forwarded(x, f), Received')
      BY <1>7, <3>2, QueueGrows, Zenon
    <3>. QED BY <3>1, <3>3, Zenon
  <2>. QED BY <2>1, <2>2, Zenon
<1>10. ASSUME NEW x \in live', rcv'[x].readable, IsReadable(rcv'[x]) PROVE x \in notified'
  <2>1. x \in live /\ x \in Streams
    BY <1>3, <1>8, Zenon
  <2>2. rcv'[x] = Forwarded(x, f)
    BY <1>1, <2>1, Zenon
  <2>. QED BY <1>1, <1>10, <2>1, <2>2, Zenon
<1>11. /\ last_tsn' \in 0 .. Len(tsn) /\ DOMAIN rcv' = Streams
       /\ live' \subseteq Streams /\ queue' \subseteq TSNs
  BY <1>1, <1>3, <1>8, Zenon
<1>. QED BY <1>2, <1>9, <1>10, <1>11, SideB, Zenon

\* A reset request unregisters streams of side B or waits for its last TSN.
LEMMA RequestInv ==
    ASSUME StreamsInv, NEW r, HandleRequest(r)
    PROVE  StreamsInv'
<1>1. UNCHANGED <<config, a, forwards, written, sent, last_tsn, queue, notified>>
  BY Zenon DEF HandleRequest, history
<1>2. \/ /\ live' = live \ (r.sis \cap live)
         /\ rcv' = [s \in Streams |-> IF s \in live' THEN rcv[s] ELSE NewQueue]
      \/ UNCHANGED <<live, rcv>>
  BY Zenon DEF HandleRequest
<1>3. /\ last_tsn \in 0 .. Len(tsn)
      /\ queue \subseteq TSNs /\ live \subseteq Streams /\ DOMAIN rcv = Streams
      /\ \A s \in Streams : QueueOK(rcv[s], Received)
      /\ \A s \in live : rcv[s].readable /\ IsReadable(rcv[s]) => s \in notified
  BY StateB, Zenon
<1>4. Received' = Received
  BY <1>1, Zenon DEF Received, TSNs, a
<1>5. /\ live' \subseteq live /\ DOMAIN rcv' = Streams
      /\ \A s \in Streams : rcv'[s] = NewQueue \/ rcv'[s] = rcv[s]
      /\ \A s \in live' : rcv'[s] = rcv[s]
  BY <1>2, <1>3, Zenon
<1>6. ASSUME NEW s \in Streams PROVE QueueOK(rcv'[s], Received')
  BY <1>3, <1>4, <1>5, NewQueueOK, Zenon
<1>7. ASSUME NEW s \in live', rcv'[s].readable, IsReadable(rcv'[s]) PROVE s \in notified'
  BY <1>1, <1>3, <1>5, <1>7, Zenon
<1>8. last_tsn' \in 0 .. Len(tsn) /\ queue' \subseteq TSNs /\ live' \subseteq Streams
  BY <1>1, <1>3, <1>5, Zenon
<1>. QED BY <1>1, <1>5, <1>6, <1>7, <1>8, SideB, Zenon

\* One queue changes.
LEMMA OneQueue ==
    ASSUME StreamsInv, UNCHANGED <<config, a, forwards, written, sent, last_tsn, queue, live>>,
           NEW s \in Streams, NEW r, rcv' = [rcv EXCEPT ![s] = r], QueueOK(r, Received),
           notified \subseteq notified',
           s \in live /\ r.readable /\ IsReadable(r) => s \in notified'
    PROVE  StreamsInv'
<1>1. /\ last_tsn \in 0 .. Len(tsn)
      /\ queue \subseteq TSNs /\ live \subseteq Streams /\ DOMAIN rcv = Streams
      /\ \A x \in Streams : QueueOK(rcv[x], Received)
      /\ \A x \in live : rcv[x].readable /\ IsReadable(rcv[x]) => x \in notified
  BY StateB, Zenon
<1>2. Received' = Received
  BY Zenon DEF Received, TSNs, a
<1>3. DOMAIN rcv' = Streams /\ \A x \in Streams : rcv'[x] = IF x = s THEN r ELSE rcv[x]
  BY <1>1, Zenon
<1>4. ASSUME NEW x \in Streams PROVE QueueOK(rcv'[x], Received')
  BY <1>1, <1>2, <1>3, Zenon
<1>5. ASSUME NEW x \in live', rcv'[x].readable, IsReadable(rcv'[x]) PROVE x \in notified'
  <2>1. x \in Streams /\ x \in live
    BY <1>1, Zenon
  <2>2. CASE x = s
    BY <1>3, <1>5, <2>1, <2>2, Zenon
  <2>3. CASE x # s
    BY <1>1, <1>3, <1>5, <2>1, <2>3, Zenon
  <2>. QED BY <2>2, <2>3, Zenon
<1>6. last_tsn' \in 0 .. Len(tsn) /\ queue' \subseteq TSNs /\ live' \subseteq Streams
  BY <1>1, Zenon
<1>. QED BY <1>3, <1>4, <1>5, <1>6, SideB, Zenon

\* The two flags of a queue have nothing to do with its contents.
LEMMA FlagsOK ==
    ASSUME NEW S, NEW r, QueueOK(r, S), NEW x \in BOOLEAN
    PROVE  /\ QueueOK([r EXCEPT !.readable = x], S) /\ QueueOK([r EXCEPT !.flag = x], S)
           /\ [r EXCEPT !.readable = x].readable = x
           /\ [r EXCEPT !.flag = x].readable = r.readable
           /\ IsReadable([r EXCEPT !.flag = x]) <=> IsReadable(r)
<1>. DEFINE p == [r EXCEPT !.readable = x]  q == [r EXCEPT !.flag = x]
<1>1. r \in Reassembly(S) /\ Disjoint(r) /\ Counted(r)
  BY Zenon DEF QueueOK
<1>2. DOMAIN r = {"next", "ordered", "unordered", "chunks", "flag", "readable", "bytes"}
  BY <1>1, Parts, Zenon
<1>3. /\ p.ordered = r.ordered /\ p.unordered = r.unordered /\ p.chunks = r.chunks
      /\ p.bytes = r.bytes /\ p.readable = x
  BY <1>2
<1>4. /\ q.ordered = r.ordered /\ q.unordered = r.unordered /\ q.chunks = r.chunks
      /\ q.bytes = r.bytes /\ q.readable = r.readable /\ q.next = r.next
  BY <1>2
<1>5. p \in Reassembly(S) /\ q \in Reassembly(S)
  BY <1>1 DEF Reassembly
<1>. HIDE DEF p, q
<1>6. /\ InOrdered(p) = InOrdered(r) /\ InUnordered(p) = InUnordered(r)
      /\ InOrdered(q) = InOrdered(r) /\ InUnordered(q) = InUnordered(r)
  BY <1>3, <1>4, Zenon DEF InOrdered, InUnordered
<1>7. Disjoint(p) /\ Counted(p) /\ Disjoint(q) /\ Counted(q)
  BY <1>1, <1>3, <1>4, <1>6, Zenon DEF Disjoint, Counted
<1>8. IsReadable(q) <=> IsReadable(r)
  BY <1>4, Zenon DEF IsReadable, ReadableOrdered
<1>. QED BY <1>3, <1>4, <1>5, <1>7, <1>8, Zenon DEF QueueOK, p, q

\* Stream::stop on side B closes the read direction of one stream.
LEMMA StopBInv == ASSUME StreamsInv, NEW s \in Streams, StopB(s) PROVE StreamsInv'
<1>. DEFINE r == [rcv[s] EXCEPT !.readable = FALSE]
<1>1. /\ UNCHANGED <<config, a, forwards, written, sent, last_tsn, queue, live, notified>>
      /\ rcv' = [rcv EXCEPT ![s] = r]
  BY Zenon DEF StopB
<1>2. QueueOK(rcv[s], Received)
  BY StateB, Zenon
<1>3. QueueOK(r, Received) /\ r.readable = FALSE
  BY <1>2, FlagsOK, Zenon
<1>. HIDE DEF r
<1>. QED BY <1>1, <1>3, OneQueue, Zenon

\* Accepting a data channel sets the flag that selects how FORWARD-TSN is applied.
LEMMA AcceptInv == ASSUME StreamsInv, NEW s \in Streams, Accept(s) PROVE StreamsInv'
<1>. DEFINE r == [rcv[s] EXCEPT !.flag = TRUE]
<1>1. /\ UNCHANGED <<config, a, forwards, written, sent, last_tsn, queue, live, notified>>
      /\ rcv' = [rcv EXCEPT ![s] = r]
  BY Zenon DEF Accept, network, history
<1>2. /\ QueueOK(rcv[s], Received)
      /\ s \in live /\ rcv[s].readable /\ IsReadable(rcv[s]) => s \in notified
  BY StateB, Zenon
<1>3. QueueOK(r, Received) /\ r.readable = rcv[s].readable /\ (IsReadable(r) <=> IsReadable(rcv[s]))
  BY <1>2, FlagsOK, Zenon
<1>. HIDE DEF r
<1>. QED BY <1>1, <1>2, <1>3, OneQueue, Zenon

\* A reader that has served its event goes on until there is nothing left to read.
LEMMA ReadInv == ASSUME StreamsInv, NEW s \in Streams, Read(s) PROVE StreamsInv'
<1>1. /\ UNCHANGED <<config, a, forwards, written, sent, last_tsn, queue, live>> /\ s \in notified
  BY Zenon DEF Read, network
<1>2. /\ Len(tsn) \in Nat /\ Received \in SUBSET (1 .. Len(tsn))
      /\ last_tsn \in 0 .. Len(tsn) /\ queue \subseteq TSNs /\ live \subseteq Streams
      /\ DOMAIN rcv = Streams
      /\ \A x \in Streams : QueueOK(rcv[x], Received)
      /\ \A x \in live : rcv[x].readable /\ IsReadable(rcv[x]) => x \in notified
  BY StateB, Zenon
<1>3. CASE /\ rcv[s].unordered # <<>>
           /\ rcv' = [rcv EXCEPT ![s] = ReadUnordered(@)]
           /\ UNCHANGED notified
  <2>1. QueueOK(ReadUnordered(rcv[s]), Received)
    BY <1>2, <1>3, ReadUnorderedOK, Zenon
  <2>2. rcv' = [rcv EXCEPT ![s] = ReadUnordered(rcv[s])]
    BY <1>3, Zenon
  <2>. QED BY <1>1, <1>3, <2>1, <2>2, OneQueue, Zenon
<1>4. CASE \E c \in ReadableOrdered(rcv[s]) :
           /\ rcv' = [rcv EXCEPT ![s] = ReadOrdered(@, c)]
           /\ UNCHANGED notified
  <2>1. PICK c \in ReadableOrdered(rcv[s]) :
           /\ rcv' = [rcv EXCEPT ![s] = ReadOrdered(@, c)]
           /\ UNCHANGED notified
    BY <1>4, Zenon
  <2>2. c \in rcv[s].ordered
    BY Zenon DEF ReadableOrdered
  <2>3. QueueOK(ReadOrdered(rcv[s], c), Received)
    BY <1>2, <2>2, ReadOrderedOK, Zenon
  <2>4. rcv' = [rcv EXCEPT ![s] = ReadOrdered(rcv[s], c)]
    BY <2>1, Zenon
  <2>. QED BY <1>1, <2>1, <2>3, <2>4, OneQueue, Zenon
<1>5. CASE /\ s \notin live \/ ~rcv[s].readable \/ ~IsReadable(rcv[s])
           /\ notified' = notified \ {s}
           /\ UNCHANGED rcv
  <2>1. Received' = Received
    BY <1>1, Zenon DEF Received, TSNs, a
  <2>2. ASSUME NEW x \in Streams PROVE QueueOK(rcv'[x], Received')
    BY <1>2, <1>5, <2>1, Zenon
  <2>3. ASSUME NEW x \in live', rcv'[x].readable, IsReadable(rcv'[x]) PROVE x \in notified'
    BY <1>1, <1>2, <1>5, <2>3, Zenon
  <2>4. /\ last_tsn' \in 0 .. Len(tsn) /\ queue' \subseteq TSNs /\ live' \subseteq Streams
        /\ DOMAIN rcv' = Streams
    BY <1>1, <1>2, <1>5, Zenon
  <2>. QED BY <1>1, <2>2, <2>3, <2>4, SideB, Zenon
<1>. QED BY <1>3, <1>4, <1>5, Zenon DEF Read

-----------------------------------------------------------------------------
(***************************************************************************)
(* The theorems.                                                           *)
(***************************************************************************)

\* The invariant holds before any stream is opened.
LEMMA InitInv == Init => StreamsInv
<1>. SUFFICES ASSUME Init PROVE StreamsInv
  BY Zenon
<1>1. /\ config \in Configs /\ registered = {} /\ ssn = [s \in Streams |-> 0]
      /\ pending = [u |-> <<>>, o |-> <<>>, selected |-> FALSE, unordered_is_selected |-> FALSE]
      /\ tsn = <<>> /\ advanced = 0 /\ reconfigs = {} /\ t_reconfig = FALSE /\ retrans = 0
      /\ last_tsn = 0 /\ queue = {} /\ live = {}
      /\ rcv = [s \in Streams |-> NewQueue] /\ forwards = {} /\ written = <<>>
      /\ sent = [s \in Streams |-> <<>>]
  BY Zenon DEF Init
<1>2. PendingOK(pending)
  BY <1>1, SMTT(60) DEF PendingOK, EndsWhole
<1>3. last_tsn \in 0 .. Len(tsn)
  BY <1>1
<1>4. /\ ssn \in [Streams -> Nat] /\ written \in Seq(Message)
      /\ sent \in [Streams -> Seq([ordered : BOOLEAN, reliable : BOOLEAN])]
      /\ tsn \in Seq([m : 1 .. Len(written), k : Nat, s : Streams]) /\ advanced \in Nat
  BY <1>1, SMTT(60)
<1>5. TypeInv
  BY <1>1, <1>2, <1>3, <1>4, Zenon DEF TypeInv
<1>6. QueuesInv
  BY <1>1, NewQueueOK, Zenon DEF QueuesInv
<1>7. NoLostWakeup
  BY <1>1, Zenon DEF NoLostWakeup
<1>8. TimerInv
  BY <1>1 DEF TimerInv, ResetArmed
<1>. QED BY <1>5, <1>6, <1>7, <1>8, Zenon DEF StreamsInv

\* Every step keeps the invariant.
LEMMA NextInv == StreamsInv /\ [Next]_vars => StreamsInv'
<1>. SUFFICES ASSUME StreamsInv, [Next]_vars PROVE StreamsInv'
  BY Zenon
<1>1. CASE \E s \in Streams : Open(s) \/ Stop(s) \/ Finish(s) \/ StopB(s) \/ Read(s) \/ Accept(s)
  BY <1>1, OpenInv, StopInv, FinishInv, StopBInv, ReadInv, AcceptInv, Zenon
<1>2. CASE \E s \in Streams, n \in 1 .. config.frags : Write(s, n)
  BY <1>2, WriteInv, Zenon
<1>3. CASE \E R \in SUBSET Retransmittable, n \in 0 .. Len(pending.u) + Len(pending.o) : PollTransmit(R, n)
  <2>1. PICK R \in SUBSET Retransmittable, n \in 0 .. Len(pending.u) + Len(pending.o) : PollTransmit(R, n)
    BY <1>3, Zenon
  <2>2. n \in Nat
    OBVIOUS
  <2>. QED BY <2>1, <2>2, PollInv, Zenon
<1>4. CASE HandleSack \/ T3Timeout
  BY <1>4, SackInv, Zenon
<1>5. CASE \E t \in TSNs : HandleData(t)
  BY <1>5, DataInv, Zenon
<1>6. CASE \E f \in forwards : HandleForward(f)
  BY <1>6, ForwardInv, Zenon
<1>7. CASE \E r \in requests : HandleRequest(r)
  BY <1>7, RequestInv, Zenon
<1>8. CASE \E sis \in replies : HandleReply(sis)
  BY <1>8, ReplyInv, Zenon
<1>9. CASE \E n \in responses : HandleResponse(n)
  BY <1>9, ResponseInv, Zenon
<1>11. CASE ReconfigTimeout
  BY <1>11, TimeoutInv, Zenon
<1>10. CASE UNCHANGED vars
  <2>1. /\ UNCHANGED <<config, tsn, written, sent, pending, forwards, b>>
        /\ UNCHANGED <<registered, ssn, advanced, reconfigs, t_reconfig, retrans>>
    BY <1>10, Zenon DEF vars, a, timer, network, history
  <2>2. ssn' \in [Streams -> Nat] /\ advanced' \in Nat /\ registered' \subseteq DOMAIN config.stream
    BY <2>1, Zenon DEF StreamsInv, TypeInv
  <2>3. TimerInv'
    BY <2>1, Zenon DEF StreamsInv, TimerInv, ResetArmed
  <2>. QED BY <2>1, <2>2, <2>3, SideA, Zenon
<1>. QED BY <1>1, <1>2, <1>3, <1>4, <1>5, <1>6, <1>7, <1>8, <1>9, <1>10, <1>11, Zenon DEF Next

\* The inductive invariant holds in every state of every association, whatever
\* its streams, their settings and the network.
THEOREM StreamsInvariance == Spec => []StreamsInv
  BY InitInv, NextInv, PTL DEF Spec

\* No Readable event is lost, and no reset is left without its timer before the timer
\* has used up its expirations (handle_data, handle_forward_tsn, gather_outbound,
\* handle_reconfig_param, handle_timeout).
THEOREM NeverStuckTheorem == Spec => []NeverStuck
<1>1. StreamsInv => NeverStuck
  BY Zenon DEF StreamsInv, TimerInv, NeverStuck
<1>. QED BY <1>1, StreamsInvariance, PTL

\* n_bytes is what the reassembly queue holds.
THEOREM BytesExactTheorem == Spec => []BytesExact
<1>1. StreamsInv => BytesExact
  <2>. SUFFICES ASSUME StreamsInv, NEW s \in live
                PROVE  rcv[s].bytes = Cardinality(rcv[s].chunks)
                         + Cardinality(UNION {c.tsns : c \in rcv[s].ordered})
                         + Cardinality(UNION Range(rcv[s].unordered))
    BY Zenon DEF BytesExact
  <2>1. Counted(rcv[s])
    BY StateB, Zenon DEF QueueOK
  <2>. QED BY <2>1, Zenon DEF Counted, InOrdered, InUnordered
<1>. QED BY <1>1, StreamsInvariance, PTL
=============================================================================
