----------------------- MODULE TunnelInterface_proofs -----------------------
(***************************************************************************)
(* Proof that an answer reaches whoever sent to its remote endpoint last,  *)
(* for any endpoints, traffic and number of answers.  The entry a lookup   *)
(* will find is not in _udpSession yet but in the blocks before it, so the *)
(* invariant says of every lookup in the queue what it is going to find.   *)
(* Then, that the reader of the pipe finds whole frames: the invariant     *)
(* says of every byte in the pipe how its frame goes on behind it.         *)
(***************************************************************************)
EXTENDS TunnelInterface, SequenceTheorems, TLAPS

Endpoints == Locals \union {Nobody}
Block == [op : {"set", "get"}, remote : Remotes, local : Endpoints, known : Nat]

UdpTypes ==
  /\ session \in [Remotes -> Endpoints] /\ sent \in [Remotes -> Seq(Locals)]
  /\ blocks \in Seq(Block) /\ main \in Seq(Block) /\ delivered \in Seq(Block)

\* q being the endpoints that have sent to a remote one: v is one of them, and has sent
\* at least as late as the k-th, if there was one.
Suits(q, k, v) ==
  IF k = 0 THEN v = Nobody \/ \E m \in 1..Len(q) : q[m] = v
           ELSE \E m \in k..Len(q) : q[m] = v

EntryFor(b, r) == b.op = "set" /\ b.remote = r

\* The blocks of bs from the j-th on and before the i-th make only entries for r that suit.
Keep(bs, q, r, k, j, i) ==
  \A n \in 1..Len(bs) : j <= n /\ n < i /\ EntryFor(bs[n], r) => Suits(q, k, bs[n].local)

\* The entry for r suits when the i-th block runs: the last one made before, or the
\* one that is there, v, if none is made.
WillSuit(bs, q, v, r, k, i) ==
  \/ Suits(q, k, v) /\ Keep(bs, q, r, k, 1, i)
  \/ \E j \in 1..Len(bs) : j < i /\ EntryFor(bs[j], r) /\ Keep(bs, q, r, k, j, i)

NewestWillSuit ==
  \A r \in Remotes : WillSuit(blocks, sent[r], session[r], r, Len(sent[r]), Len(blocks) + 1)

LookupWillSuit(i) ==
  LET r == blocks[i].remote
  IN WillSuit(blocks, sent[r], session[r], r, blocks[i].known, i)

LookupsWillSuit == \A i \in 1..Len(blocks) : blocks[i].op = "get" => LookupWillSuit(i)

AnswersSuit(s) == \A i \in 1..Len(s) : Suits(sent[s[i].remote], s[i].known, s[i].local)

UInv ==
  /\ UdpTypes /\ NewestWillSuit /\ LookupsWillSuit
  /\ AnswersSuit(main) /\ AnswersSuit(delivered)

-----------------------------------------------------------------------------
(* Sequences. *)

LEMMA AppendFacts ==
  ASSUME NEW S, NEW s \in Seq(S), NEW e \in S
  PROVE  /\ Append(s, e) \in Seq(S) /\ Len(Append(s, e)) = Len(s) + 1
         /\ \A i \in 1..Len(s) : Append(s, e)[i] = s[i]
         /\ Append(s, e)[Len(s) + 1] = e
         /\ Len(s) \in Nat
  OBVIOUS

LEMMA BlockFields ==
  ASSUME NEW s \in Seq(Block), NEW i \in 1..Len(s)
  PROVE  /\ s[i] \in Block /\ s[i].remote \in Remotes /\ s[i].known \in Nat
         /\ s[i].op \in {"set", "get"} /\ s[i].local \in Endpoints
  <1>1. s[i] \in Block
    OBVIOUS
  <1> QED
    BY <1>1 DEF Block

LEMMA TailFacts ==
  ASSUME NEW S, NEW s \in Seq(S), s # <<>>
  PROVE  /\ Tail(s) \in Seq(S) /\ Len(Tail(s)) = Len(s) - 1 /\ Len(s) \in Nat /\ Len(s) > 0
         /\ \A i \in 1..(Len(s) - 1) : Tail(s)[i] = s[i + 1]
         /\ Head(s) = s[1] /\ Head(s) \in S
  OBVIOUS

-----------------------------------------------------------------------------
LEMMA InitUInv == Init => UInv
  <1> SUFFICES ASSUME Init PROVE UInv
    OBVIOUS
  <1> USE DEF Init, UdpInit
  <1>1. UdpTypes
    BY DEF UdpTypes, Endpoints
  <1>2. blocks = <<>> /\ Len(blocks) = 0 /\ main = <<>> /\ delivered = <<>>
    OBVIOUS
  <1>3. \A r \in Remotes : Len(sent[r]) = 0 /\ session[r] = Nobody
    OBVIOUS
  <1>4. NewestWillSuit
    BY <1>2, <1>3 DEF NewestWillSuit, WillSuit, Suits, Keep
  <1>5. LookupsWillSuit /\ AnswersSuit(main) /\ AnswersSuit(delivered)
    BY <1>2 DEF LookupsWillSuit, AnswersSuit
  <1> QED
    BY <1>1, <1>4, <1>5 DEF UInv

LEMMA StutterUInv == UInv /\ UNCHANGED udpVars => UInv'
  BY DEF udpVars, UInv, UdpTypes, NewestWillSuit, LookupsWillSuit, LookupWillSuit, AnswersSuit

\* Another datagram only gives more to choose from.
LEMMA SuitsKept ==
  ASSUME NEW q \in Seq(Locals), NEW l \in Locals, NEW k \in Nat, NEW v, Suits(q, k, v)
  PROVE  Suits(Append(q, l), k, v)
  BY AppendFacts DEF Suits

LEMMA NewestSuits ==
  ASSUME NEW q \in Seq(Locals), NEW l \in Locals
  PROVE  Suits(Append(q, l), Len(q) + 1, l)
  <1>1. /\ Len(Append(q, l)) = Len(q) + 1 /\ Len(q) \in Nat
        /\ Append(q, l)[Len(q) + 1] = l
    BY AppendFacts
  <1> QED
    BY <1>1 DEF Suits

\* What is known of the first blocks stays so when more are added, or more is sent.
LEMMA WillSuitKept ==
  ASSUME NEW bs \in Seq(Block), NEW b \in Block, NEW cs, cs = bs \/ cs = Append(bs, b),
         NEW q, NEW p, NEW v, NEW r, NEW k, \A w : Suits(q, k, w) => Suits(p, k, w),
         NEW i \in 1..(Len(bs) + 1), WillSuit(bs, q, v, r, k, i)
  PROVE  WillSuit(cs, p, v, r, k, i)
  <1>1. /\ Len(cs) \in {Len(bs), Len(bs) + 1} /\ Len(bs) \in Nat
        /\ \A n \in 1..Len(bs) : cs[n] = bs[n]
    BY AppendFacts
  <1>2. \A j \in Nat : Keep(bs, q, r, k, j, i) => Keep(cs, p, r, k, j, i)
    <2> SUFFICES ASSUME NEW j \in Nat, Keep(bs, q, r, k, j, i),
                        NEW n \in 1..Len(cs), j <= n, n < i, EntryFor(cs[n], r)
                 PROVE  Suits(p, k, cs[n].local)
      BY DEF Keep
    <2>1. n \in 1..Len(bs) /\ cs[n] = bs[n]
      BY <1>1
    <2> QED
      BY <2>1 DEF Keep
  <1>3. CASE Suits(q, k, v) /\ Keep(bs, q, r, k, 1, i)
    BY <1>2, <1>3 DEF WillSuit
  <1>4. CASE \E j \in 1..Len(bs) : j < i /\ EntryFor(bs[j], r) /\ Keep(bs, q, r, k, j, i)
    <2>1. PICK j \in 1..Len(bs) : j < i /\ EntryFor(bs[j], r) /\ Keep(bs, q, r, k, j, i)
      BY <1>4
    <2>2. j \in 1..Len(cs) /\ EntryFor(cs[j], r) /\ Keep(cs, p, r, k, j, i)
      BY <1>1, <1>2, <2>1
    <2> QED
      BY <2>1, <2>2 DEF WillSuit
  <1> QED
    BY <1>3, <1>4 DEF WillSuit

\* A block that makes no entry for r may follow.
LEMMA WillSuitSkips ==
  ASSUME NEW bs \in Seq(Block), NEW q, NEW v, NEW r, NEW k, NEW i \in 1..Len(bs),
         ~EntryFor(bs[i], r), WillSuit(bs, q, v, r, k, i)
  PROVE  WillSuit(bs, q, v, r, k, i + 1)
  <1>1. Len(bs) \in Nat /\ i \in Nat
    OBVIOUS
  <1>2. \A j \in Nat : Keep(bs, q, r, k, j, i) => Keep(bs, q, r, k, j, i + 1)
    <2> SUFFICES ASSUME NEW j \in Nat, Keep(bs, q, r, k, j, i),
                        NEW n \in 1..Len(bs), j <= n, n < i + 1, EntryFor(bs[n], r)
                 PROVE  Suits(q, k, bs[n].local)
      BY DEF Keep
    <2>1. n # i
      OBVIOUS
    <2>2. n < i
      BY <2>1
    <2> QED
      BY <2>2 DEF Keep
  <1>3. CASE Suits(q, k, v) /\ Keep(bs, q, r, k, 1, i)
    BY <1>2, <1>3 DEF WillSuit
  <1>4. CASE \E j \in 1..Len(bs) : j < i /\ EntryFor(bs[j], r) /\ Keep(bs, q, r, k, j, i)
    <2>1. PICK j \in 1..Len(bs) : j < i /\ EntryFor(bs[j], r) /\ Keep(bs, q, r, k, j, i)
      BY <1>4
    <2>2. j < i + 1 /\ Keep(bs, q, r, k, j, i + 1)
      BY <1>1, <1>2, <2>1
    <2> QED
      BY <2>1, <2>2 DEF WillSuit
  <1> QED
    BY <1>3, <1>4 DEF WillSuit

\* The first block has run, and w is the entry for r then.
LEMMA WillSuitMoves ==
  ASSUME NEW bs \in Seq(Block), bs # <<>>, NEW q, NEW v, NEW w, NEW r, NEW k,
         IF EntryFor(bs[1], r) THEN w = bs[1].local ELSE w = v,
         NEW i \in 2..(Len(bs) + 1), WillSuit(bs, q, v, r, k, i)
  PROVE  WillSuit(Tail(bs), q, w, r, k, i - 1)
  <1>1. /\ Len(Tail(bs)) = Len(bs) - 1 /\ Len(bs) \in Nat /\ Len(bs) > 0 /\ i \in Nat
        /\ \A n \in 1..(Len(bs) - 1) : Tail(bs)[n] = bs[n + 1]
    BY TailFacts
  <1>2. ASSUME NEW j \in Nat, Keep(bs, q, r, k, j, i)
        PROVE  \A m \in Nat : j <= m + 1 => Keep(Tail(bs), q, r, k, m, i - 1)
    <2> SUFFICES ASSUME NEW m \in Nat, j <= m + 1,
                        NEW n \in 1..Len(Tail(bs)), m <= n, n < i - 1, EntryFor(Tail(bs)[n], r)
                 PROVE  Suits(q, k, Tail(bs)[n].local)
      BY DEF Keep
    <2>1. n + 1 \in 1..Len(bs) /\ Tail(bs)[n] = bs[n + 1] /\ j <= n + 1 /\ n + 1 < i
      BY <1>1
    <2> QED
      BY <1>2, <2>1 DEF Keep
  <1>3. CASE Suits(q, k, v) /\ Keep(bs, q, r, k, 1, i)
    <2>1. EntryFor(bs[1], r) => Suits(q, k, bs[1].local)
      BY <1>1, <1>3 DEF Keep
    <2>2. Suits(q, k, w)
      BY <1>3, <2>1
    <2>3. Keep(Tail(bs), q, r, k, 1, i - 1)
      BY <1>2, <1>3
    <2> QED
      BY <2>2, <2>3 DEF WillSuit
  <1>4. CASE \E j \in 1..Len(bs) : j < i /\ EntryFor(bs[j], r) /\ Keep(bs, q, r, k, j, i)
    <2>1. PICK j \in 1..Len(bs) : j < i /\ EntryFor(bs[j], r) /\ Keep(bs, q, r, k, j, i)
      BY <1>4
    <2>2. CASE j = 1
      <3>1. Suits(q, k, bs[1].local)
        BY <1>1, <2>1, <2>2 DEF Keep
      <3>2. Keep(Tail(bs), q, r, k, 1, i - 1)
        BY <1>2, <2>1, <2>2
      <3> QED
        BY <2>1, <2>2, <3>1, <3>2 DEF WillSuit
    <2>3. CASE j > 1
      <3>1. j - 1 \in 1..Len(Tail(bs)) /\ j - 1 < i - 1 /\ Tail(bs)[j - 1] = bs[j] /\ j - 1 \in Nat
        BY <1>1, <2>1, <2>3
      <3>2. Keep(Tail(bs), q, r, k, j - 1, i - 1)
        BY <1>2, <2>1, <3>1
      <3> QED
        BY <2>1, <3>1, <3>2 DEF WillSuit
    <2> QED
      BY <1>1, <2>1, <2>2, <2>3
  <1> QED
    BY <1>3, <1>4 DEF WillSuit

-----------------------------------------------------------------------------
(* The actions. *)

LEMMA SendUInv ==
  ASSUME UInv, NEW l \in Locals, NEW r \in Remotes, handleUdpPacket(l, r)
  PROVE  UInv'
  <1> DEFINE b == Set(r, l)
  <1>1. /\ blocks' = Append(blocks, b) /\ sent' = [sent EXCEPT ![r] = Append(@, l)]
        /\ UNCHANGED <<session, main, delivered>>
    BY DEF handleUdpPacket
  <1>2. UdpTypes
    BY DEF UInv
  <1>3. b \in Block /\ b.op = "set" /\ b.remote = r /\ b.local = l
    BY DEF Block, Set, Endpoints
  <1> HIDE DEF b
  <1>4. /\ blocks' \in Seq(Block) /\ Len(blocks') = Len(blocks) + 1 /\ Len(blocks) \in Nat
        /\ \A i \in 1..Len(blocks) : blocks'[i] = blocks[i]
        /\ blocks'[Len(blocks) + 1] = b
    BY <1>1, <1>2, <1>3, AppendFacts DEF UdpTypes
  <1>5. sent[r] \in Seq(Locals) /\ sent'[r] = Append(sent[r], l) /\ \A x \in Remotes \ {r} : sent'[x] = sent[x]
    BY <1>1, <1>2 DEF UdpTypes
  <1>6. UdpTypes'
    <2>1. Append(sent[r], l) \in Seq(Locals)
      BY <1>5, AppendFacts
    <2> QED
      BY <1>1, <1>2, <1>4, <2>1 DEF UdpTypes
  <1>7. ASSUME NEW x \in Remotes, NEW k \in Nat, NEW w, Suits(sent[x], k, w)
        PROVE  Suits(sent'[x], k, w)
    BY <1>5, <1>7, SuitsKept
  <1>8. ASSUME NEW x \in Remotes, NEW k \in Nat, NEW i \in 1..(Len(blocks) + 1),
               WillSuit(blocks, sent[x], session[x], x, k, i)
        PROVE  WillSuit(blocks', sent'[x], session[x], x, k, i)
    <2>1. blocks \in Seq(Block) /\ \A w : Suits(sent[x], k, w) => Suits(sent'[x], k, w)
      BY <1>2, <1>7 DEF UdpTypes
    <2> QED
      BY <1>1, <1>3, <1>8, <2>1, WillSuitKept
  <1>9. NewestWillSuit'
    <2> SUFFICES ASSUME NEW x \in Remotes
                 PROVE  WillSuit(blocks', sent'[x], session[x], x, Len(sent'[x]), Len(blocks') + 1)
      BY <1>1 DEF NewestWillSuit
    <2>1. CASE x = r
      <3>1. Len(sent'[r]) = Len(sent[r]) + 1 /\ Suits(sent'[r], Len(sent[r]) + 1, l)
        BY <1>5, NewestSuits, AppendFacts
      <3>2. Suits(sent'[r], Len(sent'[r]), b.local)
        BY <1>3, <3>1
      <3>3. Len(blocks) + 1 \in 1..Len(blocks') /\ Len(blocks) + 1 < Len(blocks') + 1
        BY <1>4
      <3>4. Keep(blocks', sent'[r], r, Len(sent'[r]), Len(blocks) + 1, Len(blocks') + 1)
        BY <1>4, <3>2 DEF Keep
      <3>5. EntryFor(blocks'[Len(blocks) + 1], r)
        BY <1>3, <1>4 DEF EntryFor
      <3> QED
        BY <2>1, <3>3, <3>4, <3>5 DEF WillSuit
    <2>2. CASE x # r
      <3>1. Len(sent[x]) \in Nat /\ sent'[x] = sent[x]
        BY <1>2, <1>5, <2>2 DEF UdpTypes
      <3>2. WillSuit(blocks, sent[x], session[x], x, Len(sent[x]), Len(blocks) + 1)
        BY DEF UInv, NewestWillSuit
      <3>3. WillSuit(blocks', sent'[x], session[x], x, Len(sent'[x]), Len(blocks) + 1)
        BY <1>4, <1>8, <3>1, <3>2
      <3>4. ~EntryFor(blocks'[Len(blocks) + 1], x) /\ Len(blocks) + 1 \in 1..Len(blocks')
        BY <1>3, <1>4, <2>2 DEF EntryFor
      <3> QED
        BY <1>4, <3>3, <3>4, WillSuitSkips
    <2> QED
      BY <2>1, <2>2
  <1>10. LookupsWillSuit'
    <2> SUFFICES ASSUME NEW i \in 1..Len(blocks'), blocks'[i].op = "get"
                 PROVE  LookupWillSuit(i)'
      BY DEF LookupsWillSuit
    <2>1. i \in 1..Len(blocks) /\ blocks'[i] = blocks[i]
      BY <1>3, <1>4
    <2>2. blocks[i].remote \in Remotes /\ blocks[i].known \in Nat
      BY <1>2, <2>1, BlockFields DEF UdpTypes
    <2>3. LookupWillSuit(i)
      BY <2>1 DEF UInv, LookupsWillSuit
    <2>4. i \in 1..(Len(blocks) + 1)
      BY <1>4, <2>1
    <2> QED
      BY <1>1, <1>8, <2>1, <2>2, <2>3, <2>4 DEF LookupWillSuit
  <1>11. AnswersSuit(main)' /\ AnswersSuit(delivered)'
    <2>1. \A i \in 1..Len(main) : main[i].remote \in Remotes /\ main[i].known \in Nat
      BY <1>2, BlockFields DEF UdpTypes
    <2>2. \A i \in 1..Len(delivered) : delivered[i].remote \in Remotes /\ delivered[i].known \in Nat
      BY <1>2, BlockFields DEF UdpTypes
    <2> QED
      BY <1>1, <1>7, <2>1, <2>2 DEF UInv, AnswersSuit
  <1> QED
    BY <1>6, <1>9, <1>10, <1>11 DEF UInv

LEMMA ReceiveUInv ==
  ASSUME UInv, NEW r \in Remotes, didReceiveData(r)
  PROVE  UInv'
  <1> DEFINE b == Get(r)
  <1>1. blocks' = Append(blocks, b) /\ UNCHANGED <<session, sent, main, delivered>>
    BY DEF didReceiveData, Looked
  <1>2. UdpTypes
    BY DEF UInv
  <1>3. b \in Block /\ b.op = "get" /\ b.remote = r /\ b.known = Len(sent[r])
    BY <1>2 DEF Block, Get, Endpoints, UdpTypes
  <1> HIDE DEF b
  <1>4. /\ blocks' \in Seq(Block) /\ Len(blocks') = Len(blocks) + 1 /\ Len(blocks) \in Nat
        /\ \A i \in 1..Len(blocks) : blocks'[i] = blocks[i]
        /\ blocks'[Len(blocks) + 1] = b
    BY <1>1, <1>2, <1>3, AppendFacts DEF UdpTypes
  <1>5. ASSUME NEW x \in Remotes, NEW k \in Nat, NEW i \in 1..(Len(blocks) + 1),
               WillSuit(blocks, sent[x], session[x], x, k, i)
        PROVE  WillSuit(blocks', sent[x], session[x], x, k, i)
    BY <1>1, <1>2, <1>3, <1>5, WillSuitKept DEF UdpTypes
  <1>6. \A x \in Remotes : /\ Len(sent[x]) \in Nat
                           /\ WillSuit(blocks, sent[x], session[x], x, Len(sent[x]), Len(blocks) + 1)
    BY <1>2 DEF UInv, NewestWillSuit, UdpTypes
  <1>7. NewestWillSuit'
    <2> SUFFICES ASSUME NEW x \in Remotes
                 PROVE  WillSuit(blocks', sent[x], session[x], x, Len(sent[x]), Len(blocks') + 1)
      BY <1>1 DEF NewestWillSuit
    <2>1. WillSuit(blocks', sent[x], session[x], x, Len(sent[x]), Len(blocks) + 1)
      BY <1>4, <1>5, <1>6
    <2>2. ~EntryFor(blocks'[Len(blocks) + 1], x) /\ Len(blocks) + 1 \in 1..Len(blocks')
      BY <1>3, <1>4 DEF EntryFor
    <2> QED
      BY <1>4, <2>1, <2>2, WillSuitSkips
  <1>8. LookupsWillSuit'
    <2> SUFFICES ASSUME NEW i \in 1..Len(blocks'), blocks'[i].op = "get"
                 PROVE  LookupWillSuit(i)'
      BY DEF LookupsWillSuit
    <2>1. CASE i \in 1..Len(blocks)
      <3>1. blocks[i].remote \in Remotes /\ blocks[i].known \in Nat /\ i \in 1..(Len(blocks) + 1)
        BY <1>2, <1>4, <2>1, BlockFields DEF UdpTypes
      <3>2. LookupWillSuit(i)
        BY <1>4, <2>1 DEF UInv, LookupsWillSuit
      <3> QED
        BY <1>1, <1>4, <1>5, <2>1, <3>1, <3>2 DEF LookupWillSuit
    <2>2. CASE i = Len(blocks) + 1
      <3>1. WillSuit(blocks', sent[r], session[r], r, Len(sent[r]), Len(blocks) + 1)
        BY <1>4, <1>5, <1>6
      <3> QED
        BY <1>1, <1>3, <1>4, <2>2, <3>1 DEF LookupWillSuit
    <2> QED
      BY <1>4, <2>1, <2>2
  <1> QED
    <2>1. UdpTypes' /\ AnswersSuit(main)' /\ AnswersSuit(delivered)'
      BY <1>1, <1>2, <1>4 DEF UInv, UdpTypes, AnswersSuit
    <2> QED
      BY <1>7, <1>8, <2>1 DEF UInv

LEMMA RunBlockUInv == UInv /\ RunBlock => UInv'
  <1> SUFFICES ASSUME UInv, RunBlock PROVE UInv'
    OBVIOUS
  <1> DEFINE b == Head(blocks)
  <1>1. UdpTypes
    BY DEF UInv
  <1>2. blocks # <<>> /\ blocks' = Tail(blocks) /\ UNCHANGED <<delivered, sent>>
    BY DEF RunBlock
  <1>3. /\ blocks' \in Seq(Block) /\ Len(blocks') = Len(blocks) - 1 /\ Len(blocks) \in Nat
        /\ Len(blocks) > 0 /\ b = blocks[1] /\ b \in Block
        /\ \A i \in 1..(Len(blocks) - 1) : blocks'[i] = blocks[i + 1]
    BY <1>1, <1>2, TailFacts DEF UdpTypes
  <1>4. b.remote \in Remotes /\ b.local \in Endpoints /\ b.known \in Nat
    BY <1>3 DEF Block
  <1>5. \/ /\ b.op = "set" /\ session' = [session EXCEPT ![b.remote] = b.local] /\ main' = main
        \/ /\ b.op = "get" /\ session' = session
           /\ main' = Append(main, [b EXCEPT !.local = session[b.remote]])
    BY DEF RunBlock
  <1> HIDE DEF b
  <1>6. ASSUME NEW x \in Remotes
        PROVE  IF EntryFor(blocks[1], x) THEN session'[x] = blocks[1].local ELSE session'[x] = session[x]
    <2>1. session \in [Remotes -> Endpoints]
      BY <1>1 DEF UdpTypes
    <2>2. CASE b.op = "set"
      BY <1>3, <1>5, <2>1, <2>2 DEF EntryFor
    <2>3. CASE b.op = "get"
      BY <1>3, <1>5, <2>3 DEF EntryFor
    <2> QED
      BY <1>5, <2>2, <2>3
  <1>7. ASSUME NEW x \in Remotes, NEW k \in Nat, NEW i \in 2..(Len(blocks) + 1),
               WillSuit(blocks, sent[x], session[x], x, k, i)
        PROVE  WillSuit(blocks', sent'[x], session'[x], x, k, i - 1)
    <2>1. IF EntryFor(blocks[1], x) THEN session'[x] = blocks[1].local ELSE session'[x] = session[x]
      BY <1>6
    <2>2. blocks \in Seq(Block)
      BY <1>1 DEF UdpTypes
    <2> QED
      BY <1>2, <1>7, <2>1, <2>2, WillSuitMoves
  <1>8. NewestWillSuit'
    <2> SUFFICES ASSUME NEW x \in Remotes
                 PROVE  WillSuit(blocks', sent'[x], session'[x], x, Len(sent'[x]), Len(blocks') + 1)
      BY DEF NewestWillSuit
    <2>1. /\ WillSuit(blocks, sent[x], session[x], x, Len(sent[x]), Len(blocks) + 1)
          /\ Len(sent[x]) \in Nat
      BY <1>1 DEF UInv, NewestWillSuit, UdpTypes
    <2>2. Len(blocks) + 1 \in 2..(Len(blocks) + 1) /\ (Len(blocks) + 1) - 1 = Len(blocks') + 1
      BY <1>3
    <2>3. WillSuit(blocks', sent'[x], session'[x], x, Len(sent[x]), (Len(blocks) + 1) - 1)
      BY <1>7, <2>1, <2>2
    <2> QED
      BY <1>2, <2>2, <2>3
  <1>9. LookupsWillSuit'
    <2> SUFFICES ASSUME NEW i \in 1..Len(blocks'), blocks'[i].op = "get"
                 PROVE  LookupWillSuit(i)'
      BY DEF LookupsWillSuit
    <2>1. /\ i + 1 \in 2..(Len(blocks) + 1) /\ i + 1 \in 1..Len(blocks) /\ (i + 1) - 1 = i
          /\ blocks'[i] = blocks[i + 1]
      BY <1>3
    <2>2. blocks[i + 1].remote \in Remotes /\ blocks[i + 1].known \in Nat
      BY <1>1, <2>1, BlockFields DEF UdpTypes
    <2>3. LookupWillSuit(i + 1)
      BY <2>1 DEF UInv, LookupsWillSuit
    <2>4. WillSuit(blocks', sent'[blocks[i + 1].remote], session'[blocks[i + 1].remote],
                   blocks[i + 1].remote, blocks[i + 1].known, (i + 1) - 1)
      BY <1>7, <2>1, <2>2, <2>3 DEF LookupWillSuit
    <2> QED
      BY <2>1, <2>4 DEF LookupWillSuit
  <1>10. main' \in Seq(Block) /\ AnswersSuit(main)'
    <2>1. main \in Seq(Block) /\ AnswersSuit(main) /\ session \in [Remotes -> Endpoints]
      BY <1>1 DEF UInv, UdpTypes
    <2>2. CASE b.op = "set"
      BY <1>2, <1>5, <2>1, <2>2 DEF AnswersSuit
    <2>3. CASE b.op = "get"
      <3> DEFINE a == [b EXCEPT !.local = session[b.remote]]
      <3>1. main' = Append(main, a)
        BY <1>5, <2>3
      <3>2. /\ a \in Block /\ a.remote = b.remote /\ a.known = b.known /\ a.local = session[b.remote]
        BY <1>3, <1>4, <2>1 DEF Block
      <3>3. LookupWillSuit(1)
        BY <1>3, <2>3 DEF UInv, LookupsWillSuit
      <3>4. Suits(sent[b.remote], b.known, session[b.remote])
        BY <1>3, <3>3 DEF LookupWillSuit, WillSuit
      <3> HIDE DEF a
      <3>5. /\ main' \in Seq(Block) /\ Len(main') = Len(main) + 1 /\ Len(main) \in Nat
            /\ \A i \in 1..Len(main) : main'[i] = main[i]
            /\ main'[Len(main) + 1] = a
        BY <2>1, <3>1, <3>2, AppendFacts
      <3>6. ASSUME NEW i \in 1..Len(main')
            PROVE  Suits(sent'[main'[i].remote], main'[i].known, main'[i].local)
        <4>1. CASE i \in 1..Len(main)
          BY <1>2, <2>1, <3>5, <4>1 DEF AnswersSuit
        <4>2. CASE i = Len(main) + 1
          BY <1>2, <3>2, <3>4, <3>5, <4>2
        <4> QED
          BY <3>5, <4>1, <4>2
      <3> QED
        BY <3>5, <3>6 DEF AnswersSuit
    <2> QED
      BY <1>5, <2>2, <2>3
  <1>11. UdpTypes'
    <2>1. session' \in [Remotes -> Endpoints]
      BY <1>1, <1>4, <1>5 DEF UdpTypes
    <2> QED
      BY <1>1, <1>2, <1>3, <1>10, <2>1 DEF UdpTypes
  <1>12. AnswersSuit(delivered)'
    BY <1>2 DEF UInv, AnswersSuit
  <1> QED
    BY <1>8, <1>9, <1>10, <1>11, <1>12 DEF UInv

LEMMA WriteUInv == UInv /\ writePacket => UInv'
  <1> SUFFICES ASSUME UInv, writePacket PROVE UInv'
    OBVIOUS
  <1>1. /\ main # <<>> /\ main' = Tail(main) /\ delivered' = Append(delivered, Head(main))
        /\ UNCHANGED <<session, blocks, sent>>
    BY DEF writePacket
  <1>2. UdpTypes /\ main \in Seq(Block) /\ delivered \in Seq(Block)
    BY DEF UInv, UdpTypes
  <1>3. /\ main' \in Seq(Block) /\ Len(main') = Len(main) - 1 /\ Len(main) \in Nat /\ Len(main) > 0
        /\ \A i \in 1..(Len(main) - 1) : main'[i] = main[i + 1]
        /\ Head(main) = main[1] /\ Head(main) \in Block
    BY <1>1, <1>2, TailFacts
  <1>4. /\ delivered' \in Seq(Block) /\ Len(delivered') = Len(delivered) + 1 /\ Len(delivered) \in Nat
        /\ \A i \in 1..Len(delivered) : delivered'[i] = delivered[i]
        /\ delivered'[Len(delivered) + 1] = main[1]
    BY <1>1, <1>2, <1>3, AppendFacts
  <1>5. /\ \A i \in 1..Len(main) : Suits(sent[main[i].remote], main[i].known, main[i].local)
        /\ \A i \in 1..Len(delivered) :
             Suits(sent[delivered[i].remote], delivered[i].known, delivered[i].local)
    BY DEF UInv, AnswersSuit
  <1>6. ASSUME NEW i \in 1..Len(delivered')
        PROVE  Suits(sent[delivered'[i].remote], delivered'[i].known, delivered'[i].local)
    <2>1. CASE i \in 1..Len(delivered)
      BY <1>4, <1>5, <2>1
    <2>2. CASE i = Len(delivered) + 1
      BY <1>3, <1>4, <1>5, <2>2
    <2> QED
      BY <1>4, <2>1, <2>2
  <1>7. ASSUME NEW i \in 1..Len(main')
        PROVE  Suits(sent[main'[i].remote], main'[i].known, main'[i].local)
    <2>1. main'[i] = main[i + 1] /\ i + 1 \in 1..Len(main)
      BY <1>3
    <2> QED
      BY <1>5, <2>1
  <1>8. AnswersSuit(main)' /\ AnswersSuit(delivered)'
    BY <1>1, <1>6, <1>7 DEF AnswersSuit
  <1>9. UdpTypes' /\ NewestWillSuit' /\ LookupsWillSuit'
    BY <1>1, <1>2, <1>3, <1>4 DEF UInv, UdpTypes, NewestWillSuit, LookupsWillSuit, LookupWillSuit
  <1> QED
    BY <1>8, <1>9 DEF UInv

\* Only what has been read is handled.
LoopInv == handled \in Nat /\ batch \in Nat /\ handled <= batch /\ batch <= Len(Traffic)

LEMMA TrafficOK ==
  ASSUME NEW i \in 1..Len(Traffic), Traffic[i][1] = "udp"
  PROVE  Traffic[i][2] \in Locals /\ Traffic[i][3] \in Remotes
  <1>1. Traffic[i] \in Packets
    BY TunnelInterfaceAssumption
  <1>2. CASE Traffic[i] \in {"tcp"} \X (1..MTU)
    BY <1>2
  <1>3. CASE Traffic[i] \in {"udp"} \X Locals \X Remotes
    BY <1>3
  <1>4. CASE Traffic[i] = <<"other">>
    BY <1>4
  <1> QED
    BY <1>1, <1>2, <1>3, <1>4 DEF Packets

LEMMA NextUInv == UInv /\ LoopInv /\ [Next]_vars => UInv' /\ LoopInv'
  <1> SUFFICES ASSUME UInv, LoopInv, [Next]_vars PROVE UInv' /\ LoopInv'
    OBVIOUS
  <1> USE DEF LoopInv
  <1>0. Len(Traffic) \in Nat
    BY TunnelInterfaceAssumption
  <1>1. CASE ReadPackets
    <2>1. UNCHANGED udpVars
      BY <1>1 DEF ReadPackets
    <2>2. LoopInv'
      BY <1>0, <1>1, TunnelInterfaceAssumption DEF ReadPackets
    <2> QED
      BY <2>1, <2>2, StutterUInv
  <1>2. CASE HandleUdp
    <2>1. handled + 1 \in 1..Len(Traffic) /\ LoopInv'
      BY <1>0, <1>2 DEF HandleUdp, Handled
    <2>2. Current[2] \in Locals /\ Current[3] \in Remotes
      BY <1>2, <2>1, TrafficOK DEF HandleUdp, Current
    <2>3. handleUdpPacket(Current[2], Current[3])
      BY <1>2 DEF HandleUdp
    <2>4. UInv'
      BY <2>2, <2>3, SendUInv
    <2> QED
      BY <2>1, <2>4
  <1>3. CASE HandleTcp \/ Drop
    <2>1. UNCHANGED udpVars
      BY <1>3 DEF HandleTcp, Drop
    <2>2. LoopInv'
      BY <1>0, <1>3 DEF HandleTcp, Drop, Handled, loopVars
    <2> QED
      BY <2>1, <2>2, StutterUInv
  <1>4. CASE Queues
    <2>1. UInv'
      BY <1>4, RunBlockUInv, WriteUInv, ReceiveUInv DEF Queues
    <2> QED
      BY <1>4, <2>1 DEF Queues, loopVars
  <1>5. CASE Reactor \/ Done \/ UNCHANGED vars
    <2>1. UNCHANGED <<udpVars, loopVars>>
      BY <1>5 DEF Reactor, Done, vars
    <2> QED
      BY <2>1, StutterUInv DEF loopVars
  <1> QED
    BY <1>1, <1>2, <1>3, <1>4, <1>5 DEF Next, processPackets

\* Whatever the endpoints, the traffic and the order of the threads: no answer goes to
\* an endpoint that had been superseded when the answer arrived, although the lookup
\* and the entries are made in blocks that run later (handleUdpPacket, didReceiveData).
THEOREM AnswersReachLastSender == Spec => []AnswerToLastSender
  <1>1. Init => UInv /\ LoopInv
    <2>1. Len(Traffic) \in Nat
      BY TunnelInterfaceAssumption
    <2> QED
      BY <2>1, InitUInv DEF Init, LoopInv
  <1>2. UInv => AnswerToLastSender
    <2> SUFFICES ASSUME UInv, NEW i \in DOMAIN delivered
                 PROVE  LET a == delivered[i] IN
                        IF a.known = 0
                          THEN a.local = Nobody \/ \E k \in DOMAIN sent[a.remote] : sent[a.remote][k] = a.local
                          ELSE \E k \in a.known..Len(sent[a.remote]) : sent[a.remote][k] = a.local
      BY DEF AnswerToLastSender
    <2>1. delivered \in Seq(Block) /\ i \in 1..Len(delivered)
      BY DEF UInv, UdpTypes
    <2>2. delivered[i].remote \in Remotes /\ sent[delivered[i].remote] \in Seq(Locals)
      BY <2>1, BlockFields DEF UInv, UdpTypes
    <2>3. Suits(sent[delivered[i].remote], delivered[i].known, delivered[i].local)
      BY <2>1 DEF UInv, AnswersSuit
    <2> QED
      BY <2>2, <2>3 DEF Suits
  <1> QED
    BY <1>1, <1>2, NextUInv, PTL DEF Spec
-----------------------------------------------------------------------------
(* The pipe.  While the kernel has split no write it holds whole frames, but  *)
(* for the header the reader has taken from the first.                        *)

Bytes == Nat \X Nat
FrameLength(p) == Header + Lengths[p]

\* From the k-th byte of s on its frame goes on to its end, and then the next one
\* begins, up to the frame before that of the packet `next`.
GoesOn(s, next, k) ==
  LET p == s[k][1]
      i == s[k][2]
  IN /\ p \in 1..(next - 1) /\ i \in 1..FrameLength(p)
     /\ \A j \in 0..(FrameLength(p) - i) : k + j <= Len(s) /\ s[k + j] = <<p, i + j>>
     /\ i = FrameLength(p) => IF k = Len(s) THEN p = next - 1 ELSE s[k + 1] = <<p + 1, 1>>

Framed(s, next) == \A k \in 1..Len(s) : GoesOn(s, next, k)

Whole ==
  /\ packet \in 1..(Len(Lengths) + 1) /\ written = 0
  /\ pipe \in Seq(Bytes) /\ Framed(pipe, packet)
  /\ received \in Seq(Seq(Bytes)) /\ Len(received) < packet
  /\ \A i \in 1..Len(received) : received[i] = Body(i)
  /\ ~quitting /\ data_len \in 0..MTU /\ reader \in {"waiting", "body", "packet"}
  /\ IF reader = "body"
       THEN /\ Len(received) + 1 < packet /\ data_len = Lengths[Len(received) + 1]
            /\ pipe # <<>> /\ pipe[1] = <<Len(received) + 1, 3>>
       ELSE /\ pipe = <<>> => Len(received) + 1 = packet
            /\ pipe # <<>> => pipe[1] = <<Len(received) + 1, 1>>

PipeInv == ~split => Whole

LEMMA LengthsOK ==
  /\ Len(Lengths) \in Nat /\ MTU \in Nat
  /\ \A p \in 1..Len(Lengths) : Lengths[p] \in 1..MTU /\ FrameLength(p) \in Nat /\ FrameLength(p) >= 3
  <1>1. Lengths \in Seq(1..MTU) /\ MTU \in Nat
    BY TunnelPipeAssumption
  <1>2. \A p \in 1..Len(Lengths) : Lengths[p] \in 1..MTU
    BY <1>1
  <1> QED
    BY <1>1, <1>2 DEF FrameLength, Header

LEMMA FrameFacts ==
  ASSUME NEW p \in 1..Len(Lengths)
  PROVE  /\ Frame(p) \in Seq(Bytes) /\ Len(Frame(p)) = FrameLength(p)
         /\ \A i \in 1..FrameLength(p) : Frame(p)[i] = <<p, i>>
  <1>1. p \in Nat /\ FrameLength(p) \in Nat
    BY LengthsOK
  <1>2. Frame(p) = [i \in 1..FrameLength(p) |-> <<p, i>>]
    BY DEF Frame, FrameLength
  <1>3. \A i \in 1..FrameLength(p) : <<p, i>> \in Bytes
    BY <1>1 DEF Bytes
  <1> QED
    BY <1>1, <1>2, <1>3

\* t is s without its first n bytes.
IsRest(t, s, next, n) ==
  /\ t \in Seq(Bytes) /\ Len(t) = Len(s) - n /\ Framed(t, next)
  /\ \A k \in 1..(Len(s) - n) : t[k] = s[n + k]

\* t is s with the frame of the packet `next` behind it.
IsExtended(t, s, next) ==
  /\ t \in Seq(Bytes) /\ Len(t) = Len(s) + FrameLength(next) /\ Framed(t, next + 1)
  /\ \A k \in 1..Len(s) : t[k] = s[k]
  /\ t[Len(s) + 1] = <<next, 1>>

LEMMA FramedSuffix ==
  ASSUME NEW s \in Seq(Bytes), NEW next \in 1..(Len(Lengths) + 1), Framed(s, next), NEW n \in 0..Len(s)
  PROVE  IsRest(SubSeq(s, n + 1, Len(s)), s, next, n)
  <1>0. PICK t : t = SubSeq(s, n + 1, Len(s))
    OBVIOUS
  <1>1. t \in Seq(Bytes) /\ Len(t) = Len(s) - n /\ Len(s) \in Nat /\ n \in Nat /\ n <= Len(s)
    BY <1>0
  <1>2. \A k \in 1..(Len(s) - n) : t[k] = s[n + k]
    BY <1>0, <1>1
  <1>3. ASSUME NEW k \in 1..Len(t) PROVE GoesOn(t, next, k)
    <2>1. k \in 1..(Len(s) - n) /\ n + k \in 1..Len(s) /\ t[k] = s[n + k]
      BY <1>1, <1>2
    <2>2. GoesOn(s, next, n + k)
      BY <2>1 DEF Framed
    <2> DEFINE p == t[k][1]
               i == t[k][2]
    <2>3. /\ p \in 1..(next - 1) /\ i \in 1..FrameLength(p)
          /\ \A j \in 0..(FrameLength(p) - i) : (n + k) + j <= Len(s) /\ s[(n + k) + j] = <<p, i + j>>
          /\ i = FrameLength(p) => IF n + k = Len(s) THEN p = next - 1 ELSE s[(n + k) + 1] = <<p + 1, 1>>
      BY <2>1, <2>2 DEF GoesOn
    <2>4. p \in 1..Len(Lengths) /\ FrameLength(p) \in Nat
      BY <2>3, LengthsOK
    <2> HIDE DEF p, i
    <2>5. ASSUME NEW j \in 0..(FrameLength(p) - i)
          PROVE  k + j <= Len(t) /\ t[k + j] = <<p, i + j>>
      <3>1. (n + k) + j <= Len(s) /\ s[(n + k) + j] = <<p, i + j>>
        BY <2>3
      <3>2. k + j \in 1..(Len(s) - n) /\ n + (k + j) = (n + k) + j
        BY <1>1, <2>1, <2>3, <2>4, <3>1
      <3>3. k + j <= Len(t)
        BY <1>1, <3>2
      <3>4. t[k + j] = s[(n + k) + j]
        BY <1>2, <3>2
      <3> QED
        BY <3>1, <3>3, <3>4
    <2>6. ASSUME i = FrameLength(p)
          PROVE  IF k = Len(t) THEN p = next - 1 ELSE t[k + 1] = <<p + 1, 1>>
      <3>1. CASE k = Len(t)
        <4>1. n + k = Len(s)
          BY <1>1, <3>1
        <4> QED
          BY <2>3, <2>6, <3>1, <4>1
      <3>2. CASE k # Len(t)
        <4>1. n + k # Len(s) /\ k + 1 \in 1..(Len(s) - n) /\ n + (k + 1) = (n + k) + 1
          BY <1>1, <2>1, <3>2
        <4> QED
          BY <1>2, <2>3, <2>6, <3>2, <4>1
      <3> QED
        BY <3>1, <3>2
    <2> QED
      BY <2>3, <2>5, <2>6 DEF GoesOn, p, i
  <1>4. IsRest(t, s, next, n)
    BY <1>1, <1>2, <1>3 DEF Framed, IsRest
  <1> QED
    BY <1>0, <1>4

\* A whole frame is added.
LEMMA FramedAppend ==
  ASSUME NEW s \in Seq(Bytes), NEW next \in 1..Len(Lengths), Framed(s, next)
  PROVE  IsExtended(s \o Frame(next), s, next)
  <1>0. PICK t : t = s \o Frame(next)
    OBVIOUS
  <1> DEFINE f == Frame(next)
             n == Len(s)
             m == FrameLength(next)
  <1>1. /\ f \in Seq(Bytes) /\ Len(f) = m /\ \A i \in 1..m : f[i] = <<next, i>>
        /\ m \in Nat /\ m >= 3 /\ n \in Nat
    BY FrameFacts, LengthsOK
  <1> HIDE DEF f, m
  <1>2. /\ t \in Seq(Bytes) /\ Len(t) = n + m
        /\ \A k \in 1..n : t[k] = s[k]
        /\ \A i \in 1..m : t[n + i] = f[i]
    <2>1. t = s \o f
      BY <1>0 DEF f
    <2>2. t \in Seq(Bytes) /\ Len(t) = n + m /\ \A k \in 1..(n + m) : t[k] = IF k <= n THEN s[k] ELSE f[k - n]
      <3>1. /\ s \o f \in Seq(Bytes) /\ Len(s \o f) = Len(s) + Len(f)
            /\ \A k \in 1..(Len(s) + Len(f)) : (s \o f)[k] = IF k <= Len(s) THEN s[k] ELSE f[k - Len(s)]
        BY <1>1, ConcatProperties, Zenon
      <3> QED
        BY <1>1, <2>1, <3>1
    <2>3. ASSUME NEW i \in 1..m PROVE t[n + i] = f[i]
      <3>1. n + i \in 1..(n + m) /\ ~(n + i <= n) /\ (n + i) - n = i
        BY <1>1
      <3> QED
        BY <2>2, <3>1
    <2>4. \A k \in 1..n : k \in 1..(n + m) /\ k <= n
      BY <1>1
    <2> QED
      BY <2>2, <2>3, <2>4
  <1>3. \A i \in 1..m : t[n + i] = <<next, i>>
    BY <1>1, <1>2
  <1>4. t[n + 1] = <<next, 1>>
    BY <1>1, <1>3
  <1>5. ASSUME NEW k \in 1..n PROVE GoesOn(t, next + 1, k)
    <2> DEFINE p == t[k][1]
               i == t[k][2]
    <2>1. GoesOn(s, next, k) /\ t[k] = s[k]
      BY <1>2 DEF Framed
    <2>2. /\ p \in 1..(next - 1) /\ i \in 1..FrameLength(p)
          /\ \A j \in 0..(FrameLength(p) - i) : k + j <= n /\ s[k + j] = <<p, i + j>>
          /\ i = FrameLength(p) => IF k = n THEN p = next - 1 ELSE s[k + 1] = <<p + 1, 1>>
      BY <2>1 DEF GoesOn
    <2>3. p \in 1..Len(Lengths) /\ FrameLength(p) \in Nat /\ next \in Nat
      BY <2>2, LengthsOK
    <2> HIDE DEF p, i
    <2>4. p \in 1..((next + 1) - 1)
      BY <2>2, <2>3
    <2>5. ASSUME NEW j \in 0..(FrameLength(p) - i)
          PROVE  k + j <= Len(t) /\ t[k + j] = <<p, i + j>>
      <3>1. k + j <= n /\ s[k + j] = <<p, i + j>>
        BY <2>2
      <3>2. k + j \in 1..n /\ n <= n + m
        BY <1>1, <2>2, <2>3, <3>1
      <3> QED
        BY <1>1, <1>2, <3>1, <3>2
    <2>6. ASSUME i = FrameLength(p)
          PROVE  IF k = Len(t) THEN p = (next + 1) - 1 ELSE t[k + 1] = <<p + 1, 1>>
      <3>1. k # Len(t)
        BY <1>1, <1>2
      <3>2. CASE k = n
        <4>1. p + 1 = next
          BY <2>2, <2>3, <2>6, <3>2
        <4> QED
          BY <1>4, <3>1, <3>2, <4>1
      <3>3. CASE k # n
        <4>1. k + 1 \in 1..n
          BY <1>1, <3>3
        <4> QED
          BY <1>2, <2>2, <2>6, <3>1, <3>3, <4>1
      <3> QED
        BY <3>2, <3>3
    <2> QED
      BY <2>2, <2>4, <2>5, <2>6 DEF GoesOn, p, i
  <1>6. ASSUME NEW i \in 1..m PROVE GoesOn(t, next + 1, n + i)
    <2>1. t[n + i] = <<next, i>>
      BY <1>3
    <2>2. next \in 1..((next + 1) - 1)
      BY LengthsOK
    <2>3. ASSUME NEW j \in 0..(m - i)
          PROVE  (n + i) + j <= Len(t) /\ t[(n + i) + j] = <<next, i + j>>
      <3>1. i + j \in 1..m /\ n + (i + j) = (n + i) + j /\ (n + i) + j <= n + m
        BY <1>1
      <3> QED
        BY <1>2, <1>3, <3>1
    <2>4. ASSUME i = m
          PROVE  IF n + i = Len(t) THEN next = (next + 1) - 1 ELSE t[(n + i) + 1] = <<next + 1, 1>>
      BY <1>1, <1>2, <2>4, LengthsOK
    <2>5. t[n + i][1] = next /\ t[n + i][2] = i /\ FrameLength(next) = m
      BY <2>1 DEF m
    <2> QED
      BY <2>2, <2>3, <2>4, <2>5 DEF GoesOn
  <1>7. ASSUME NEW k \in 1..Len(t) PROVE GoesOn(t, next + 1, k)
    <2>1. CASE k <= n
      BY <1>1, <1>5, <2>1
    <2>2. CASE ~(k <= n)
      <3>1. k - n \in 1..m /\ n + (k - n) = k
        BY <1>1, <1>2, <2>2
      <3> QED
        BY <1>6, <3>1
    <2> QED
      BY <2>1, <2>2
  <1>8. Framed(t, next + 1)
    BY <1>7 DEF Framed
  <1>9. Len(t) = Len(s) + FrameLength(next)
    BY <1>2 DEF m
  <1>10. IsExtended(t, s, next)
    BY <1>2, <1>4, <1>8, <1>9 DEF IsExtended
  <1> QED
    BY <1>0, <1>10

\* As long as no write has been split, handleTcpPacket puts in a frame as a whole.
LEMMA WritePipeInv == PipeInv /\ handleTcpPacket => PipeInv'
  <1> SUFFICES ASSUME PipeInv, handleTcpPacket, ~split' PROVE Whole'
    BY DEF PipeInv
  <1>1. ~split /\ Put(Len(Frame(packet)) - written) /\ packet <= Len(Lengths)
        /\ UNCHANGED <<reader, data_len, received, quitting>>
    BY DEF handleTcpPacket
  <1>2. Whole
    BY <1>1 DEF PipeInv
  <1>3. packet \in 1..Len(Lengths) /\ written = 0 /\ packet \in Nat
    BY <1>1, <1>2, LengthsOK DEF Whole
  <1>4. /\ Frame(packet) \in Seq(Bytes) /\ Len(Frame(packet)) = FrameLength(packet)
        /\ FrameLength(packet) \in Nat
    BY <1>3, FrameFacts, LengthsOK
  <1>5. /\ pipe' = pipe \o SubSeq(Frame(packet), 1, Len(Frame(packet)))
        /\ packet' = packet + 1 /\ written' = 0
    <2>1. written + (Len(Frame(packet)) - written) = Len(Frame(packet)) /\ written + 1 = 1
      BY <1>3, <1>4
    <2> QED
      BY <1>1, <2>1 DEF Put
  <1>6. SubSeq(Frame(packet), 1, Len(Frame(packet))) = Frame(packet)
    BY <1>4
  <1>7. pipe' = pipe \o Frame(packet)
    BY <1>5, <1>6
  <1>8. /\ pipe' \in Seq(Bytes) /\ Framed(pipe', packet + 1)
        /\ Len(pipe') = Len(pipe) + FrameLength(packet)
        /\ \A k \in 1..Len(pipe) : pipe'[k] = pipe[k]
        /\ pipe'[Len(pipe) + 1] = <<packet, 1>>
    <2>1. pipe \in Seq(Bytes) /\ Framed(pipe, packet)
      BY <1>2 DEF Whole
    <2>2. IsExtended(pipe \o Frame(packet), pipe, packet)
      BY <1>3, <2>1, FramedAppend, Zenon
    <2>3. IsExtended(pipe', pipe, packet)
      BY <1>7, <2>2, Zenon
    <2> QED
      BY <2>3 DEF IsExtended
  <1>9. pipe' # <<>> /\ Len(pipe) \in Nat
    BY <1>2, <1>3, <1>4, <1>8, LengthsOK DEF Whole
  <1>10. \A i \in 1..Len(received) : received'[i] = Body(i)'
    BY <1>1, <1>2 DEF Whole, Body, Frame
  <1>11. IF reader = "body"
         THEN Len(received) + 1 < packet' /\ pipe'[1] = <<Len(received) + 1, 3>>
         ELSE pipe'[1] = <<Len(received) + 1, 1>>
    <2>1. CASE pipe = <<>>
      BY <1>2, <1>8, <2>1 DEF Whole
    <2>2. CASE pipe # <<>>
      <3>1. 1 \in 1..Len(pipe)
        BY <1>2, <1>9, <2>2 DEF Whole
      <3>2. pipe'[1] = pipe[1]
        BY <1>8, <3>1
      <3> QED
        BY <1>2, <1>3, <1>5, <2>2, <3>2 DEF Whole
    <2> QED
      BY <2>1, <2>2
  <1>12. packet' \in 1..(Len(Lengths) + 1) /\ Len(received) < packet'
    BY <1>2, <1>3, <1>5, LengthsOK DEF Whole
  <1>13. Framed(pipe', packet')
    BY <1>5, <1>8
  <1>14. Framed(pipe, packet)'
    BY <1>13 DEF Framed, GoesOn, FrameLength
  <1> QED
    BY <1>1, <1>2, <1>5, <1>8, <1>9, <1>10, <1>11, <1>12, <1>14 DEF Whole

\* The reader takes n bytes: what is left is still framed.
LEMMA TakePipe ==
  ASSUME Whole, NEW n \in 0..Len(pipe), Take(n)
  PROVE  /\ pipe' \in Seq(Bytes) /\ Len(pipe') = Len(pipe) - n /\ Framed(pipe', packet)
         /\ \A k \in 1..(Len(pipe) - n) : pipe'[k] = pipe[n + k]
  <1>1. pipe \in Seq(Bytes) /\ Framed(pipe, packet) /\ packet \in 1..(Len(Lengths) + 1)
    BY DEF Whole
  <1>2. IsRest(SubSeq(pipe, n + 1, Len(pipe)), pipe, packet, n)
    BY <1>1, FramedSuffix, Zenon
  <1>3. IsRest(pipe', pipe, packet, n)
    BY <1>2, Zenon DEF Take
  <1> QED
    BY <1>3 DEF IsRest

\* The bytes from the k-th on to the end of its frame.
LEMMA RestOfFrame ==
  ASSUME Whole, NEW p, NEW i, NEW k \in 1..Len(pipe), pipe[k] = <<p, i>>
  PROVE  /\ p \in 1..Len(Lengths) /\ p < packet /\ i \in 1..FrameLength(p)
         /\ Lengths[p] \in 1..MTU /\ FrameLength(p) = Lengths[p] + 2
         /\ \A j \in 0..(FrameLength(p) - i) : k + j <= Len(pipe) /\ pipe[k + j] = <<p, i + j>>
         /\ i = FrameLength(p) => IF k = Len(pipe) THEN p + 1 = packet ELSE pipe[k + 1] = <<p + 1, 1>>
  <1>1. GoesOn(pipe, packet, k) /\ packet \in 1..(Len(Lengths) + 1)
    BY DEF Whole, Framed
  <1>2. pipe[k][1] = p /\ pipe[k][2] = i
    OBVIOUS
  <1>3. /\ p \in 1..(packet - 1) /\ i \in 1..FrameLength(p)
        /\ \A j \in 0..(FrameLength(p) - i) : k + j <= Len(pipe) /\ pipe[k + j] = <<p, i + j>>
        /\ i = FrameLength(p) => IF k = Len(pipe) THEN p = packet - 1 ELSE pipe[k + 1] = <<p + 1, 1>>
    BY <1>1, <1>2 DEF GoesOn
  <1>4. p \in 1..Len(Lengths) /\ p < packet /\ (p = packet - 1 => p + 1 = packet)
    BY <1>1, <1>3, LengthsOK
  <1>5. Lengths[p] \in 1..MTU /\ FrameLength(p) = Lengths[p] + 2
    BY <1>4, LengthsOK DEF FrameLength, Header
  <1> QED
    BY <1>3, <1>4, <1>5

\* The reader finds the header of the next frame, and the whole frame behind it.
LEMMA ReadHeaderPipeInv == PipeInv /\ ReadHeader => PipeInv'
  <1> SUFFICES ASSUME PipeInv, ReadHeader, ~split' PROVE Whole'
    BY DEF PipeInv
  <1>1. /\ reader = "waiting" /\ pipe # <<>> /\ ~split
        /\ UNCHANGED <<packet, written, received, quitting>>
    BY DEF ReadHeader
  <1>2. Whole
    BY <1>1 DEF PipeInv
  <1> DEFINE r == Len(received) + 1
  <1>3. pipe \in Seq(Bytes) /\ Len(pipe) \in Nat /\ 1 \in 1..Len(pipe) /\ pipe[1] = <<r, 1>> /\ r \in Nat
    BY <1>1, <1>2 DEF Whole
  <1> HIDE DEF r
  <1>4. /\ r \in 1..Len(Lengths) /\ r < packet /\ Lengths[r] \in 1..MTU
        /\ FrameLength(r) = Lengths[r] + 2
        /\ \A j \in 0..(FrameLength(r) - 1) : 1 + j <= Len(pipe) /\ pipe[1 + j] = <<r, 1 + j>>
    BY <1>2, <1>3, RestOfFrame
  <1>5. 3 <= Len(pipe) /\ pipe[2] = <<r, 2>> /\ pipe[3] = <<r, 3>> /\ MTU \in Nat
    <2>1. 1 \in 0..(FrameLength(r) - 1) /\ 2 \in 0..(FrameLength(r) - 1) /\ 1 + 1 = 2 /\ 1 + 2 = 3 /\ MTU \in Nat
      BY <1>4, LengthsOK
    <2> QED
      BY <1>4, <2>1
  <1>6. Take(2) /\ data_len' \in Decoded(pipe) /\ reader' = "body"
    BY <1>3, <1>5 DEF ReadHeader, Header, HeaderRead
  <1>7. data_len' = Lengths[r]
    <2>1. pipe[1][1] = r /\ pipe[1][2] = 1
      BY <1>3
    <2> QED
      BY <1>5, <1>6, <2>1 DEF Decoded
  <1>8. /\ pipe' \in Seq(Bytes) /\ Len(pipe') = Len(pipe) - 2 /\ Framed(pipe', packet)
        /\ \A k \in 1..(Len(pipe) - 2) : pipe'[k] = pipe[2 + k]
    <2>1. 2 \in 0..Len(pipe)
      BY <1>3, <1>5
    <2> QED
      BY <1>2, <1>6, <2>1, TakePipe
  <1>9. pipe'[1] = <<r, 3>> /\ pipe' # <<>>
    <2>1. 1 \in 1..(Len(pipe) - 2) /\ 2 + 1 = 3 /\ Len(pipe') # 0
      BY <1>3, <1>5, <1>8
    <2> QED
      BY <1>5, <1>8, <2>1
  <1>10. Framed(pipe, packet)'
    BY <1>1, <1>8 DEF Framed, GoesOn, FrameLength
  <1>11. \A i \in 1..Len(received) : received'[i] = Body(i)'
    BY <1>1, <1>2 DEF Whole, Body, Frame
  <1>12. data_len' \in 0..MTU
    BY <1>4, <1>5, <1>7
  <1> QED
    BY <1>1, <1>2, <1>4, <1>6, <1>7, <1>8, <1>9, <1>10, <1>11, <1>12 DEF Whole, r

\* The reader finds all of the packet, takes it, and the next frame begins behind it.
LEMMA ReadBodyPipeInv == PipeInv /\ ReadBody => PipeInv'
  <1> SUFFICES ASSUME PipeInv, ReadBody, ~split' PROVE Whole'
    BY DEF PipeInv
  <1>1. reader = "body" /\ ~split /\ UNCHANGED <<packet, written, data_len>>
    BY DEF ReadBody
  <1>2. Whole
    BY <1>1 DEF PipeInv
  <1> DEFINE r == Len(received) + 1
             n == data_len
  <1>3. /\ pipe \in Seq(Bytes) /\ Len(pipe) \in Nat /\ 1 \in 1..Len(pipe) /\ pipe[1] = <<r, 3>>
        /\ r \in Nat /\ n = Lengths[r] /\ received \in Seq(Seq(Bytes)) /\ Len(received) \in Nat
        /\ Len(received) < r /\ packet \in Nat
    BY <1>1, <1>2, LengthsOK DEF Whole
  <1> HIDE DEF r, n
  <1>4. /\ r \in 1..Len(Lengths) /\ r < packet /\ Lengths[r] \in 1..MTU
        /\ FrameLength(r) = Lengths[r] + 2
        /\ \A j \in 0..(FrameLength(r) - 3) : 1 + j <= Len(pipe) /\ pipe[1 + j] = <<r, 3 + j>>
    BY <1>2, <1>3, RestOfFrame
  <1>5. n \in Nat /\ n >= 1 /\ MTU \in Nat
    BY <1>3, <1>4, LengthsOK
  <1>6. \A i \in 1..n : i <= Len(pipe) /\ pipe[i] = <<r, 2 + i>>
    <2> TAKE i \in 1..n
    <2>1. i - 1 \in 0..(FrameLength(r) - 3) /\ 1 + (i - 1) = i /\ 3 + (i - 1) = 2 + i
      BY <1>3, <1>4, <1>5
    <2> QED
      BY <1>4, <2>1
  <1>7. n \in 0..Len(pipe) /\ n \in 1..Len(pipe)
    BY <1>3, <1>5, <1>6
  <1>8. /\ Take(n) /\ reader' = "packet" /\ UNCHANGED quitting
        /\ received' = Append(received, SubSeq(pipe, 1, n))
    <2>1. data_len = n /\ data_len <= Len(pipe) /\ data_len # 0
      BY <1>5, <1>7 DEF n
    <2>2. ~ShortRead(data_len)
      BY DEF ShortRead
    <2> QED
      BY <2>1, <2>2 DEF ReadBody, input_handler_done
  <1>9. SubSeq(pipe, 1, n) \in Seq(Bytes) /\ SubSeq(pipe, 1, n) = Body(r)
    <2>1. /\ Frame(r) \in Seq(Bytes) /\ Len(Frame(r)) = n + 2
          /\ \A i \in 1..(n + 2) : Frame(r)[i] = <<r, i>>
      BY <1>3, <1>4, FrameFacts
    <2>2. Body(r) = SubSeq(Frame(r), 3, 2 + n)
      BY <1>3 DEF Body, Header
    <2>3. Body(r) \in Seq(Bytes) /\ Len(Body(r)) = n /\ \A i \in 1..n : Body(r)[i] = Frame(r)[2 + i]
      BY <1>5, <2>1, <2>2
    <2>4. \A i \in 1..n : Body(r)[i] = <<r, 2 + i>>
      BY <1>5, <2>1, <2>3
    <2>5. /\ SubSeq(pipe, 1, n) \in Seq(Bytes) /\ Len(SubSeq(pipe, 1, n)) = n
          /\ \A i \in 1..n : SubSeq(pipe, 1, n)[i] = pipe[i]
      BY <1>3, <1>5, <1>7
    <2>6. \A i \in 1..n : SubSeq(pipe, 1, n)[i] = Body(r)[i]
      BY <1>6, <2>4, <2>5
    <2>7. SubSeq(pipe, 1, n) = Body(r)
      BY <1>5, <2>3, <2>5, <2>6
    <2> QED
      BY <2>5, <2>7
  <1>10. /\ pipe' \in Seq(Bytes) /\ Len(pipe') = Len(pipe) - n /\ Framed(pipe', packet)
         /\ \A k \in 1..(Len(pipe) - n) : pipe'[k] = pipe[n + k]
    BY <1>2, <1>7, <1>8, TakePipe
  <1>11. /\ received' \in Seq(Seq(Bytes)) /\ Len(received') = r
         /\ \A i \in 1..Len(received) : received'[i] = received[i]
         /\ received'[r] = Body(r)
    <2>1. /\ Append(received, SubSeq(pipe, 1, n)) \in Seq(Seq(Bytes))
          /\ Len(Append(received, SubSeq(pipe, 1, n))) = Len(received) + 1
          /\ \A i \in 1..Len(received) : Append(received, SubSeq(pipe, 1, n))[i] = received[i]
          /\ Append(received, SubSeq(pipe, 1, n))[Len(received) + 1] = SubSeq(pipe, 1, n)
      <3>1. received \in Seq(Seq(Bytes)) /\ SubSeq(pipe, 1, n) \in Seq(Bytes)
        BY <1>3, <1>9
      <3> QED
        BY <3>1, AppendFacts
    <2> QED
      BY <1>8, <1>9, <2>1 DEF r
  <1>12. IF n = Len(pipe) THEN r + 1 = packet ELSE pipe[n + 1] = <<r + 1, 1>>
    <2>1. pipe[n] = <<r, 2 + n>> /\ 2 + n = FrameLength(r)
      BY <1>3, <1>4, <1>5, <1>6
    <2> QED
      BY <1>2, <1>7, <2>1, RestOfFrame
  <1>13. IF pipe' = <<>> THEN r + 1 = packet ELSE pipe'[1] = <<r + 1, 1>>
    <2>1. CASE n = Len(pipe)
      BY <1>3, <1>10, <1>12, <2>1
    <2>2. CASE n # Len(pipe)
      <3>1. 1 \in 1..(Len(pipe) - n) /\ Len(pipe') # 0
        BY <1>3, <1>5, <1>7, <1>10, <2>2
      <3> QED
        BY <1>10, <1>12, <2>2, <3>1
    <2> QED
      BY <2>1, <2>2
  <1>14. Framed(pipe, packet)'
    BY <1>1, <1>10 DEF Framed, GoesOn, FrameLength
  <1>15. ASSUME NEW i \in 1..Len(received') PROVE received'[i] = Body(i)'
    <2>1. Body(i)' = Body(i)
      BY DEF Body, Frame
    <2>2. CASE i = r
      BY <1>11, <2>1, <2>2
    <2>3. CASE i # r
      <3>1. i \in 1..Len(received)
        BY <1>3, <1>11, <2>3 DEF r
      <3> QED
        BY <1>2, <1>11, <2>1, <3>1 DEF Whole
    <2> QED
      BY <2>2, <2>3
  <1> QED
    BY <1>1, <1>2, <1>4, <1>8, <1>10, <1>11, <1>13, <1>14, <1>15 DEF Whole

LEMMA SendPipeInv == PipeInv /\ device_read_handler_send => PipeInv'
  <1> SUFFICES ASSUME PipeInv, device_read_handler_send, ~split' PROVE Whole'
    BY DEF PipeInv
  <1>1. /\ reader = "packet" /\ reader' = "waiting" /\ ~split
        /\ UNCHANGED <<packet, written, pipe, data_len, received, quitting>>
    BY DEF device_read_handler_send, output_handler_recv
  <1>2. Whole
    BY <1>1 DEF PipeInv
  <1>3. Framed(pipe, packet)' /\ \A i \in 1..Len(received) : received'[i] = Body(i)'
    BY <1>1, <1>2 DEF Whole, Framed, GoesOn, FrameLength, Body, Frame
  <1> QED
    BY <1>1, <1>2, <1>3 DEF Whole

LEMMA SamePipeInv == PipeInv /\ UNCHANGED pipeVars => PipeInv'
  <1> SUFFICES ASSUME PipeInv, UNCHANGED pipeVars, ~split' PROVE Whole'
    BY DEF PipeInv
  <1>1. ~split /\ UNCHANGED <<packet, written, pipe, reader, data_len, received, quitting>>
    BY DEF pipeVars
  <1>2. Whole
    BY <1>1 DEF PipeInv
  <1>3. Framed(pipe, packet)' /\ \A i \in 1..Len(received) : received'[i] = Body(i)'
    BY <1>1, <1>2 DEF Whole, Framed, GoesOn, FrameLength, Body, Frame
  <1> QED
    BY <1>1, <1>2, <1>3 DEF Whole

LEMMA InitPipeInv == Init => PipeInv
  <1> SUFFICES ASSUME Init PROVE Whole
    BY DEF PipeInv
  <1> QED
    BY LengthsOK DEF Init, PipeInit, Whole, Framed

LEMMA NextPipeInv == PipeInv /\ [Next]_vars => PipeInv'
  <1> SUFFICES ASSUME PipeInv, [Next]_vars PROVE PipeInv'
    OBVIOUS
  <1>1. CASE ReadPackets
    BY <1>1, SamePipeInv DEF ReadPackets
  <1>2. CASE HandleTcp
    BY <1>2, WritePipeInv DEF HandleTcp
  <1>3. CASE HandleUdp
    BY <1>3, SamePipeInv DEF HandleUdp
  <1>4. CASE Drop
    BY <1>4, SamePipeInv DEF Drop
  <1>5. CASE Reactor
    BY <1>5, ReadHeaderPipeInv, ReadBodyPipeInv, SendPipeInv DEF Reactor
  <1>6. CASE Queues
    BY <1>6, SamePipeInv DEF Queues
  <1>7. CASE Done
    BY <1>7, SamePipeInv DEF Done, vars
  <1>8. CASE UNCHANGED vars
    BY <1>8, SamePipeInv DEF vars
  <1> QED
    BY <1>1, <1>2, <1>3, <1>4, <1>5, <1>6, <1>7, <1>8 DEF Next, processPackets

\* As long as the kernel splits no write, lwIP is given every TCP packet whole and in the
\* order the system handed them over, and the device does not fail: fd_handler, reading
\* the length and the packet in two reads of a pipe that handleTcpPacket fills from
\* another thread, never finds a part of a frame, whatever the packets and the pipe's size.
THEOREM FramesAlwaysIntact == Spec => []FramesIntact
  <1>1. PipeInv => FramesIntact
    <2> SUFFICES ASSUME Whole PROVE FramesIntact
      BY DEF PipeInv, FramesIntact
    <2>1. DOMAIN received = 1..Len(received) /\ Len(received) \in Nat /\ packet \in Nat
      BY LengthsOK DEF Whole
    <2> QED
      BY <2>1, LengthsOK DEF Whole, FramesIntact
  <1> QED
    BY <1>1, InitPipeInv, NextPipeInv, PTL DEF Spec
=============================================================================
