--------------------------- MODULE Sockets_proofs ---------------------------
(* What the proofs about all servers rest on: what the kernel takes for a   *)
(* connection, how clients and network relate to the connections that a     *)
(* server holds, and how a step looks in Transfer.                          *)
EXTENDS Sockets, SequenceTheorems, TLAPS

USE SocketsAssumption

-----------------------------------------------------------------------------
(* What the kernel takes.                                                   *)

\* What send takes is a piece of the payload: n chunks after the first s.
Piece(s, n) == [k \in 1 .. n |-> s + k]

\* It is a sequence of chunks of the payload.
LEMMA PieceIsSeq ==
  ASSUME NEW s \in Nat, NEW n \in Nat, s + n <= Chunks
  PROVE  Piece(s, n) \in Seq(1 .. Chunks) /\ Len(Piece(s, n)) = n
<1>1. Piece(s, n) \in [1 .. n -> 1 .. Chunks]
  BY DEF Piece
<1>2. Piece(s, n) \in Seq(1 .. Chunks)
  BY <1>1, SeqDef
<1>3. DOMAIN Piece(s, n) = 1 .. n
  BY DEF Piece
<1> QED BY <1>2, <1>3, LenProperties

\* A piece that starts where the stream ends keeps the stream in order.
LEMMA TakenInOrder ==
  ASSUME SocketTypes, InOrder, NEW c \in Conns, NEW s \in Nat, NEW n \in Nat,
         s = Len(stream[c]), s + n <= Chunks, Take(c, s, n)
  PROVE  /\ stream' \in [Conns -> Seq(1 .. Chunks)]
         /\ InOrder'
         /\ Len(stream'[c]) = s + n
         /\ \A d \in Conns : d # c => stream'[d] = stream[d]
<1>1. stream \in [Conns -> Seq(1 .. Chunks)] /\ stream[c] \in Seq(1 .. Chunks)
  BY DEF SocketTypes, StreamTypes
<1>2. Piece(s, n) \in Seq(1 .. Chunks) /\ Len(Piece(s, n)) = n
  BY PieceIsSeq
<1>3. stream' = [stream EXCEPT ![c] = stream[c] \o Piece(s, n)]
  BY DEF Take, Piece
<1>4. /\ stream[c] \o Piece(s, n) \in Seq(1 .. Chunks)
      /\ Len(stream[c] \o Piece(s, n)) = s + n
      /\ \A k \in 1 .. s + n : (stream[c] \o Piece(s, n))[k] =
           IF k <= s THEN stream[c][k] ELSE Piece(s, n)[k - s]
  <2>1. /\ stream[c] \o Piece(s, n) \in Seq(1 .. Chunks)
        /\ Len(stream[c] \o Piece(s, n)) = Len(stream[c]) + Len(Piece(s, n))
        /\ \A k \in 1 .. Len(stream[c]) + Len(Piece(s, n)) :
             (stream[c] \o Piece(s, n))[k] =
               IF k <= Len(stream[c]) THEN stream[c][k]
               ELSE Piece(s, n)[k - Len(stream[c])]
    BY <1>1, <1>2, ConcatProperties
  <2> QED BY <1>2, <2>1
<1>5. \A k \in 1 .. s + n : (stream[c] \o Piece(s, n))[k] = k
  <2> SUFFICES ASSUME NEW k \in 1 .. s + n PROVE (stream[c] \o Piece(s, n))[k] = k
    OBVIOUS
  <2>1. CASE k <= s
    <3>1. stream[c][k] = k
      BY <2>1 DEF InOrder
    <3> QED BY <1>4, <2>1, <3>1
  <2>2. CASE ~(k <= s)
    <3>1. k - s \in 1 .. n
      BY <2>2
    <3>2. Piece(s, n)[k - s] = k
      BY <3>1 DEF Piece
    <3> QED BY <1>4, <2>2, <3>2
  <2> QED BY <2>1, <2>2
<1>6. stream'[c] = stream[c] \o Piece(s, n) /\ \A d \in Conns : d # c => stream'[d] = stream[d]
  BY <1>1, <1>3
<1>7. InOrder'
  BY <1>4, <1>5, <1>6 DEF InOrder
<1> QED BY <1>1, <1>3, <1>4, <1>6, <1>7

\* No chunk is sent twice, so no more than there are.
LEMMA SentIsWithin ==
  ASSUME SocketTypes, InOrder, NEW c \in Conns
  PROVE  Len(stream[c]) \in 0 .. Chunks
<1>1. stream[c] \in Seq(1 .. Chunks) /\ Len(stream[c]) \in Nat
  BY DEF SocketTypes, StreamTypes
<1>2. CASE Len(stream[c]) # 0
  <2>1. Len(stream[c]) \in 1 .. Len(stream[c])
    BY <1>1, <1>2
  <2>2. stream[c][Len(stream[c])] \in 1 .. Chunks
    BY <1>1, <2>1, ElementOfSeq
  <2> QED BY <1>1, <2>1, <2>2 DEF InOrder
<1> QED BY <1>1, <1>2

-----------------------------------------------------------------------------
(* What relates the clients to a server that holds the connections O.       *)

\* A connection the server closed, and a client that stayed, have it all.
ClosedIsWhole(O) == \A c \in Conns :
  /\ peer[c] \in {"reading", "ended"}
  /\ c \notin backlog /\ c \notin O /\ c \notin dropped
  => Len(stream[c]) = Chunks

EndedIsClosed(O) == \A c \in Conns : peer[c] = "ended" =>
  got[c] = Len(stream[c]) /\ c \notin backlog /\ c \notin O

\* Only a client that has gone resets its connection.
ResetHasLeft == \A c \in reset : peer[c] = "left"

ReadWasSent == \A c \in Conns : got[c] <= Len(stream[c])

Honest(O) == ClosedIsWhole(O) /\ EndedIsClosed(O) /\ ResetHasLeft /\ ReadWasSent

\* What a step of the server may do to the connections, those it holds being O
\* before and P after it.  A connection leaves the server complete, given up or
\* because its client left; only held ones are sent anything, and nothing is
\* taken back.
Fate(O, P) ==
  /\ UNCHANGED <<got, peer, reset>>
  /\ dropped \subseteq dropped' /\ backlog' \subseteq backlog
  /\ \A c \in Conns : c \in P => c \in O \/ c \in backlog
  /\ \A c \in Conns : c \in O \/ c \in backlog =>
       \/ c \in P \/ c \in backlog' \/ c \in dropped'
       \/ peer[c] = "left" \/ Len(stream'[c]) = Chunks
  /\ \A c \in Conns : \/ stream'[c] = stream[c]
                      \/ c \in O /\ Len(stream[c]) <= Len(stream'[c])

\* A step whose connections have such fates keeps the relation to the clients.
LEMMA FateIsHonest ==
  ASSUME SocketTypes, NEW O, NEW P, Honest(O), Fate(O, P)
  PROVE  Honest(P)'
<1>1. stream \in [Conns -> Seq(1 .. Chunks)] /\ got \in [Conns -> Nat]
  BY DEF SocketTypes, StreamTypes
<1>2. ClosedIsWhole(P)'
  <2> SUFFICES ASSUME NEW c \in Conns, peer[c] \in {"reading", "ended"},
                      c \notin backlog', c \notin P, c \notin dropped'
               PROVE  Len(stream'[c]) = Chunks
    BY DEF ClosedIsWhole, Fate
  <2>1. CASE c \in O \/ c \in backlog
    BY <2>1 DEF Fate
  <2>2. CASE c \notin O /\ c \notin backlog
    BY <2>2 DEF Fate, Honest, ClosedIsWhole
  <2> QED BY <2>1, <2>2
<1>3. EndedIsClosed(P)'
  BY DEF Fate, Honest, EndedIsClosed
<1>4. ResetHasLeft'
  BY DEF Fate, Honest, ResetHasLeft
<1>5. ReadWasSent'
  <2> SUFFICES ASSUME NEW c \in Conns PROVE got[c] <= Len(stream'[c])
    BY DEF ReadWasSent, Fate
  <2>1. stream'[c] = stream[c] \/ Len(stream[c]) <= Len(stream'[c])
    BY DEF Fate
  <2>2. got[c] <= Len(stream[c]) /\ got[c] \in Nat /\ Len(stream[c]) \in Nat
    BY <1>1 DEF Honest, ReadWasSent
  <2>3. CASE stream'[c] = stream[c]
    BY <2>2, <2>3
  <2>4. CASE stream'[c] # stream[c]
    <3>1. c \in O /\ Len(stream[c]) <= Len(stream'[c])
      BY <2>4 DEF Fate
    <3> QED BY <2>2, <3>1
  <2> QED BY <2>3, <2>4
<1> QED BY <1>2, <1>3, <1>4, <1>5 DEF Honest

\* A step of a client or of the network.
ClientStep(c, O) == Connect(c) \/ Leave(c) \/ Delivery(c, c \in O)

\* Clients and the network keep the relation as well.
LEMMA ClientIsHonest ==
  ASSUME SocketTypes, NEW O, Honest(O), NEW c \in Conns, ClientStep(c, O)
  PROVE  Honest(O)'
<1>1. UNCHANGED <<stream, dropped>>
  BY DEF ClientStep, Connect, Leave, Delivery, Read, ReadEnd, ResetArrives
<1>2. /\ peer \in [Conns -> {"idle", "reading", "ended", "left"}]
      /\ got \in [Conns -> Nat] /\ stream \in [Conns -> Seq(1 .. Chunks)]
  BY DEF SocketTypes, StreamTypes
<1>3. CASE Connect(c)
  <2>1. /\ peer[c] = "idle" /\ peer' = [peer EXCEPT ![c] = "reading"]
        /\ backlog' = backlog \cup {c} /\ UNCHANGED <<got, reset>>
    BY <1>3 DEF Connect
  <2>2. ClosedIsWhole(O)'
    BY <1>1, <1>2, <2>1 DEF Honest, ClosedIsWhole
  <2>3. EndedIsClosed(O)'
    BY <1>1, <1>2, <2>1 DEF Honest, EndedIsClosed
  <2>4. ResetHasLeft'
    BY <1>1, <1>2, <2>1 DEF Honest, ResetHasLeft
  <2>5. ReadWasSent'
    BY <1>1, <2>1 DEF Honest, ReadWasSent
  <2> QED BY <2>2, <2>3, <2>4, <2>5 DEF Honest
<1>4. CASE Leave(c)
  <2>1. peer' = [peer EXCEPT ![c] = "left"] /\ UNCHANGED <<got, reset, backlog>>
    BY <1>4 DEF Leave, netVars
  <2>2. ClosedIsWhole(O)'
    BY <1>1, <1>2, <2>1 DEF Honest, ClosedIsWhole
  <2>3. EndedIsClosed(O)'
    BY <1>1, <1>2, <2>1 DEF Honest, EndedIsClosed
  <2>4. ResetHasLeft'
    BY <1>1, <1>2, <2>1 DEF Honest, ResetHasLeft
  <2>5. ReadWasSent'
    BY <1>1, <2>1 DEF Honest, ReadWasSent
  <2> QED BY <2>2, <2>3, <2>4, <2>5 DEF Honest
<1>5. CASE Read(c)
  <2>1. /\ peer[c] = "reading" /\ got[c] < Len(stream[c])
        /\ got' = [got EXCEPT ![c] = got[c] + 1]
        /\ UNCHANGED <<peer, reset, backlog>>
    BY <1>5 DEF Read, netVars
  <2>2. ClosedIsWhole(O)'
    BY <1>1, <1>2, <2>1 DEF Honest, ClosedIsWhole
  <2>3. EndedIsClosed(O)'
    BY <1>1, <1>2, <2>1 DEF Honest, EndedIsClosed
  <2>4. ResetHasLeft'
    BY <1>1, <1>2, <2>1 DEF Honest, ResetHasLeft
  <2>5. ReadWasSent'
    <3>1. Len(stream[c]) \in Nat
      BY <1>2
    <3>2. got'[c] <= Len(stream[c])
      BY <1>2, <2>1, <3>1
    <3> QED BY <1>1, <1>2, <2>1, <3>2 DEF Honest, ReadWasSent
  <2> QED BY <2>2, <2>3, <2>4, <2>5 DEF Honest
<1>6. CASE ReadEnd(c, c \in O)
  <2>1. /\ peer[c] = "reading" /\ got[c] = Len(stream[c])
        /\ c \notin backlog /\ c \notin O
        /\ peer' = [peer EXCEPT ![c] = "ended"]
        /\ UNCHANGED <<got, reset, backlog>>
    BY <1>6 DEF ReadEnd, netVars
  <2>2. ClosedIsWhole(O)'
    BY <1>1, <1>2, <2>1 DEF Honest, ClosedIsWhole
  <2>3. EndedIsClosed(O)'
    BY <1>1, <1>2, <2>1 DEF Honest, EndedIsClosed
  <2>4. ResetHasLeft'
    BY <1>1, <1>2, <2>1 DEF Honest, ResetHasLeft
  <2>5. ReadWasSent'
    BY <1>1, <2>1 DEF Honest, ReadWasSent
  <2> QED BY <2>2, <2>3, <2>4, <2>5 DEF Honest
<1>7. CASE ResetArrives(c, c \in O)
  <2>1. /\ peer[c] = "left" /\ reset' = reset \cup {c}
        /\ UNCHANGED <<got, peer, backlog>>
    BY <1>7 DEF ResetArrives, clientVars
  <2>2. ClosedIsWhole(O)'
    BY <1>1, <1>2, <2>1 DEF Honest, ClosedIsWhole
  <2>3. EndedIsClosed(O)'
    BY <1>1, <1>2, <2>1 DEF Honest, EndedIsClosed
  <2>4. ResetHasLeft'
    BY <1>1, <1>2, <2>1 DEF Honest, ResetHasLeft
  <2>5. ReadWasSent'
    BY <1>1, <2>1 DEF Honest, ReadWasSent
  <2> QED BY <2>2, <2>3, <2>4, <2>5 DEF Honest
<1> QED BY <1>3, <1>4, <1>5, <1>6, <1>7 DEF ClientStep, Delivery

\* So end-of-file means the whole payload unless the connection was given up.
LEMMA HonestEof == ASSUME NEW O, Honest(O) PROVE EofMeansComplete
BY DEF Honest, ClosedIsWhole, EndedIsClosed, EofMeansComplete

-----------------------------------------------------------------------------
(* Every step is a step of Transfer.                                        *)

\* The beginnings of streams that are in order are the first chunk numbers.
LEMMA ReadIsPrefix ==
  ASSUME NEW s \in [Conns -> Seq(1 .. Chunks)], NEW g \in [Conns -> Nat],
         \A c \in Conns : \A k \in 1 .. Len(s[c]) : s[c][k] = k,
         \A c \in Conns : g[c] <= Len(s[c])
  PROVE  /\ [c \in Conns |-> SubSeq(s[c], 1, g[c])] = [c \in Conns |-> [k \in 1 .. g[c] |-> k]]
         /\ \A c \in Conns : Len(s[c]) <= Chunks
         /\ \A c \in Conns : Len(SubSeq(s[c], 1, g[c])) = g[c]
<1>1. ASSUME NEW c \in Conns
      PROVE  /\ SubSeq(s[c], 1, g[c]) = [k \in 1 .. g[c] |-> k]
             /\ Len(s[c]) <= Chunks
             /\ Len(SubSeq(s[c], 1, g[c])) = g[c]
  <2>1. /\ s[c] \in Seq(1 .. Chunks) /\ Len(s[c]) \in Nat
        /\ g[c] \in Nat /\ g[c] <= Len(s[c])
    OBVIOUS
  <2>2. \A k \in 1 .. Len(s[c]) : s[c][k] = k
    OBVIOUS
  <2>3. Len(s[c]) <= Chunks
    <3>1. CASE Len(s[c]) = 0 BY <3>1
    <3>2. CASE Len(s[c]) # 0
      <4>1. Len(s[c]) \in 1 .. Len(s[c])
        BY <2>1, <3>2
      <4>2. s[c][Len(s[c])] \in 1 .. Chunks
        BY <2>1, <4>1, ElementOfSeq
      <4> QED BY <2>2, <4>1, <4>2
    <3> QED BY <3>1, <3>2
  <2>4. SubSeq(s[c], 1, g[c]) = [k \in 1 .. g[c] |-> s[c][k]]
    BY <2>1
  <2>5. \A k \in 1 .. g[c] : s[c][k] = k
    BY <2>1, <2>2
  <2>6. SubSeq(s[c], 1, g[c]) = [k \in 1 .. g[c] |-> k]
    BY <2>4, <2>5
  <2>7. Len(SubSeq(s[c], 1, g[c])) = g[c]
    BY <2>1, SubSeqProperties
  <2> QED BY <2>3, <2>6, <2>7
<1> QED BY <1>1

\* What the clients have read, before and after a step.
LEMMA ReadBefore ==
  ASSUME SocketTypes, InOrder, ReadWasSent
  PROVE  /\ absReceived = [c \in Conns |-> [k \in 1 .. got[c] |-> k]]
         /\ \A c \in Conns : Len(stream[c]) <= Chunks /\ Len(absReceived[c]) = got[c]
<1>1. stream \in [Conns -> Seq(1 .. Chunks)] /\ got \in [Conns -> Nat]
  BY DEF SocketTypes, StreamTypes
<1>2. /\ [c \in Conns |-> SubSeq(stream[c], 1, got[c])] = [c \in Conns |-> [k \in 1 .. got[c] |-> k]]
      /\ \A c \in Conns : Len(stream[c]) <= Chunks
      /\ \A c \in Conns : Len(SubSeq(stream[c], 1, got[c])) = got[c]
  BY <1>1, ReadIsPrefix DEF InOrder, ReadWasSent
<1> QED BY <1>2 DEF absReceived

\* The same in the next state.
LEMMA ReadAfter ==
  ASSUME SocketTypes', InOrder', ReadWasSent'
  PROVE  absReceived' = [c \in Conns |-> [k \in 1 .. got'[c] |-> k]]
<1>1. stream' \in [Conns -> Seq(1 .. Chunks)] /\ got' \in [Conns -> Nat]
  BY DEF SocketTypes, StreamTypes
<1>2. [c \in Conns |-> SubSeq(stream'[c], 1, got'[c])] = [c \in Conns |-> [k \in 1 .. got'[c] |-> k]]
  BY <1>1, ReadIsPrefix DEF InOrder, ReadWasSent
<1> QED BY <1>2 DEF absReceived

\* One more chunk read is one more chunk of the abstract stream.
LEMMA OneMore ==
  ASSUME NEW g \in Nat
  PROVE  Append([k \in 1 .. g |-> k], g + 1) = [k \in 1 .. g + 1 |-> k]
<1> DEFINE s == [k \in 1 .. g |-> k]
<1>1. s \in Seq(Nat) /\ Len(s) = g
  <2>1. s \in [1 .. g -> Nat] OBVIOUS
  <2>2. s \in Seq(Nat) BY <2>1, SeqDef
  <2> QED BY <2>2, LenProperties
<1>2. Append(s, g + 1) \in Seq(Nat) /\ Len(Append(s, g + 1)) = g + 1
      /\ \A k \in 1 .. g : Append(s, g + 1)[k] = s[k]
      /\ Append(s, g + 1)[g + 1] = g + 1
  BY <1>1, AppendProperties
<1>3. [k \in 1 .. g + 1 |-> k] \in Seq(Nat) /\ Len([k \in 1 .. g + 1 |-> k]) = g + 1
  <2>1. [k \in 1 .. g + 1 |-> k] \in [1 .. g + 1 -> Nat] OBVIOUS
  <2>2. [k \in 1 .. g + 1 |-> k] \in Seq(Nat) BY <2>1, SeqDef
  <2> QED BY <2>2, LenProperties
<1>4. \A k \in 1 .. g + 1 : Append(s, g + 1)[k] = k
  <2> SUFFICES ASSUME NEW k \in 1 .. g + 1 PROVE Append(s, g + 1)[k] = k
    OBVIOUS
  <2>1. CASE k \in 1 .. g BY <1>2, <2>1
  <2>2. CASE k = g + 1 BY <1>2, <2>2
  <2> QED BY <2>1, <2>2
<1> QED BY <1>2, <1>3, <1>4, SeqEqual

\* A step that leaves the clients alone gives connections up, at most.
LEMMA ServerStepMaps ==
  ASSUME SocketTypes, SocketTypes', InOrder, InOrder', ReadWasSent, ReadWasSent',
         UNCHANGED <<got, peer>>, dropped \subseteq dropped'
  PROVE  T!Break
<1>1. absPhase' = absPhase
  BY DEF absPhase
<1>2. absReceived' = absReceived
  BY ReadBefore, ReadAfter
<1>3. dropped' \in SUBSET Conns
  BY DEF SocketTypes, FaultTypes
<1>4. dropped' = dropped \cup dropped'
  OBVIOUS
<1> QED BY <1>1, <1>2, <1>3, <1>4 DEF T!Break

\* A client's step is the abstract step of the same name; the end of a stream
\* is a complete one, or a cut one of a connection that was given up.
LEMMA ClientStepMaps ==
  ASSUME SocketTypes, SocketTypes', InOrder, InOrder', ReadWasSent, ReadWasSent',
         EofMeansComplete', NEW O, NEW c \in Conns, ClientStep(c, O)
  PROVE  [T!Next]_T!vars
<1>1. UNCHANGED <<stream, dropped>>
  BY DEF ClientStep, Connect, Leave, Delivery, Read, ReadEnd, ResetArrives
<1>2. /\ peer \in [Conns -> {"idle", "reading", "ended", "left"}]
      /\ got \in [Conns -> Nat] /\ Chunks \in Nat
      /\ stream \in [Conns -> Seq(1 .. Chunks)]
  BY DEF SocketTypes, StreamTypes
<1>3. got' = got => absReceived' = absReceived
  BY <1>1 DEF absReceived
<1>4. CASE Connect(c)
  <2>1. /\ peer[c] = "idle" /\ peer' = [peer EXCEPT ![c] = "reading"] /\ got' = got
    BY <1>4 DEF Connect
  <2>2. absPhase[c] = "idle" /\ absPhase' = [absPhase EXCEPT ![c] = "open"]
    BY <1>2, <2>1 DEF absPhase
  <2>3. T!Connect(c)
    BY <1>1, <1>3, <2>1, <2>2 DEF T!Connect
  <2> QED BY <2>3 DEF T!Next
<1>5. CASE Leave(c)
  <2>1. peer[c] = "reading" /\ peer' = [peer EXCEPT ![c] = "left"] /\ got' = got
    BY <1>5 DEF Leave
  <2>2. absPhase[c] = "open" /\ absPhase' = [absPhase EXCEPT ![c] = "left"]
    BY <1>2, <2>1 DEF absPhase
  <2>3. T!Leave(c)
    BY <1>1, <1>3, <2>1, <2>2 DEF T!Leave
  <2> QED BY <2>3 DEF T!Next
<1>6. CASE Read(c)
  <2>1. /\ peer[c] = "reading" /\ got[c] < Len(stream[c]) /\ peer' = peer
        /\ got' = [got EXCEPT ![c] = got[c] + 1]
    BY <1>6 DEF Read
  <2>2. absPhase[c] = "open" /\ absPhase' = absPhase
    <3>1. \A d \in Conns : peer[d] = "ended" => got'[d] = got[d]
      BY <1>2, <2>1
    <3> QED BY <1>2, <2>1, <3>1 DEF absPhase
  <2>3. Len(absReceived[c]) = got[c] /\ got[c] < Chunks
    <3>1. Len(stream[c]) \in Nat /\ Len(stream[c]) <= Chunks
          /\ Len(absReceived[c]) = got[c]
      BY <1>2, ReadBefore
    <3> QED BY <1>2, <2>1, <3>1
  <2>4. absReceived' = [absReceived EXCEPT ![c] = Append(absReceived[c], Len(absReceived[c]) + 1)]
    <3>1. absReceived = [d \in Conns |-> [k \in 1 .. got[d] |-> k]]
          /\ absReceived' = [d \in Conns |-> [k \in 1 .. got'[d] |-> k]]
      BY ReadBefore, ReadAfter
    <3>2. Append(absReceived[c], got[c] + 1) = [k \in 1 .. got[c] + 1 |-> k]
      BY <1>2, <3>1, OneMore
    <3> QED BY <1>2, <2>1, <2>3, <3>1, <3>2
  <2>5. T!Deliver(c)
    BY <1>1, <2>2, <2>3, <2>4 DEF T!Deliver
  <2> QED BY <2>5 DEF T!Next
<1>7. CASE ReadEnd(c, c \in O)
  <2>1. /\ peer[c] = "reading" /\ peer' = [peer EXCEPT ![c] = "ended"] /\ got' = got
    BY <1>7 DEF ReadEnd
  <2>2. absPhase[c] = "open"
        /\ absPhase' = [absPhase EXCEPT ![c] = IF got[c] = Chunks THEN "complete" ELSE "cut"]
    BY <1>2, <2>1 DEF absPhase
  <2>3. CASE got[c] = Chunks
    <3>1. Len(absReceived[c]) = Chunks
      BY <2>3, ReadBefore
    <3>2. T!Complete(c)
      BY <1>1, <1>3, <2>1, <2>2, <2>3, <3>1 DEF T!Complete
    <3> QED BY <3>2 DEF T!Next
  <2>4. CASE got[c] # Chunks
    <3>1. c \in dropped
      BY <1>1, <1>2, <2>1, <2>4 DEF EofMeansComplete
    <3>2. T!Cut(c)
      BY <1>1, <1>3, <2>1, <2>2, <2>4, <3>1 DEF T!Cut
    <3> QED BY <3>2 DEF T!Next
  <2> QED BY <2>3, <2>4
<1>8. CASE ResetArrives(c, c \in O)
  <2>1. got' = got /\ peer' = peer
    BY <1>8 DEF ResetArrives, clientVars
  <2>2. absPhase' = absPhase
    BY <2>1 DEF absPhase
  <2> QED BY <1>1, <1>3, <2>1, <2>2 DEF T!vars
<1> QED BY <1>4, <1>5, <1>6, <1>7, <1>8 DEF ClientStep, Delivery

\* A step that changes nothing of the connections is a stutter.
LEMMA SameForClients ==
  ASSUME UNCHANGED <<peer, got, stream, dropped>> PROVE UNCHANGED T!vars
<1>1. absPhase' = absPhase /\ absReceived' = absReceived
  BY DEF absPhase, absReceived
<1> QED BY <1>1 DEF T!vars

\* The servers start as Transfer does.
LEMMA InitMaps == SocketInit => T!Init
<1> SUFFICES ASSUME SocketInit PROVE T!Init
  OBVIOUS
<1>1. absPhase = [c \in Conns |-> "idle"]
  BY DEF SocketInit, absPhase
<1>2. absReceived = [c \in Conns |-> <<>>]
  <2>1. SubSeq(<<>>, 1, 0) = <<>>
    OBVIOUS
  <2> QED BY <2>1 DEF SocketInit, absReceived
<1> QED BY <1>1, <1>2 DEF SocketInit, T!Init

\* And nobody has been sent anything.
LEMMA InitHonest == SocketInit => Honest({})
<1> SUFFICES ASSUME SocketInit PROVE Honest({})
  OBVIOUS
<1>1. ClosedIsWhole({}) /\ EndedIsClosed({}) /\ ResetHasLeft
  BY DEF SocketInit, ClosedIsWhole, EndedIsClosed, ResetHasLeft
<1>2. ReadWasSent
  BY DEF SocketInit, ReadWasSent
<1> QED BY <1>1, <1>2 DEF Honest
=============================================================================
