--------------------------- MODULE PoolStartupProofs ---------------------------
(***************************************************************************)
(* Proofs about PoolStartup and the peer connection in it.  The parser's   *)
(* part of the invariant (Framing) says where in the stream each message   *)
(* begins: the stream is what is in the buffer and on the wire, the        *)
(* current message begins at its front (or a header before it, once the    *)
(* header is read), and every unit from there on is in its place.  It      *)
(* holds as long as no message was corrupt.                                *)
(***************************************************************************)
EXTENDS PoolStartup, SequenceTheorems, TLAPS

-------------------------------------------------------------------------------
(* The peer connection *)

\* Without an open connection there is nothing of one.
NothingUnlessOpen ==
  link # "open" =>
    sent = <<>> /\ wire = <<>> /\ buff = <<>> /\ head = <<>> /\ handled = <<>> /\ ~verack

Size(m) == Header + PayloadLen[sent[m].command]
Current == Len(handled) + 1    \* the message being read
Stream  == buff \o wire        \* what the parser has not used yet

\* off[m] is where message m starts in the stream, negative if part of it is used.
Framed(off) ==
  /\ off \in [1 .. Len(sent) + 1 -> Int]
  /\ \A m \in 1 .. Len(sent) : off[m + 1] = off[m] + Size(m)
  /\ \A m, n \in 1 .. Len(sent) + 1 : m <= n => off[m] <= off[n]
  /\ off[Len(sent) + 1] = Len(Stream)
  /\ Current \in 1 .. Len(sent) + 1
  /\ off[Current] = IF head = <<>> THEN 0 ELSE -Header
  /\ \A m \in Current .. Len(sent) : \A i \in 1 .. Size(m) :
       off[m] + i >= 1 => Stream[off[m] + i] = <<m, i>>

\* The header that was read is that of the current message.
HeadIsCurrent ==
  head # <<>> => /\ Current <= Len(sent)
                 /\ head = Units(Current, Header)
                 /\ need = PayloadLen[sent[Current].command]

InOrder == \A j \in DOMAIN handled : handled[j] = <<j, j>>

Framing == AllSound => HeadIsCurrent /\ InOrder /\ \E off : Framed(off)

PeerInv == PeerTypeOK /\ NothingUnlessOpen /\ VerackIsCurrent /\ Framing

Message == [command : Commands, sound : BOOLEAN]

\* PeerTypeOK, piece by piece.
LEMMA Types ==
  ASSUME PeerTypeOK
  PROVE  /\ sent \in Seq(Message) /\ Len(sent) <= MaxSent
         /\ wire \in Seq(Unit) /\ buff \in Seq(Unit)
         /\ head \in Seq(Unit) /\ Len(head) \in {0, 3}
         /\ need \in Nat
         /\ handled \in Seq((DOMAIN sent) \X (DOMAIN sent))
         /\ written \in Seq(Commands \cup {"pong"})
BY DEF PeerTypeOK, Header, Message

LEMMA Payloads ==
  ASSUME PeerTypeOK, NEW m \in 1 .. Len(sent)
  PROVE  /\ PayloadLen[sent[m].command] \in Nat
         /\ Size(m) \in Nat /\ Size(m) >= 3
<1>1. sent[m] \in Message
  BY Types, ElementOfSeq
<1>2. sent[m].command \in Commands
  BY <1>1 DEF Message
<1>3. PayloadLen[sent[m].command] \in Nat
  BY <1>2, PeerAssumption
<1>. QED
  BY <1>3 DEF Size, Header

LEMMA EmptyTypes ==
  /\ <<>> \in Seq(Message) /\ Len(<<>>) = 0
  /\ <<>> \in Seq(Commands \cup {"pong"})
  /\ \A S : <<>> \in Seq(S)
BY EmptySeq

\* Nothing was sent, nothing was received.
LEMMA StartFramed ==
  ASSUME sent = <<>>, wire = <<>>, buff = <<>>, head = <<>>, handled = <<>>
  PROVE  Framing
<1>. DEFINE off == [m \in {1} |-> 0]
<1>1. Stream = <<>>
  BY DEF Stream
<1>2. Framed(off)
  BY <1>1 DEF Framed, Current
<1>. QED
  BY <1>2 DEF Framing, HeadIsCurrent, InOrder

LEMMA FreshFramed ==
  ASSUME Fresh
  PROVE  Framing'
<1>. DEFINE off == [m \in {1} |-> 0]
<1>1. (sent = <<>> /\ wire = <<>> /\ buff = <<>> /\ head = <<>> /\ handled = <<>>)'
  BY DEF Fresh
<1>2. Stream' = <<>>
  BY <1>1 DEF Stream
<1>3. Framed(off)'
  BY <1>1, <1>2 DEF Framed, Current
<1>. QED
  BY <1>1, <1>3 DEF Framing, HeadIsCurrent, InOrder

Flags ==
  /\ alive \in BOOLEAN /\ verack \in BOOLEAN /\ faults \in 0 .. MaxFaults
  /\ link \in {"none", "connecting", "open", "abandoned"}

LEMMA TypesNext ==
  ASSUME Flags', sent' \in Seq(Message), Len(sent') <= MaxSent,
         wire' \in Seq(Unit'), buff' \in Seq(Unit'), head' \in Seq(Unit'),
         Len(head') \in {0, 3}, need' \in Nat,
         handled' \in Seq(((DOMAIN sent) \X (DOMAIN sent))'),
         written' \in Seq(Commands \cup {"pong"})
  PROVE  PeerTypeOK'
<1>1. ({wire, buff, head} \subseteq Seq(Unit))'
  OBVIOUS
<1>2. sent' \in Seq([command : Commands, sound : BOOLEAN])
  BY DEF Message
<1>. QED
  BY <1>1, <1>2, Zenon DEF PeerTypeOK, Flags, Header

LEMMA ClosedInv ==
  ASSUME PeerInv, Closed
  PROVE  PeerInv'
<1>1. (sent = <<>> /\ wire = <<>> /\ buff = <<>> /\ head = <<>> /\ handled = <<>>)'
      /\ written' = <<>> /\ need' = 0
  BY DEF Closed, Fresh
<1>2. Len(sent') = 0 /\ Len(head') = 0
  BY <1>1, EmptyTypes
<1>3. alive' = alive /\ verack' = FALSE /\ faults' = faults /\ link' \in {"connecting", "abandoned"}
  BY DEF Closed
<1>4. Flags'
  BY <1>3 DEF PeerInv, PeerTypeOK, Flags
<1>5. MaxSent \in Nat
  BY PeerAssumption
<1>6. Len(sent') <= MaxSent
  BY <1>2, <1>5
<1>7. PeerTypeOK'
  BY <1>1, <1>2, <1>4, <1>6, EmptyTypes, TypesNext
<1>8. Framing'
  BY FreshFramed DEF Closed
<1>. QED
  BY <1>1, <1>3, <1>7, <1>8 DEF PeerInv, NothingUnlessOpen, VerackIsCurrent

\* The parser's variables and the stream stay: whatever changes only the others.
LEMMA FramingKept ==
  ASSUME Framing, UNCHANGED <<sent, wire, parser, handled>>
  PROVE  Framing'
<1>1. UNCHANGED <<sent, wire, buff, head, need, handled>>
  BY DEF parser
<1>2. Stream' = Stream /\ Current' = Current /\ AllSound' = AllSound
      /\ \A m : Size(m)' = Size(m)
  BY <1>1 DEF Stream, Current, AllSound, Size
<1>3. HeadIsCurrent' = HeadIsCurrent /\ InOrder' = InOrder
  BY <1>1, <1>2 DEF HeadIsCurrent, InOrder
<1>4. ASSUME NEW off, Framed(off) PROVE Framed(off)'
  BY <1>1, <1>2, <1>4 DEF Framed
<1>. QED
  BY <1>2, <1>3, <1>4 DEF Framing

LEMMA OpenedInv ==
  ASSUME PeerInv, Opened
  PROVE  PeerInv'
<1>1. UNCHANGED <<alive, verack, sent, wire, parser, handled, faults>> /\ link' = "open"
      /\ written' = <<"version">>
  BY DEF Opened
<1>2. Flags'
  BY <1>1 DEF PeerInv, PeerTypeOK, Flags
<1>3. written' \in Seq(Commands \cup {"pong"})
  BY <1>1 DEF Commands
<1>4. PeerTypeOK'
  BY <1>1, <1>2, <1>3, Types, TypesNext DEF PeerInv, Unit, parser
<1>5. Framing'
  BY <1>1, FramingKept DEF PeerInv
<1>. QED
  BY <1>1, <1>4, <1>5 DEF PeerInv, NothingUnlessOpen, VerackIsCurrent

LEMMA RefusedInv ==
  ASSUME PeerInv, Refused
  PROVE  PeerInv'
<1>1. UNCHANGED <<alive, verack, sent, wire, parser, handled, written, faults>>
      /\ link = "connecting" /\ link' = "abandoned"
  BY DEF Refused
<1>2. Flags'
  BY <1>1 DEF PeerInv, PeerTypeOK, Flags
<1>3. PeerTypeOK'
  BY <1>1, <1>2, Types, TypesNext DEF PeerInv, Unit, parser
<1>4. Framing'
  BY <1>1, FramingKept DEF PeerInv
<1>. QED
  BY <1>1, <1>3, <1>4 DEF PeerInv, NothingUnlessOpen, VerackIsCurrent, parser

\* b \o w without its first n elements, which are b's.
Without(b, w, n, rest) ==
  /\ Len(rest \o w) = Len(b \o w) - n
  /\ \A i \in 1 .. Len(rest \o w) : (rest \o w)[i] = (b \o w)[i + n]

LEMMA DropStream ==
  ASSUME NEW S, NEW b \in Seq(S), NEW w \in Seq(S), NEW n \in Nat, n <= Len(b)
  PROVE  Without(b, w, n, SubSeq(b, n + 1, Len(b)))
<1>. DEFINE rest == SubSeq(b, n + 1, Len(b))
<1>1. Len(b) \in Nat /\ Len(w) \in Nat
  BY LenProperties
<1>2. \A i \in n + 1 .. Len(b) : b[i] \in S
  BY <1>1, ElementOfSeq
<1>3. rest \in Seq(S) /\ Len(rest) = Len(b) - n /\ \A i \in 1 .. Len(b) - n : rest[i] = b[i + n]
  <2>1. n + 1 \in Int /\ Len(b) \in Int
    BY <1>1
  <2>2. /\ rest \in Seq(S)
        /\ Len(rest) = IF n + 1 <= Len(b) THEN Len(b) - (n + 1) + 1 ELSE 0
        /\ \A i \in 1 .. Len(b) - (n + 1) + 1 : rest[i] = b[(n + 1) + i - 1]
    BY <1>2, <2>1, SubSeqProperties
  <2>. QED
    BY <1>1, <2>2
<1>. HIDE DEF rest
<1>4. /\ Len(b \o w) = Len(b) + Len(w)
      /\ \A i \in 1 .. Len(b) + Len(w) :
           (b \o w)[i] = IF i <= Len(b) THEN b[i] ELSE w[i - Len(b)]
  BY ConcatProperties
<1>5. /\ Len(rest \o w) = Len(rest) + Len(w)
      /\ \A i \in 1 .. Len(rest) + Len(w) :
           (rest \o w)[i] = IF i <= Len(rest) THEN rest[i] ELSE w[i - Len(rest)]
  BY <1>3, ConcatProperties
<1>6. ASSUME NEW i \in 1 .. Len(rest \o w) PROVE (rest \o w)[i] = (b \o w)[i + n]
  <2>1. i + n \in 1 .. Len(b) + Len(w) /\ i \in 1 .. Len(rest) + Len(w)
    BY <1>1, <1>3, <1>5
  <2>2. CASE i <= Len(rest)
    BY <1>1, <1>3, <1>4, <1>5, <2>1, <2>2
  <2>3. CASE i > Len(rest)
    BY <1>1, <1>3, <1>4, <1>5, <2>1, <2>3
  <2>. QED
    BY <1>1, <1>3, <2>1, <2>2, <2>3
<1>7. Len(rest \o w) = Len(b \o w) - n
  <2>1. /\ Len(rest) = Len(b) - n
        /\ Len(b \o w) = Len(b) + Len(w)
        /\ Len(rest \o w) = Len(rest) + Len(w)
    BY <1>3, <1>4, <1>5, Zenon
  <2>. QED
    BY <1>1, <2>1
<1>. QED
  BY <1>6, <1>7, Zenon DEF Without, rest

LEMMA FrontOfStream ==
  ASSUME NEW S, NEW b \in Seq(S), NEW w \in Seq(S)
  PROVE  /\ \A i \in 1 .. Len(b) : (b \o w)[i] = b[i]
         /\ Len(b \o w) >= Len(b) /\ Len(b \o w) \in Nat
BY ConcatProperties, LenProperties

\* The parser uses the first k units of the buffer.
LEMMA StreamDropped ==
  ASSUME PeerTypeOK, NEW k \in Nat, k <= Len(buff),
         buff' = SubSeq(buff, k + 1, Len(buff)), wire' = wire
  PROVE  /\ Len(Stream') = Len(Stream) - k /\ Len(Stream) \in Nat
         /\ \A i \in 1 .. Len(Stream') : Stream'[i] = Stream[i + k]
<1>1. buff \in Seq(Unit) /\ wire \in Seq(Unit)
  BY Types
<1>2. \A b, w \in Seq(Unit), n \in Nat : n <= Len(b) => Without(b, w, n, SubSeq(b, n + 1, Len(b)))
  BY DropStream
<1>3. Without(buff, wire, k, SubSeq(buff, k + 1, Len(buff)))
  BY <1>1, <1>2, Zenon
<1>4. Without(buff, wire, k, buff')
  BY <1>3, Zenon
<1>5. Len(buff \o wire) \in Nat
  BY <1>1, FrontOfStream
<1>. QED
  BY <1>4, <1>5, Zenon DEF Without, Stream

LEMMA Associative ==
  \A S : \A r, s, t \in Seq(S) : (r \o s) \o t = r \o (s \o t)
BY ConcatAssociative

\* A chunk moves from the wire to the buffer.
LEMMA MoveStream ==
  ASSUME NEW S, NEW w \in Seq(S), NEW n \in 1 .. Len(w)
  PROVE  /\ SubSeq(w, n + 1, Len(w)) \in Seq(S)
         /\ \A b \in Seq(S) :
              /\ b \o SubSeq(w, 1, n) \in Seq(S)
              /\ (b \o SubSeq(w, 1, n)) \o SubSeq(w, n + 1, Len(w)) = b \o w
<1>1. Len(w) \in Nat /\ \A i \in 1 .. Len(w) : w[i] \in S
  BY LenProperties, ElementOfSeq
<1>2. SubSeq(w, 1, n) \in Seq(S)
  BY <1>1, SubSeqProperties
<1>3. SubSeq(w, n + 1, Len(w)) \in Seq(S)
  BY <1>1, SubSeqProperties
<1>4. SubSeq(w, 1, n) \o SubSeq(w, n + 1, Len(w)) = w
  <2>1. 1 \in 1 .. Len(w) + 1 /\ n \in 1 - 1 .. Len(w) /\ Len(w) \in n .. Len(w)
    BY <1>1
  <2>2. SubSeq(w, 1, n) \o SubSeq(w, n + 1, Len(w)) = SubSeq(w, 1, Len(w))
    BY <2>1, ConcatAdjacentSubSeq, SMTT(30)
  <2>. QED
    BY <2>2, SubSeqFull
<1>5. \A r, s, t \in Seq(S) : (r \o s) \o t = r \o (s \o t)
  BY Associative, SMTT(30)
<1>6. \A b \in Seq(S) : b \o SubSeq(w, 1, n) \in Seq(S)
  BY <1>2, ConcatProperties
<1>7. ASSUME NEW b \in Seq(S)
      PROVE  (b \o SubSeq(w, 1, n)) \o SubSeq(w, n + 1, Len(w)) = b \o w
  <2>1. (b \o SubSeq(w, 1, n)) \o SubSeq(w, n + 1, Len(w))
          = b \o (SubSeq(w, 1, n) \o SubSeq(w, n + 1, Len(w)))
    BY <1>2, <1>3, <1>5, Zenon
  <2>. QED
    BY <1>4, <2>1, Zenon
<1>. QED
  BY <1>3, <1>6, <1>7, Zenon

LEMMA DataInv ==
  ASSUME PeerInv, NEW n \in 1 .. Len(wire), Data(n)
  PROVE  PeerInv'
<1>1. UNCHANGED <<alive, link, verack, sent, head, need, handled, written, faults>>
      /\ link = "open"
      /\ buff' = buff \o SubSeq(wire, 1, n)
      /\ wire' = SubSeq(wire, n + 1, Len(wire))
  BY DEF Data
<1>2. PeerTypeOK /\ Unit' = Unit
  BY <1>1 DEF PeerInv, Unit
<1>3. wire \in Seq(Unit) /\ Len(wire) \in Nat
  BY <1>2, Types, LenProperties
<1>4. wire' \in Seq(Unit) /\ buff' \in Seq(Unit) /\ Stream' = Stream
  <2>1. buff \in Seq(Unit)
    BY <1>2, Types
  <2>2. /\ buff \o SubSeq(wire, 1, n) \in Seq(Unit) /\ SubSeq(wire, n + 1, Len(wire)) \in Seq(Unit)
        /\ (buff \o SubSeq(wire, 1, n)) \o SubSeq(wire, n + 1, Len(wire)) = buff \o wire
    BY <1>3, <2>1, MoveStream, Zenon
  <2>. QED
    BY <1>1, <2>2, Zenon DEF Stream
<1>5. Framing'
  <2>1. Current' = Current /\ AllSound' = AllSound /\ \A m : Size(m)' = Size(m)
    BY <1>1 DEF Current, AllSound, Size
  <2>2. HeadIsCurrent' = HeadIsCurrent /\ InOrder' = InOrder
    BY <1>1, <2>1 DEF HeadIsCurrent, InOrder
  <2>3. ASSUME NEW off, Framed(off) PROVE Framed(off)'
    BY <1>1, <1>4, <2>1, <2>3 DEF Framed
  <2>. QED
    BY <2>1, <2>2, <2>3 DEF Framing, PeerInv
<1>6. PeerTypeOK'
  <2>1. Flags'
    BY <1>1, <1>2 DEF PeerTypeOK, Flags
  <2>. QED
    BY <1>1, <1>2, <1>4, <2>1, Types, TypesNext
<1>. QED
  BY <1>1, <1>5, <1>6 DEF PeerInv, NothingUnlessOpen, VerackIsCurrent

\* k units at the front of the stream are used.
LEMMA ShiftFramed ==
  ASSUME PeerTypeOK, NEW off, Framed(off), NEW k \in Nat, sent' = sent,
         Len(Stream) \in Nat, Len(Stream') = Len(Stream) - k,
         \A i \in 1 .. Len(Stream') : Stream'[i] = Stream[i + k],
         Current' \in Current .. Len(sent) + 1,
         off[Current'] - k = (IF head' = <<>> THEN 0 ELSE -Header)
  PROVE  (\E f : Framed(f))'
<1>. DEFINE shifted == [m \in 1 .. Len(sent) + 1 |-> off[m] - k]
<1>1. /\ off \in [1 .. Len(sent) + 1 -> Int]
      /\ \A m \in 1 .. Len(sent) : off[m + 1] = off[m] + Size(m)
      /\ \A m, n \in 1 .. Len(sent) + 1 : m <= n => off[m] <= off[n]
      /\ off[Len(sent) + 1] = Len(Stream)
      /\ Current \in 1 .. Len(sent) + 1
      /\ \A m \in Current .. Len(sent) : \A i \in 1 .. Size(m) :
           off[m] + i >= 1 => Stream[off[m] + i] = <<m, i>>
  BY DEF Framed
<1>2. Len(sent) \in Nat /\ \A m \in 1 .. Len(sent) : Size(m) \in Nat
  BY Types, Payloads, LenProperties
<1>3. \A m : Size(m)' = Size(m)
  BY DEF Size
<1>4. \E f : /\ f \in [1 .. Len(sent) + 1 -> Int]
             /\ \A m \in 1 .. Len(sent) + 1 : f[m] = off[m] - k
  <2>1. shifted \in [1 .. Len(sent) + 1 -> Int]
    BY <1>1
  <2>2. \A m \in 1 .. Len(sent) + 1 : shifted[m] = off[m] - k
    OBVIOUS
  <2>. QED
    BY <2>1, <2>2
<1>5. PICK f : /\ f \in [1 .. Len(sent) + 1 -> Int]
               /\ \A m \in 1 .. Len(sent) + 1 : f[m] = off[m] - k
  BY <1>4
<1>6. \A m \in 1 .. Len(sent) + 1 : off[m] \in Int
  BY <1>1
<1>7. ASSUME NEW m \in 1 .. Len(sent) PROVE f[m + 1] = f[m] + Size(m)
  <2>1. m \in 1 .. Len(sent) + 1 /\ m + 1 \in 1 .. Len(sent) + 1 /\ Size(m) \in Nat
    BY <1>2
  <2>2. off[m] \in Int /\ off[m + 1] = off[m] + Size(m)
    BY <1>1, <1>6, <2>1
  <2>3. f[m] = off[m] - k /\ f[m + 1] = off[m + 1] - k
    BY <1>5, <2>1
  <2>. QED
    BY <2>1, <2>2, <2>3
<1>8. ASSUME NEW m \in 1 .. Len(sent) + 1, NEW n \in 1 .. Len(sent) + 1, m <= n
      PROVE  f[m] <= f[n]
  <2>1. off[m] \in Int /\ off[n] \in Int /\ off[m] <= off[n]
    BY <1>1, <1>6, <1>8
  <2>2. f[m] = off[m] - k /\ f[n] = off[n] - k
    BY <1>5
  <2>. QED
    BY <2>1, <2>2
<1>9. f[Len(sent) + 1] = Len(Stream') /\ Current' \in 1 .. Len(sent) + 1
      /\ f[Current'] = (IF head' = <<>> THEN 0 ELSE -Header)
  <2>1. Current' \in 1 .. Len(sent) + 1 /\ Len(sent) + 1 \in 1 .. Len(sent) + 1
    BY <1>1, <1>2
  <2>2. f[Current'] = off[Current'] - k /\ f[Len(sent) + 1] = off[Len(sent) + 1] - k
    BY <1>5, <2>1
  <2>. QED
    BY <1>1, <2>1, <2>2
<1>10. ASSUME NEW m \in Current' .. Len(sent), NEW i \in 1 .. Size(m), f[m] + i >= 1
       PROVE  Stream'[f[m] + i] = <<m, i>>
  <2>1. m \in Current .. Len(sent) /\ m \in 1 .. Len(sent) + 1 /\ m + 1 \in 1 .. Len(sent) + 1
        /\ m \in 1 .. Len(sent) /\ Len(sent) + 1 \in 1 .. Len(sent) + 1 /\ m + 1 <= Len(sent) + 1
    BY <1>1, <1>2, <1>9
  <2>2. off[m] \in Int /\ Size(m) \in Nat /\ off[m + 1] = off[m] + Size(m)
    BY <1>1, <1>2, <1>6, <2>1
  <2>3. off[m + 1] <= Len(Stream)
    <3>1. off[m + 1] <= off[Len(sent) + 1]
      BY <1>1, <2>1
    <3>. QED
      BY <1>1, <3>1
  <2>4. f[m] = off[m] - k
    BY <1>5, <2>1
  <2>5. f[m] + i \in 1 .. Len(Stream') /\ off[m] + i >= 1 /\ f[m] + i + k = off[m] + i
    BY <1>10, <2>2, <2>3, <2>4, SMTT(30)
  <2>6. Stream'[f[m] + i] = Stream[off[m] + i]
    BY <2>5
  <2>7. Stream[off[m] + i] = <<m, i>>
    BY <1>1, <2>1, <2>5
  <2>. QED
    BY <2>6, <2>7
<1>11. Framed(f)'
  <2>1. f \in [1 .. Len(sent') + 1 -> Int] /\ f[Len(sent') + 1] = Len(Stream')
        /\ Current' \in 1 .. Len(sent') + 1
        /\ f[Current'] = (IF head' = <<>> THEN 0 ELSE -Header)
    BY <1>5, <1>9
  <2>2. \A m \in 1 .. Len(sent') : f[m + 1] = f[m] + Size(m)'
    BY <1>3, <1>7
  <2>3. \A m, n \in 1 .. Len(sent') + 1 : m <= n => f[m] <= f[n]
    BY <1>8
  <2>4. \A m \in Current' .. Len(sent') : \A i \in 1 .. Size(m)' :
           f[m] + i >= 1 => Stream'[f[m] + i] = <<m, i>>
    BY <1>3, <1>10
  <2>. QED
    BY <2>1, <2>2, <2>3, <2>4, Zenon DEF Framed
<1>. QED
  BY <1>11

\* A complete header is that of the current message.
LEMMA HeaderAtFront ==
  ASSUME PeerTypeOK, NEW off, Framed(off), Busy, head = <<>>
  PROVE  /\ Current \in 1 .. Len(sent) /\ off[Current] = 0
         /\ \A i \in 1 .. 3 : buff[i] = <<Current, i>>
<1>1. /\ off[Len(sent) + 1] = Len(Stream)
      /\ Current \in 1 .. Len(sent) + 1
      /\ off[Current] = 0
      /\ \A m \in Current .. Len(sent) : \A i \in 1 .. Size(m) :
           off[m] + i >= 1 => Stream[off[m] + i] = <<m, i>>
  BY DEF Framed
<1>2. buff \in Seq(Unit) /\ wire \in Seq(Unit) /\ Len(sent) \in Nat
      /\ Len(buff) \in Nat /\ Len(buff) >= 3
  BY Types, LenProperties DEF Busy, Header
<1>3. Len(Stream) >= 3 /\ Len(Stream) \in Nat /\ \A i \in 1 .. Len(buff) : Stream[i] = buff[i]
  <2>1. /\ \A i \in 1 .. Len(buff) : (buff \o wire)[i] = buff[i]
        /\ Len(buff \o wire) >= Len(buff) /\ Len(buff \o wire) \in Nat
    BY <1>2, FrontOfStream
  <2>. QED
    BY <1>2, <2>1 DEF Stream
<1>4. Current \in 1 .. Len(sent)
  BY <1>1, <1>2, <1>3
<1>5. Size(Current) \in Nat /\ Size(Current) >= 3
  BY <1>4, Payloads
<1>6. ASSUME NEW i \in 1 .. 3 PROVE buff[i] = <<Current, i>>
  <2>1. i \in 1 .. Size(Current) /\ off[Current] + i >= 1 /\ Current \in Current .. Len(sent)
        /\ off[Current] + i = i /\ i \in 1 .. Len(buff)
    BY <1>1, <1>2, <1>4, <1>5
  <2>2. Stream[off[Current] + i] = <<Current, i>>
    BY <1>1, <2>1
  <2>3. Stream[i] = buff[i]
    BY <1>3, <2>1
  <2>. QED
    BY <2>1, <2>2, <2>3
<1>. QED
  BY <1>1, <1>4, <1>6

\* The announced length is a number.
LEMMA AnnouncedLength ==
  ASSUME PeerTypeOK, NEW h \in Seq(Unit), Len(h) = 3
  PROVE  Announced(h) \subseteq Nat
<1>1. h[3] \in (DOMAIN sent) \X Nat
  <2>1. h[3] \in Unit
    BY ElementOfSeq, SMTT(30)
  <2>. QED
    BY <2>1 DEF Unit
<1>2. h[3][1] \in 1 .. Len(sent)
  <2>1. DOMAIN sent = 1 .. Len(sent)
    BY Types, LenProperties
  <2>2. h[3][1] \in DOMAIN sent
    BY <1>1
  <2>. QED
    BY <2>1, <2>2, Zenon
<1>3. PayloadLen[sent[h[3][1]].command] \in Nat
  BY <1>2, Payloads
<1>4. \A c \in Commands : PayloadLen[c] \in Nat
  BY PeerAssumption
<1>. QED
  BY <1>3, <1>4 DEF Announced, LengthAndChecksum

\* The first three elements of a sequence, and what is behind n of them.
LEMMA FrontAndRest ==
  ASSUME NEW S, NEW b \in Seq(S), NEW n \in Nat, n <= Len(b)
  PROVE  /\ SubSeq(b, n + 1, Len(b)) \in Seq(S)
         /\ SubSeq(b, 1, n) \in Seq(S) /\ Len(SubSeq(b, 1, n)) = n
         /\ \A i \in 1 .. n : SubSeq(b, 1, n)[i] = b[i]
<1>1. Len(b) \in Nat /\ \A i \in 1 .. Len(b) : b[i] \in S
  BY LenProperties, ElementOfSeq
<1>2. SubSeq(b, n + 1, Len(b)) \in Seq(S)
  BY <1>1, SubSeqProperties
<1>3. /\ SubSeq(b, 1, n) \in Seq(S)
      /\ Len(SubSeq(b, 1, n)) = IF 1 <= n THEN n - 1 + 1 ELSE 0
      /\ \A i \in 1 .. n - 1 + 1 : SubSeq(b, 1, n)[i] = b[1 + i - 1]
  BY <1>1, SubSeqProperties
<1>. QED
  BY <1>2, <1>3

LEMMA ReadHeaderTypes ==
  ASSUME PeerTypeOK, ReadHeader
  PROVE  PeerTypeOK' /\ Len(head') = 3 /\ Len(buff) >= 3 /\ Len(buff) \in Nat
<1>1. /\ UNCHANGED <<alive, link, verack, sent, wire, handled, written, faults>>
      /\ head = <<>> /\ Busy
      /\ head' = SubSeq(buff, 1, 3)
      /\ buff' = SubSeq(buff, 3 + 1, Len(buff))
      /\ need' \in Announced(head')
  BY DEF ReadHeader, Header
<1>2. buff \in Seq(Unit) /\ Len(buff) \in Nat /\ Len(buff) >= 3
  BY <1>1, Types, LenProperties DEF Busy, Header
<1>3. head' \in Seq(Unit) /\ Len(head') = 3 /\ buff' \in Seq(Unit)
  BY <1>1, <1>2, FrontAndRest
<1>4. need' \in Nat
  BY <1>1, <1>3, AnnouncedLength
<1>5. Flags'
  BY <1>1 DEF PeerTypeOK, Flags
<1>6. Unit' = Unit
  BY <1>1 DEF Unit
<1>. QED
  BY <1>1, <1>2, <1>3, <1>4, <1>5, <1>6, Types, TypesNext

LEMMA ReadHeaderFramed ==
  ASSUME PeerTypeOK, Framing, ReadHeader, PeerTypeOK'
  PROVE  Framing'
<1>1. /\ UNCHANGED <<sent, wire, handled>>
      /\ head = <<>> /\ Busy
      /\ head' = SubSeq(buff, 1, 3)
      /\ buff' = SubSeq(buff, 3 + 1, Len(buff))
      /\ need' \in Announced(head')
  BY DEF ReadHeader, Header
<1>2. AllSound' = AllSound /\ InOrder' = InOrder /\ Current' = Current
  BY <1>1 DEF AllSound, InOrder, Current
<1>3. CASE ~AllSound
  BY <1>2, <1>3 DEF Framing
<1>4. CASE AllSound
  <2>1. PICK off : Framed(off)
    BY <1>4 DEF Framing
  <2>2. /\ Current \in 1 .. Len(sent) /\ off[Current] = 0
        /\ \A i \in 1 .. 3 : buff[i] = <<Current, i>>
    BY <1>1, <2>1, HeaderAtFront
  <2>3. buff \in Seq(Unit) /\ wire \in Seq(Unit) /\ Len(buff) \in Nat /\ Len(buff) >= 3
    BY <1>1, Types, LenProperties DEF Busy, Header
  <2>4. head' \in Seq(Unit) /\ Len(head') = 3 /\ \A i \in 1 .. 3 : head'[i] = <<Current, i>>
    BY <1>1, <2>2, <2>3, FrontAndRest
  <2>5. head' = Units(Current, Header)
    <3>1. head' \in [1 .. 3 -> Unit]
      BY <2>4, LenProperties
    <3>2. head' = [i \in 1 .. 3 |-> <<Current, i>>]
      BY <2>4, <3>1
    <3>. QED
      BY <3>2 DEF Units, Header
  <2>6. need' = PayloadLen[sent[Current].command]
    BY <1>1, <2>4 DEF Announced, LengthAndChecksum
  <2>7. HeadIsCurrent'
    BY <1>1, <1>2, <2>2, <2>5, <2>6 DEF HeadIsCurrent
  <2>8. wire' = wire
    BY <1>1
  <2>9. /\ Len(Stream') = Len(Stream) - 3 /\ Len(Stream) \in Nat
        /\ \A i \in 1 .. Len(Stream') : Stream'[i] = Stream[i + 3]
    BY <1>1, <2>3, <2>8, StreamDropped
  <2>10. head' # <<>>
    BY <2>4, EmptyTypes
  <2>11. Current' \in Current .. Len(sent) + 1 /\ off[Current'] - 3 = (IF head' = <<>> THEN 0 ELSE -Header)
    BY <1>2, <2>2, <2>10, Types, LenProperties DEF Header
  <2>12. (\E f : Framed(f))'
    BY <1>1, <2>1, <2>9, <2>11, ShiftFramed
  <2>. QED
    BY <1>2, <1>4, <2>7, <2>12 DEF Framing
<1>. QED
  BY <1>3, <1>4

LEMMA ReadHeaderInv ==
  ASSUME PeerInv, ReadHeader
  PROVE  PeerInv'
<1>1. PeerTypeOK'
  BY ReadHeaderTypes DEF PeerInv
<1>2. Framing'
  BY <1>1, ReadHeaderFramed DEF PeerInv
<1>3. UNCHANGED <<link, verack, handled, sent>>
  BY DEF ReadHeader
<1>4. link = "open"
  <2>1. buff # <<>>
    BY ReadHeaderTypes, EmptyTypes DEF PeerInv
  <2>. QED
    BY <2>1 DEF PeerInv, NothingUnlessOpen
<1>. QED
  BY <1>1, <1>2, <1>3, <1>4 DEF PeerInv, NothingUnlessOpen, VerackIsCurrent

LEMMA SeekMagicInv ==
  ASSUME PeerInv, SeekMagic
  PROVE  PeerInv'
<1>. DEFINE found == {i \in 1 .. 3 : buff[i][2] = Magic}
            first == CHOOSE i \in found : \A j \in found : i <= j
<1>1. /\ UNCHANGED <<link, verack, sent, wire, head, need, handled, written, faults>>
      /\ Busy /\ head = <<>> /\ buff[1][2] # 1
  BY DEF SeekMagic, Magic
<1>2. \/ found = {} /\ alive' = FALSE /\ buff' = <<>>
      \/ found # {} /\ alive' = alive /\ buff' = SubSeq(buff, first, 3)
  BY DEF SeekMagic, Header
<1>3. PeerTypeOK /\ buff \in Seq(Unit) /\ Len(buff) \in Nat /\ Len(buff) >= 3 /\ Unit' = Unit
  BY <1>1, Types, LenProperties DEF PeerInv, Busy, Header, Unit
<1>4. buff' \in Seq(Unit)
  <2>1. CASE found = {}
    BY <1>2, <2>1, EmptyTypes
  <2>2. CASE found # {}
    <3>1. \E i \in found : \A j \in found : i <= j
      <4>1. found \subseteq {1, 2, 3}
        OBVIOUS
      <4>. HIDE DEF found
      <4>2. CASE 1 \in found
        BY <4>1, <4>2
      <4>3. CASE 1 \notin found /\ 2 \in found
        BY <4>1, <4>3
      <4>4. CASE 1 \notin found /\ 2 \notin found
        <5>1. found = {3}
          BY <2>2, <4>1, <4>4, Zenon
        <5>. QED
          BY <5>1
      <4>. QED
        BY <4>2, <4>3, <4>4
    <3>2. first \in found
      BY <3>1
    <3>3. first \in 1 .. 3
      BY <3>2
    <3>. HIDE DEF first, found
    <3>4. \A i \in first .. 3 : buff[i] \in Unit
      BY <1>3, <3>3, ElementOfSeq
    <3>5. SubSeq(buff, first, 3) \in Seq(Unit)
      BY <3>3, <3>4, SubSeqProperties
    <3>. QED
      BY <1>2, <2>2, <3>5
  <2>. QED
    BY <2>1, <2>2
<1>5. PeerTypeOK'
  <2>1. Flags'
    BY <1>1, <1>2, <1>3 DEF PeerTypeOK, Flags
  <2>. QED
    BY <1>1, <1>3, <1>4, <2>1, Types, TypesNext
<1>6. Framing'
  <2>1. AllSound' = AllSound
    BY <1>1 DEF AllSound
  <2>2. ~AllSound
    <3>. SUFFICES ASSUME AllSound PROVE FALSE
      OBVIOUS
    <3>1. PICK off : Framed(off)
      BY DEF PeerInv, Framing
    <3>2. buff[1] = <<Current, 1>>
      BY <1>1, <1>3, <3>1, HeaderAtFront
    <3>. QED
      BY <1>1, <3>2
  <2>. QED
    BY <2>1, <2>2 DEF Framing
<1>7. link = "open"
  <2>1. buff # <<>>
    BY <1>3, EmptyTypes
  <2>. QED
    BY <2>1 DEF PeerInv, NothingUnlessOpen
<1>. QED
  BY <1>1, <1>5, <1>6, <1>7 DEF PeerInv, NothingUnlessOpen, VerackIsCurrent

\* The units of a header that was read are of messages that were sent.
LEMMA HeadUnits ==
  ASSUME PeerTypeOK, head # <<>>
  PROVE  Len(head) = 3 /\ \A i \in 1 .. 3 : head[i][1] \in DOMAIN sent
<1>1. head \in Seq(Unit) /\ Len(head) = 3
  BY Types, EmptySeq
<1>2. ASSUME NEW i \in 1 .. 3 PROVE head[i][1] \in DOMAIN sent
  <2>1. head[i] \in Unit
    BY <1>1, ElementOfSeq
  <2>2. head[i] \in (DOMAIN sent) \X Nat
    BY <2>1 DEF Unit
  <2>. QED
    BY <2>2
<1>. QED
  BY <1>1, <1>2

LEMMA HandleTypes ==
  ASSUME PeerTypeOK, head # <<>>, NEW c, HandleMessage(c)
  PROVE  /\ handled' \in Seq((DOMAIN sent) \X (DOMAIN sent))
         /\ handled' = Append(handled, <<head[2][1], head[3][1]>>)
         /\ Len(handled) \in Nat /\ Len(handled') = Len(handled) + 1
         /\ \A i \in 1 .. Len(handled) : handled'[i] = handled[i]
         /\ handled'[Len(handled) + 1] = <<head[2][1], head[3][1]>>
         /\ written' \in Seq(Commands \cup {"pong"})
         /\ verack' \in BOOLEAN
<1>. DEFINE pair == <<head[2][1], head[3][1]>>
            Pairs == (DOMAIN sent) \X (DOMAIN sent)
<1>1. handled' = Append(handled, pair) /\ verack' = (verack \/ c = "verack")
  BY DEF HandleMessage, Command, LengthAndChecksum
<1>2. pair \in Pairs
  BY HeadUnits
<1>3. handled \in Seq(Pairs)
  BY Types
<1>4. written' \in Seq(Commands \cup {"pong"})
  <2>1. written \in Seq(Commands \cup {"pong"}) /\ "verack" \in Commands \cup {"pong"}
        /\ "pong" \in Commands \cup {"pong"}
    BY Types DEF Commands
  <2>2. Append(written, "verack") \in Seq(Commands \cup {"pong"})
        /\ Append(written, "pong") \in Seq(Commands \cup {"pong"})
    BY <2>1, AppendProperties
  <2>3. written' = written \/ written' = Append(written, "verack") \/ written' = Append(written, "pong")
    BY DEF HandleMessage
  <2>. QED
    BY <2>1, <2>2, <2>3, Zenon
<1>. HIDE DEF pair, Pairs
<1>5. /\ Append(handled, pair) \in Seq(Pairs)
      /\ Len(Append(handled, pair)) = Len(handled) + 1
      /\ \A i \in 1 .. Len(handled) : Append(handled, pair)[i] = handled[i]
      /\ Append(handled, pair)[Len(handled) + 1] = pair
      /\ Len(handled) \in Nat
  BY <1>2, <1>3, AppendProperties, LenProperties
<1>6. verack' \in BOOLEAN
  BY <1>1, Zenon DEF PeerTypeOK
<1>. QED
  BY <1>1, <1>4, <1>5, <1>6, Zenon DEF pair, Pairs

LEMMA ReadPayloadFacts ==
  ASSUME ReadPayload
  PROVE  /\ UNCHANGED <<alive, link, sent, wire, faults>>
         /\ head # <<>> /\ Busy /\ HandleMessage(CommandOf(head))
         /\ head' = <<>> /\ buff' = SubSeq(buff, need + 1, Len(buff)) /\ need' = 0
BY DEF ReadPayload

LEMMA ReadPayloadTypes ==
  ASSUME PeerTypeOK, ReadPayload
  PROVE  PeerTypeOK'
<1>1. buff \in Seq(Unit) /\ need \in Nat /\ need <= Len(buff)
  BY ReadPayloadFacts, Types, LenProperties DEF Busy
<1>2. buff' \in Seq(Unit)
  BY <1>1, ReadPayloadFacts, FrontAndRest
<1>3. Flags'
  <2>1. UNCHANGED <<alive, link, faults>> /\ verack' \in BOOLEAN
    BY ReadPayloadFacts, HandleTypes
  <2>. QED
    BY <2>1, Zenon DEF PeerTypeOK, Flags
<1>4. Unit' = Unit /\ sent' = sent /\ wire' = wire
  BY ReadPayloadFacts DEF Unit
<1>5. head' = <<>> /\ need' = 0 /\ Len(head') = 0
  BY ReadPayloadFacts, EmptyTypes
<1>6. handled' \in Seq(((DOMAIN sent) \X (DOMAIN sent))') /\ written' \in Seq(Commands \cup {"pong"})
  BY <1>4, ReadPayloadFacts, HandleTypes
<1>. QED
  BY <1>2, <1>3, <1>4, <1>5, <1>6, Types, EmptyTypes, TypesNext

LEMMA ReadPayloadFramed ==
  ASSUME PeerTypeOK, Framing, ReadPayload
  PROVE  Framing'
<1>1. AllSound' = AllSound
  BY ReadPayloadFacts DEF AllSound
<1>2. CASE ~AllSound
  BY <1>1, <1>2 DEF Framing
<1>3. CASE AllSound
  <2>1. PICK off : Framed(off)
    BY <1>3 DEF Framing
  <2>2. InOrder /\ Current <= Len(sent) /\ head = Units(Current, Header)
        /\ need = PayloadLen[sent[Current].command]
    BY <1>3, ReadPayloadFacts DEF Framing, HeadIsCurrent
  <2>3. head[2][1] = Current /\ head[3][1] = Current
    BY <2>2 DEF Units, Header
  <2>4. /\ Len(handled) \in Nat /\ Len(handled') = Len(handled) + 1
        /\ \A i \in 1 .. Len(handled) : handled'[i] = handled[i]
        /\ handled'[Len(handled) + 1] = <<Current, Current>>
        /\ handled' \in Seq((DOMAIN sent) \X (DOMAIN sent))
    BY <2>3, ReadPayloadFacts, HandleTypes
  <2>5. DOMAIN handled' = 1 .. Len(handled) + 1 /\ DOMAIN handled = 1 .. Len(handled)
    BY <2>4, Types, LenProperties
  <2>6. InOrder'
    <3>1. \A j \in 1 .. Len(handled) : handled'[j] = <<j, j>>
      BY <2>2, <2>4, <2>5 DEF InOrder
    <3>2. \A j \in 1 .. Len(handled) + 1 : handled'[j] = <<j, j>>
      BY <2>4, <3>1 DEF Current
    <3>. QED
      BY <2>5, <3>2 DEF InOrder
  <2>7. Current' = Current + 1 /\ Current \in Nat /\ Len(sent) \in Nat /\ Current \in 1 .. Len(sent)
    BY <2>2, <2>4, Types, LenProperties DEF Current
  <2>8. need \in Nat /\ Size(Current) = 3 + need /\ off[Current + 1] = need
    <3>1. off[Current] = -3 /\ off[Current + 1] = off[Current] + Size(Current)
      BY <2>1, <2>7, ReadPayloadFacts DEF Framed, Header
    <3>2. need \in Nat /\ Size(Current) = 3 + need
      BY <2>2, Types DEF Size, Header
    <3>. QED
      BY <3>1, <3>2
  <2>9. buff \in Seq(Unit) /\ wire \in Seq(Unit) /\ need <= Len(buff)
    BY ReadPayloadFacts, Types, LenProperties DEF Busy
  <2>10. buff' = SubSeq(buff, need + 1, Len(buff)) /\ wire' = wire /\ sent' = sent /\ head' = <<>>
    BY ReadPayloadFacts
  <2>12. /\ Len(Stream') = Len(Stream) - need /\ Len(Stream) \in Nat
         /\ \A i \in 1 .. Len(Stream') : Stream'[i] = Stream[i + need]
    <3>1. need \in Nat
      BY <2>8
    <3>. QED
      BY <2>9, <2>10, <3>1, StreamDropped
  <2>13. /\ Current' \in Current .. Len(sent) + 1
         /\ off[Current'] - need = (IF head' = <<>> THEN 0 ELSE -Header)
    BY <2>7, <2>8, <2>10
  <2>14. (\E f : Framed(f))'
    BY <2>1, <2>8, <2>10, <2>12, <2>13, ShiftFramed
  <2>15. HeadIsCurrent'
    BY <2>10 DEF HeadIsCurrent
  <2>. QED
    BY <2>6, <2>14, <2>15 DEF Framing
<1>. QED
  BY <1>2, <1>3

LEMMA ReadPayloadInv ==
  ASSUME PeerInv, ReadPayload
  PROVE  PeerInv'
<1>1. PeerTypeOK' /\ Framing'
  BY ReadPayloadTypes, ReadPayloadFramed DEF PeerInv
<1>2. link = "open" /\ link' = "open"
  BY ReadPayloadFacts DEF PeerInv, NothingUnlessOpen
<1>3. VerackIsCurrent'
  <2>. SUFFICES ASSUME verack'
                PROVE  \E j \in DOMAIN handled' : sent'[handled'[j][1]].command = "verack"
    BY <1>2 DEF VerackIsCurrent
  <2>1. /\ Len(handled) \in Nat /\ Len(handled') = Len(handled) + 1
        /\ \A i \in 1 .. Len(handled) : handled'[i] = handled[i]
        /\ handled'[Len(handled) + 1] = <<head[2][1], head[3][1]>>
        /\ handled' \in Seq((DOMAIN sent) \X (DOMAIN sent))
    BY ReadPayloadFacts, HandleTypes DEF PeerInv
  <2>2. DOMAIN handled' = 1 .. Len(handled) + 1 /\ DOMAIN handled = 1 .. Len(handled)
    BY <2>1, Types, LenProperties DEF PeerInv
  <2>3. sent' = sent
    BY ReadPayloadFacts
  <2>4. CASE verack
    <3>1. PICK j \in DOMAIN handled : sent[handled[j][1]].command = "verack"
      BY <2>4 DEF PeerInv, VerackIsCurrent
    <3>2. j \in DOMAIN handled' /\ handled'[j] = handled[j]
      BY <2>1, <2>2
    <3>. QED
      BY <2>3, <3>1, <3>2
  <2>5. CASE ~verack
    <3>1. CommandOf(head) = "verack"
      BY <2>5, ReadPayloadFacts DEF HandleMessage
    <3>2. sent[head[2][1]].command = "verack"
      BY <3>1 DEF CommandOf, Command
    <3>3. Len(handled) + 1 \in DOMAIN handled' /\ handled'[Len(handled) + 1][1] = head[2][1]
      BY <2>1, <2>2
    <3>. QED
      BY <2>3, <3>2, <3>3
  <2>. QED
    BY <2>4, <2>5
<1>. QED
  BY <1>1, <1>2, <1>3 DEF PeerInv, NothingUnlessOpen

\* The payload of a sound stream has its checksum.
LEMMA SoundPayload ==
  ASSUME PeerTypeOK, Framing, AllSound, Busy, head # <<>>
  PROVE  Checksummed
<1>1. PICK off : Framed(off)
  BY DEF Framing
<1>2. /\ Current <= Len(sent) /\ head = Units(Current, Header)
      /\ need = PayloadLen[sent[Current].command]
  BY DEF Framing, HeadIsCurrent
<1>3. Current \in 1 .. Len(sent) /\ Len(sent) \in Nat
  BY <1>2, Types, LenProperties DEF Current
<1>4. need \in Nat /\ Size(Current) = 3 + need
  BY <1>2, Types DEF Size, Header
<1>5. off[Current] = -3
  BY <1>1 DEF Framed, Header
<1>6. buff \in Seq(Unit) /\ wire \in Seq(Unit) /\ need <= Len(buff) /\ Len(buff) \in Nat
  BY Types, LenProperties DEF Busy
<1>7. \A i \in 1 .. Len(buff) : Stream[i] = buff[i]
  BY <1>6, FrontOfStream DEF Stream
<1>8. ASSUME NEW i \in 1 .. need PROVE buff[i] = <<Current, 3 + i>>
  <2>1. 3 + i \in 1 .. Size(Current) /\ off[Current] + (3 + i) = i /\ i >= 1
        /\ Current \in Current .. Len(sent) /\ i \in 1 .. Len(buff)
    BY <1>3, <1>4, <1>5, <1>6
  <2>2. \A j \in 1 .. Size(Current) :
          off[Current] + j >= 1 => Stream[off[Current] + j] = <<Current, j>>
    BY <1>1, <2>1 DEF Framed
  <2>3. Stream[i] = <<Current, 3 + i>>
    BY <2>1, <2>2
  <2>. QED
    BY <1>7, <2>1, <2>3
<1>9. SubSeq(buff, 1, need) = Payload(Current)
  <2>1. /\ SubSeq(buff, 1, need) \in Seq(Unit) /\ Len(SubSeq(buff, 1, need)) = need
        /\ \A i \in 1 .. need : SubSeq(buff, 1, need)[i] = buff[i]
    BY <1>4, <1>6, FrontAndRest
  <2>2. SubSeq(buff, 1, need) \in [1 .. need -> Unit]
    BY <2>1, LenProperties
  <2>3. \A i \in 1 .. need : SubSeq(buff, 1, need)[i] = <<Current, 3 + i>>
    BY <1>8, <2>1
  <2>. HIDE DEF Current
  <2>4. SubSeq(buff, 1, need) = [i \in 1 .. need |-> <<Current, 3 + i>>]
    BY <2>2, <2>3, Zenon
  <2>. QED
    BY <1>2, <2>4, Zenon DEF Payload, Header
<1>10. head[3] = <<Current, 3>>
  BY <1>2 DEF Units, Header
<1>11. sent[Current].sound
  BY <1>3, Types, LenProperties DEF AllSound
<1>. QED
  BY <1>9, <1>10, <1>11 DEF Checksummed, LengthAndChecksum

LEMMA DropPayloadInv ==
  ASSUME PeerInv, DropPayload
  PROVE  PeerInv'
<1>1. /\ UNCHANGED <<alive, link, verack, sent, wire, handled, written, faults>>
      /\ head # <<>> /\ Busy /\ ~Checksummed
      /\ head' = <<>> /\ buff' = <<>> /\ need' = 0
  BY DEF DropPayload
<1>2. ~AllSound /\ AllSound' = AllSound
  BY <1>1, SoundPayload DEF PeerInv, AllSound
<1>3. PeerTypeOK'
  <2>1. Flags' /\ Unit' = Unit
    BY <1>1 DEF PeerInv, PeerTypeOK, Flags, Unit
  <2>2. Len(head') = 0
    BY <1>1, EmptyTypes
  <2>. QED
    BY <1>1, <2>1, <2>2, Types, EmptyTypes, TypesNext DEF PeerInv
<1>4. link = "open"
  BY <1>1 DEF PeerInv, NothingUnlessOpen
<1>. QED
  BY <1>1, <1>2, <1>3, <1>4 DEF PeerInv, NothingUnlessOpen, VerackIsCurrent, Framing

LEMMA NodeSendsTypes ==
  ASSUME PeerTypeOK, NEW c \in Commands, NEW sound \in BOOLEAN, NodeSends(c, sound)
  PROVE  /\ PeerTypeOK'
         /\ Len(sent) \in Nat /\ Len(sent') = Len(sent) + 1
         /\ \A m \in 1 .. Len(sent) : sent'[m] = sent[m]
         /\ sent'[Len(sent) + 1] = [command |-> c, sound |-> sound]
         /\ DOMAIN sent = 1 .. Len(sent) /\ DOMAIN sent' = 1 .. Len(sent) + 1
         /\ Units(Len(sent) + 1, Header + PayloadLen[c]) \in Seq(Unit')
         /\ buff \in Seq(Unit') /\ wire \in Seq(Unit')
<1>. DEFINE message == [command |-> c, sound |-> sound]
            units   == Units(Len(sent) + 1, Header + PayloadLen[c])
<1>1. /\ UNCHANGED <<alive, link, verack, parser, handled, written>>
      /\ Len(sent) < MaxSent
      /\ sent' = Append(sent, message)
      /\ wire' = wire \o units
      /\ faults' = faults \/ (faults < MaxFaults /\ faults' = faults + 1)
  BY DEF NodeSends, Fault
<1>2. message \in Message
  BY DEF Message
<1>3. sent \in Seq(Message) /\ Len(sent) \in Nat /\ DOMAIN sent = 1 .. Len(sent)
  BY Types, LenProperties
<1>. HIDE DEF message
<1>4. /\ sent' \in Seq(Message) /\ Len(sent') = Len(sent) + 1
      /\ \A m \in 1 .. Len(sent) : sent'[m] = sent[m]
      /\ sent'[Len(sent) + 1] = message
  BY <1>1, <1>2, <1>3, AppendProperties
<1>5. DOMAIN sent' = 1 .. Len(sent) + 1
  BY <1>4, LenProperties
<1>6. Unit \subseteq Unit' /\ (DOMAIN sent) \X (DOMAIN sent) \subseteq ((DOMAIN sent) \X (DOMAIN sent))'
  BY <1>3, <1>5 DEF Unit
<1>7. \A S, T : S \subseteq T => Seq(S) \subseteq Seq(T)
  BY SeqDef
<1>8. PayloadLen[c] \in Nat
  BY PeerAssumption
<1>9. units \in Seq(Unit')
  <2>1. units = [i \in 1 .. 3 + PayloadLen[c] |-> <<Len(sent) + 1, i>>]
    BY DEF Units, Header
  <2>2. \A i \in 1 .. 3 + PayloadLen[c] : <<Len(sent) + 1, i>> \in Unit'
    BY <1>3, <1>5, <1>8 DEF Unit
  <2>3. 3 + PayloadLen[c] \in Nat
    BY <1>8
  <2>. QED
    BY <2>1, <2>2, <2>3, IsASeq
<1>. HIDE DEF units
<1>10. /\ wire \in Seq(Unit') /\ buff \in Seq(Unit') /\ head \in Seq(Unit')
       /\ handled \in Seq(((DOMAIN sent) \X (DOMAIN sent))')
  BY <1>6, <1>7, Types, Zenon
<1>11. wire' \in Seq(Unit')
  BY <1>1, <1>9, <1>10, ConcatProperties
<1>12. Flags'
  <2>1. faults' \in 0 .. MaxFaults
    <3>1. faults \in 0 .. MaxFaults /\ MaxFaults \in Nat
      BY PeerAssumption, Zenon DEF PeerTypeOK
    <3>2. faults' = faults \/ (faults < MaxFaults /\ faults' = faults + 1)
      BY <1>1
    <3>. QED
      BY <3>1, <3>2
  <2>. QED
    BY <1>1, <2>1, Zenon DEF PeerTypeOK, Flags
<1>13. MaxSent \in Nat
  BY PeerAssumption
<1>14. PeerTypeOK'
  <2>1. UNCHANGED <<buff, head, need, handled, written>> /\ Len(sent') <= MaxSent
    BY <1>1, <1>3, <1>4, <1>13 DEF parser
  <2>. QED
    BY <1>4, <1>10, <1>11, <1>12, <2>1, Types, TypesNext
<1>. QED
  BY <1>3, <1>4, <1>5, <1>9, <1>10, <1>14, Zenon DEF message, units

\* The stream with units at its end.
LEMMA StreamGrows ==
  ASSUME NEW S, NEW b \in Seq(S), NEW w \in Seq(S), NEW u \in Seq(S)
  PROVE  /\ Len(b \o (w \o u)) = Len(b \o w) + Len(u)
         /\ \A i \in 1 .. Len(b \o w) : (b \o (w \o u))[i] = (b \o w)[i]
         /\ \A i \in 1 .. Len(u) : (b \o (w \o u))[Len(b \o w) + i] = u[i]
         /\ Len(b \o w) \in Nat /\ Len(u) \in Nat
<1>1. (b \o w) \o u = b \o (w \o u)
  BY ConcatAssociative
<1>2. b \o w \in Seq(S)
  BY ConcatProperties
<1>3. /\ Len(b \o w) \in Nat /\ Len(u) \in Nat
      /\ Len((b \o w) \o u) = Len(b \o w) + Len(u)
      /\ \A i \in 1 .. Len(b \o w) + Len(u) :
           ((b \o w) \o u)[i] = IF i <= Len(b \o w) THEN (b \o w)[i] ELSE u[i - Len(b \o w)]
  BY <1>2, ConcatProperties, LenProperties
<1>4. \A i \in 1 .. Len(b \o w) : ((b \o w) \o u)[i] = (b \o w)[i]
  BY <1>3
<1>5. \A i \in 1 .. Len(u) : ((b \o w) \o u)[Len(b \o w) + i] = u[i]
  BY <1>3
<1>. QED
  BY <1>1, <1>3, <1>4, <1>5, Zenon

LEMMA NodeSendsFramed ==
  ASSUME PeerTypeOK, Framing, NEW c \in Commands, NEW sound \in BOOLEAN, NodeSends(c, sound)
  PROVE  Framing'
<1>. DEFINE size  == Header + PayloadLen[c]
            units == Units(Len(sent) + 1, size)
<1>1. /\ UNCHANGED <<buff, head, need, handled>> /\ wire' = wire \o units
  BY DEF NodeSends, parser
<1>2. /\ Len(sent) \in Nat /\ Len(sent') = Len(sent) + 1
      /\ \A m \in 1 .. Len(sent) : sent'[m] = sent[m]
      /\ sent'[Len(sent) + 1] = [command |-> c, sound |-> sound]
      /\ DOMAIN sent = 1 .. Len(sent) /\ DOMAIN sent' = 1 .. Len(sent) + 1
      /\ units \in Seq(Unit') /\ buff \in Seq(Unit') /\ wire \in Seq(Unit')
  BY NodeSendsTypes
<1>3. PayloadLen[c] \in Nat /\ size \in Nat /\ size >= 3
  BY PeerAssumption DEF Header
<1>. HIDE DEF size
<1>4. Len(units) = size /\ \A i \in 1 .. size : units[i] = <<Len(sent) + 1, i>>
  <2>1. units = [i \in 1 .. size |-> <<Len(sent) + 1, i>>]
    BY DEF Units
  <2>2. DOMAIN units = 1 .. size /\ DOMAIN units = 1 .. Len(units) /\ Len(units) \in Nat
    BY <1>2, <2>1, LenProperties DEF size
  <2>. HIDE DEF units
  <2>3. Len(units) = size
    BY <1>3, <2>2
  <2>. QED
    BY <2>1, <2>3
<1>. HIDE DEF units
<1>5. /\ Len(Stream') = Len(Stream) + size
      /\ \A i \in 1 .. Len(Stream) : Stream'[i] = Stream[i]
      /\ \A i \in 1 .. size : Stream'[Len(Stream) + i] = <<Len(sent) + 1, i>>
      /\ Len(Stream) \in Nat
  <2>1. /\ Len(buff \o (wire \o units)) = Len(buff \o wire) + Len(units)
        /\ \A i \in 1 .. Len(buff \o wire) : (buff \o (wire \o units))[i] = (buff \o wire)[i]
        /\ \A i \in 1 .. Len(units) : (buff \o (wire \o units))[Len(buff \o wire) + i] = units[i]
        /\ Len(buff \o wire) \in Nat
    BY <1>2, StreamGrows, SMTT(30)
  <2>2. Stream' = buff \o (wire \o units) /\ Stream = buff \o wire
    BY <1>1 DEF Stream
  <2>. QED
    BY <1>4, <2>1, <2>2, Zenon
<1>6. /\ \A m \in 1 .. Len(sent) : Size(m)' = Size(m) /\ Size(m) \in Nat
      /\ \A m : m = Len(sent) + 1 => Size(m)' = size
  BY <1>2, Payloads DEF Size, size
<1>7. Current' = Current /\ InOrder' = InOrder
  BY <1>1 DEF Current, InOrder
<1>8. SUFFICES ASSUME AllSound' PROVE Framing'
  BY DEF Framing
<1>9. AllSound
  BY <1>2, <1>8 DEF AllSound
<1>10. HeadIsCurrent'
  <2>1. HeadIsCurrent /\ Current >= 1
    BY <1>9, Types, LenProperties DEF Framing, Current
  <2>2. CASE head # <<>>
    <3>1. Current \in 1 .. Len(sent) /\ head = Units(Current, Header)
          /\ need = PayloadLen[sent[Current].command]
      BY <2>1, <2>2, Types, LenProperties DEF HeadIsCurrent, Current
    <3>2. sent'[Current] = sent[Current] /\ Current <= Len(sent')
      BY <1>2, <3>1
    <3>. QED
      BY <1>1, <1>7, <3>1, <3>2 DEF HeadIsCurrent
  <2>3. CASE head = <<>>
    BY <1>1, <2>3 DEF HeadIsCurrent
  <2>. QED
    BY <2>2, <2>3
<1>11. PICK off : Framed(off)
  BY <1>9 DEF Framing
<1>12. /\ off \in [1 .. Len(sent) + 1 -> Int]
       /\ \A m \in 1 .. Len(sent) : off[m + 1] = off[m] + Size(m)
       /\ \A m, n \in 1 .. Len(sent) + 1 : m <= n => off[m] <= off[n]
       /\ off[Len(sent) + 1] = Len(Stream)
       /\ Current \in 1 .. Len(sent) + 1
       /\ off[Current] = (IF head = <<>> THEN 0 ELSE -Header)
       /\ \A m \in Current .. Len(sent) : \A i \in 1 .. Size(m) :
            off[m] + i >= 1 => Stream[off[m] + i] = <<m, i>>
  BY <1>11 DEF Framed
<1>13. \E f : /\ f \in [1 .. Len(sent) + 2 -> Int]
              /\ \A m \in 1 .. Len(sent) + 1 : f[m] = off[m]
              /\ f[Len(sent) + 2] = Len(Stream) + size
  <2>. DEFINE longer == [m \in 1 .. Len(sent) + 2 |->
                           IF m <= Len(sent) + 1 THEN off[m] ELSE Len(Stream) + size]
  <2>1. longer \in [1 .. Len(sent) + 2 -> Int]
    BY <1>2, <1>3, <1>5, <1>12
  <2>2. \A m \in 1 .. Len(sent) + 1 : longer[m] = off[m]
    BY <1>2
  <2>3. longer[Len(sent) + 2] = Len(Stream) + size
    BY <1>2
  <2>. HIDE DEF longer
  <2>. QED
    BY <2>1, <2>2, <2>3
<1>14. PICK f : /\ f \in [1 .. Len(sent) + 2 -> Int]
                /\ \A m \in 1 .. Len(sent) + 1 : f[m] = off[m]
                /\ f[Len(sent) + 2] = Len(Stream) + size
  BY <1>13
<1>15. ASSUME NEW m \in 1 .. Len(sent') PROVE f[m + 1] = f[m] + Size(m)'
  <2>1. CASE m \in 1 .. Len(sent)
    <3>1. m \in 1 .. Len(sent) + 1 /\ m + 1 \in 1 .. Len(sent) + 1
      BY <1>2, <2>1
    <3>. QED
      BY <1>6, <1>12, <1>14, <2>1, <3>1, Zenon
  <2>2. CASE m = Len(sent) + 1
    <3>1. m \in 1 .. Len(sent) + 1 /\ m + 1 = Len(sent) + 2
      BY <1>2, <2>2
    <3>2. f[m] = Len(Stream) /\ f[m + 1] = Len(Stream) + size
      BY <1>12, <1>14, <2>2, <3>1, Zenon
    <3>3. Size(m)' = size
      BY <1>6, <2>2, Zenon
    <3>. QED
      BY <3>2, <3>3
  <2>. QED
    BY <1>2, <2>1, <2>2
<1>16. ASSUME NEW m \in 1 .. Len(sent') + 1, NEW n \in 1 .. Len(sent') + 1, m <= n
       PROVE  f[m] <= f[n]
  <2>1. CASE n \in 1 .. Len(sent) + 1
    <3>1. m \in 1 .. Len(sent) + 1
      BY <1>2, <1>16, <2>1
    <3>2. f[m] = off[m] /\ f[n] = off[n] /\ off[m] <= off[n]
      BY <1>12, <1>14, <1>16, <2>1, <3>1, Zenon
    <3>. QED
      BY <3>2
  <2>2. CASE n = Len(sent) + 2 /\ m \in 1 .. Len(sent) + 1
    <3>1. Len(sent) + 1 \in 1 .. Len(sent) + 1 /\ m <= Len(sent) + 1
      BY <1>2, <2>2
    <3>2. f[m] = off[m] /\ off[m] <= Len(Stream)
      BY <1>12, <1>14, <2>2, <3>1
    <3>3. off[m] \in Int
      BY <1>12, <2>2
    <3>. QED
      BY <1>3, <1>5, <1>14, <2>2, <3>2, <3>3
  <2>3. CASE n = Len(sent) + 2 /\ m = Len(sent) + 2
    BY <1>3, <1>5, <1>14, <2>3
  <2>. QED
    BY <1>2, <1>16, <2>1, <2>2, <2>3
<1>17. ASSUME NEW m \in Current .. Len(sent'), NEW i \in 1 .. Size(m)', f[m] + i >= 1
       PROVE  Stream'[f[m] + i] = <<m, i>>
  <2>1. CASE m \in Current .. Len(sent)
    <3>1. m \in 1 .. Len(sent) /\ m \in 1 .. Len(sent) + 1 /\ m + 1 \in 1 .. Len(sent) + 1
          /\ Len(sent) + 1 \in 1 .. Len(sent) + 1 /\ m + 1 <= Len(sent) + 1
      BY <1>2, <1>12, <2>1
    <3>2. f[m] = off[m] /\ Size(m)' = Size(m) /\ Size(m) \in Nat
      BY <1>6, <1>14, <3>1, Zenon
    <3>3. off[m] \in Int /\ off[m + 1] = off[m] + Size(m)
      BY <1>12, <3>1
    <3>4. off[m + 1] <= Len(Stream)
      BY <1>12, <3>1
    <3>5. off[m] + i \in 1 .. Len(Stream)
      BY <1>5, <1>17, <3>2, <3>3, <3>4
    <3>6. Stream[off[m] + i] = <<m, i>>
      BY <1>12, <1>17, <2>1, <3>2
    <3>. QED
      BY <1>5, <3>2, <3>5, <3>6
  <2>2. CASE m = Len(sent) + 1
    <3>1. m \in 1 .. Len(sent) + 1
      BY <1>2, <2>2
    <3>2. f[m] = Len(Stream) /\ i \in 1 .. size
      BY <1>6, <1>12, <1>14, <2>2, <3>1, Zenon
    <3>. QED
      BY <1>5, <2>2, <3>2
  <2>. QED
    BY <1>2, <1>12, <2>1, <2>2
<1>18. Framed(f)'
  <2>1. f \in [1 .. Len(sent') + 1 -> Int] /\ f[Len(sent') + 1] = Len(Stream')
        /\ Current' \in 1 .. Len(sent') + 1
    BY <1>2, <1>5, <1>7, <1>12, <1>14
  <2>2. f[Current'] = (IF head' = <<>> THEN 0 ELSE -Header)
    BY <1>1, <1>7, <1>12, <1>14, Zenon
  <2>3. \A m \in 1 .. Len(sent') : f[m + 1] = f[m] + Size(m)'
    BY <1>15
  <2>4. \A m, n \in 1 .. Len(sent') + 1 : m <= n => f[m] <= f[n]
    BY <1>16
  <2>5. \A m \in Current' .. Len(sent') : \A i \in 1 .. Size(m)' :
           f[m] + i >= 1 => Stream'[f[m] + i] = <<m, i>>
    BY <1>7, <1>17
  <2>. QED
    BY <2>1, <2>2, <2>3, <2>4, <2>5, Zenon DEF Framed
<1>. QED
  BY <1>7, <1>9, <1>10, <1>18 DEF Framing

LEMMA NodeSendsInv ==
  ASSUME PeerInv, NEW c \in Commands, NEW sound \in BOOLEAN, NodeSends(c, sound)
  PROVE  PeerInv'
<1>1. PeerTypeOK' /\ Framing'
  BY NodeSendsTypes, NodeSendsFramed DEF PeerInv
<1>2. link = "open" /\ link' = "open" /\ verack' = verack /\ handled' = handled
  BY DEF NodeSends
<1>3. VerackIsCurrent'
  <2>1. \A m \in DOMAIN sent : sent'[m] = sent[m]
    BY NodeSendsTypes DEF PeerInv
  <2>2. \A j \in DOMAIN handled : handled[j][1] \in DOMAIN sent
    <3>1. handled \in [DOMAIN handled -> (DOMAIN sent) \X (DOMAIN sent)]
      BY Types, LenProperties DEF PeerInv
    <3>. QED
      BY <3>1
  <2>. QED
    BY <1>2, <2>1, <2>2, Zenon DEF PeerInv, VerackIsCurrent
<1>. QED
  BY <1>1, <1>2, <1>3 DEF PeerInv, NothingUnlessOpen

LEMMA PeerInvNext == PeerInv /\ PeerNext => PeerInv'
<1>. SUFFICES ASSUME PeerInv, PeerNext PROVE PeerInv'
  OBVIOUS
<1>1. CASE Opened
  BY <1>1, OpenedInv
<1>2. CASE Refused
  BY <1>2, RefusedInv
<1>3. CASE Closed
  BY <1>3, ClosedInv
<1>4. CASE Parse
  BY <1>4, ReadHeaderInv, SeekMagicInv, ReadPayloadInv, DropPayloadInv DEF Parse
<1>5. ASSUME NEW c \in Commands, NEW sound \in BOOLEAN, NodeSends(c, sound) PROVE PeerInv'
  BY <1>5, NodeSendsInv
<1>6. ASSUME NEW n \in 1 .. Len(wire), Data(n) PROVE PeerInv'
  BY <1>6, DataInv
<1>. QED
  BY <1>1, <1>2, <1>3, <1>4, <1>5, <1>6 DEF PeerNext

\* What the invariant says of the messages handled.
LEMMA Handled ==
  ASSUME PeerInv
  PROVE  HandledInOrder /\ NothingLeftUnread
<1>1. Len(handled) \in Nat /\ Len(sent) \in Nat /\ DOMAIN handled = 1 .. Len(handled)
  BY Types, LenProperties DEF PeerInv
<1>2. ASSUME AllSound, NEW off, Framed(off)
      PROVE  Len(handled) <= Len(sent)
  BY <1>1, <1>2 DEF Framed, Current
<1>3. HandledInOrder
  BY <1>1, <1>2 DEF PeerInv, Framing, InOrder, HandledInOrder
<1>4. NothingLeftUnread
  <2>. SUFFICES ASSUME AllSound, Waiting, wire = <<>> PROVE Len(handled) = Len(sent)
    BY DEF NothingLeftUnread
  <2>1. PICK off : Framed(off)
    BY DEF PeerInv, Framing
  <2>2. Len(Stream) = Len(buff) /\ Len(buff) \in Nat
    BY Types, ConcatEmptySeq, LenProperties DEF PeerInv, Stream
  <2>3. Len(buff) < IF head = <<>> THEN 3 ELSE need
    BY <2>2, Types DEF PeerInv, Waiting, Busy, Header
  <2>. SUFFICES ASSUME Current \in 1 .. Len(sent) PROVE FALSE
    BY <1>1, <2>1 DEF Framed, Current
  <2>4. Size(Current) \in Nat /\ Size(Current) = 3 + PayloadLen[sent[Current].command]
        /\ PayloadLen[sent[Current].command] \in Nat
    BY Payloads DEF PeerInv, Size, Header
  <2>5. off[Current + 1] <= Len(buff) /\ off[Current + 1] = off[Current] + Size(Current)
        /\ off[Current] = IF head = <<>> THEN 0 ELSE -3
    <3>1. /\ Current + 1 \in 1 .. Len(sent) + 1 /\ Len(sent) + 1 \in 1 .. Len(sent) + 1
          /\ Current + 1 <= Len(sent) + 1
      BY <1>1
    <3>. QED
      BY <2>1, <2>2, <3>1 DEF Framed, Header
  <2>6. head # <<>> => need = PayloadLen[sent[Current].command]
    BY DEF PeerInv, Framing, HeadIsCurrent
  <2>. QED
    BY <2>2, <2>3, <2>4, <2>5, <2>6
<1>. QED
  BY <1>3, <1>4

-------------------------------------------------------------------------------
(* The startup *)

StartupTypes ==
  /\ stage \in Stages /\ answers \in [Daemons -> Answers] /\ synced \subseteq Daemons
  /\ reports \in 0 .. MaxReports /\ starts \in Nat

\* The first job starts the rest, once, and there is no peer before it.
StartedInOrder ==
  /\ stage = "serving" => starts = 1
  /\ stage # "serving" => starts = 0 /\ link = "none"

\* There is room for a report when the daemons are asked.
RoomForReport ==
  /\ stage \in {"online", "coinData"} => reports = 0
  /\ stage = "sync" => reports < MaxReports

\* Without a failure, what a daemon answered to checkSynced is true.
AnswersHold ==
  stage \in {"sync", "pause"} /\ faults = 0 =>
    \A d \in Daemons : answers[d] \in {"waiting", "syncing"} \/ d \in synced

StartInv == StartupTypes /\ StartedInOrder /\ RoomForReport /\ AnswersHold /\ WaitsForSync

LEMMA AskedType == Asked \in [Daemons -> Answers] /\ \A d \in Daemons : Asked[d] = "waiting"
BY DEF Asked, Answers

\* The peer stays as it is.
LEMMA PeerKept ==
  ASSUME PeerInv, UNCHANGED <<sent, wire, parser, handled, written, verack>>,
         alive' \in BOOLEAN, faults' \in 0 .. MaxFaults,
         link' = link \/ (link = "none" /\ link' = "connecting")
  PROVE  PeerInv'
<1>1. UNCHANGED <<buff, head, need>>
  BY DEF parser
<1>2. Framing'
  BY FramingKept DEF PeerInv
<1>3. Flags'
  <2>1. link' \in {"none", "connecting", "open", "abandoned"}
    BY DEF PeerInv, PeerTypeOK
  <2>2. verack' \in BOOLEAN
    BY DEF PeerInv, PeerTypeOK
  <2>. QED
    BY <2>1, <2>2, Zenon DEF Flags
<1>4. PeerTypeOK'
  BY <1>1, <1>3, Types, TypesNext DEF PeerInv, Unit
<1>5. link # "open" => link' # "open" /\ ~verack
  BY DEF PeerInv, NothingUnlessOpen
<1>6. link = "open" => link' = "open"
  OBVIOUS
<1>. QED
  BY <1>1, <1>2, <1>4, <1>5, <1>6 DEF PeerInv, NothingUnlessOpen, VerackIsCurrent

\* A failure is counted.
LEMMA FaultCounts ==
  ASSUME faults \in 0 .. MaxFaults, Fault
  PROVE  faults' \in 0 .. MaxFaults /\ faults' > 0
BY PeerAssumption DEF Fault

LEMMA AnswerCounts ==
  ASSUME faults \in 0 .. MaxFaults, NEW s, NEW d, NEW a, Answer(s, d, a)
  PROVE  /\ faults' \in 0 .. MaxFaults /\ (faults > 0 => faults' > 0)
         /\ a \in {"error", "lost"} => faults' > 0
         /\ stage = s /\ answers[d] = "waiting"
<1>1. CASE a \in {"error", "lost"}
  BY <1>1, FaultCounts DEF Answer
<1>2. CASE a \notin {"error", "lost"}
  BY <1>2 DEF Answer
<1>. QED
  BY <1>1, <1>2

LEMMA AnswerOnlineInv ==
  ASSUME PeerInv, StartInv, NEW d \in Daemons, NEW a \in Answers, AnswerOnline(d, a)
  PROVE  PeerInv' /\ StartInv'
<1>1. /\ UNCHANGED <<peerVars, synced, reports, starts>>
      /\ Answer("online", d, a)
      /\ \/ answers' = [answers EXCEPT ![d] = a] /\ stage' = stage
         \/ answers' = Asked /\ stage' = "coinData"
  BY DEF AnswerOnline, Collected
<1>2. faults \in 0 .. MaxFaults /\ alive \in BOOLEAN
  BY DEF PeerInv, PeerTypeOK
<1>3. faults' \in 0 .. MaxFaults /\ stage = "online"
  BY <1>1, <1>2, AnswerCounts
<1>4. UNCHANGED <<alive, link, verack, sent, wire, parser, handled, written>>
  BY <1>1 DEF peerVars
<1>5. PeerInv'
  BY <1>2, <1>3, <1>4, PeerKept
<1>6. StartupTypes'
  BY <1>1, AskedType DEF StartInv, StartupTypes, Stages
<1>. QED
  BY <1>1, <1>3, <1>4, <1>5, <1>6 DEF StartInv, StartedInOrder, RoomForReport, AnswersHold, WaitsForSync

LEMMA AnswerCoinDataInv ==
  ASSUME PeerInv, StartInv, NEW a \in Answers, AnswerCoinData(a)
  PROVE  PeerInv' /\ StartInv'
<1>1. /\ UNCHANGED <<peerVars, synced, reports, starts>>
      /\ Answer("coinData", First, a)
      /\ \/ answers' = [answers EXCEPT ![First] = a] /\ stage' = stage
         \/ answers' = Asked /\ stage' \in {"sync", "stopped"}
  BY DEF AnswerCoinData
<1>2. faults \in 0 .. MaxFaults /\ alive \in BOOLEAN
  BY DEF PeerInv, PeerTypeOK
<1>3. faults' \in 0 .. MaxFaults /\ stage = "coinData"
  BY <1>1, <1>2, AnswerCounts
<1>4. UNCHANGED <<alive, link, verack, sent, wire, parser, handled, written>>
  BY <1>1 DEF peerVars
<1>5. PeerInv'
  BY <1>2, <1>3, <1>4, PeerKept
<1>6. StartupTypes'
  <2>1. StartupTypes /\ First \in Daemons
    BY StartupAssumption DEF StartInv
  <2>2. answers' \in [Daemons -> Answers]
    BY <1>1, <2>1, AskedType DEF StartupTypes
  <2>3. stage' \in Stages
    BY <1>1, <2>1 DEF StartupTypes, Stages
  <2>4. UNCHANGED <<synced, reports, starts>>
    BY <1>1
  <2>. QED
    BY <2>1, <2>2, <2>3, <2>4 DEF StartupTypes
<1>7. RoomForReport'
  BY <1>1, <1>3, StartupAssumption DEF StartInv, RoomForReport
<1>8. AnswersHold'
  BY <1>1, <1>3, AskedType DEF AnswersHold
<1>. QED
  BY <1>1, <1>3, <1>4, <1>5, <1>6, <1>7, <1>8 DEF StartInv, StartedInOrder, WaitsForSync

LEMMA AnswerSyncInv ==
  ASSUME PeerInv, StartInv, NEW d \in Daemons, NEW a \in Answers, AnswerSync(d, a)
  PROVE  PeerInv' /\ StartInv'
<1>. DEFINE all == [answers EXCEPT ![d] = a]
            next == IF Synced(all) THEN "firstJob" ELSE "pause"
<1>1. /\ UNCHANGED <<peerVars, synced, starts>>
      /\ Answer("sync", d, a) /\ a \in TemplateAnswers(d)
      /\ \/ answers' = all /\ stage' = stage
         \/ /\ answers' = Asked /\ stage' = next
            /\ \A e \in Daemons : all[e] \notin {"waiting", "lost"}
      /\ reports' = IF stage' = "pause" THEN reports + 1 ELSE reports
  BY DEF AnswerSync, Collected
<1>2. faults \in 0 .. MaxFaults /\ alive \in BOOLEAN
  BY DEF PeerInv, PeerTypeOK
<1>3. /\ faults' \in 0 .. MaxFaults /\ (faults > 0 => faults' > 0) /\ stage = "sync"
      /\ a \in {"error", "lost"} => faults' > 0
  BY <1>1, <1>2, AnswerCounts
<1>4. UNCHANGED <<alive, link, verack, sent, wire, parser, handled, written>>
  BY <1>1 DEF peerVars
<1>5. PeerInv'
  BY <1>2, <1>3, <1>4, PeerKept
<1>6. all \in [Daemons -> Answers] /\ all[d] = a /\ \A e \in Daemons \ {d} : all[e] = answers[e]
  BY DEF StartInv, StartupTypes
<1>7. faults' = 0 => \A e \in Daemons : all[e] \in {"waiting", "syncing"} \/ e \in synced
  <2>. SUFFICES ASSUME faults' = 0, NEW e \in Daemons
                PROVE  all[e] \in {"waiting", "syncing"} \/ e \in synced
    OBVIOUS
  <2>1. faults = 0
    BY <1>2, <1>3
  <2>2. CASE e = d
    <3>1. a \notin {"error", "lost"}
      BY <1>3
    <3>2. d \in synced \/ a = "syncing"
      BY <1>1, <3>1 DEF TemplateAnswers
    <3>. QED
      BY <1>6, <2>2, <3>2
  <2>3. CASE e # d
    BY <1>3, <1>6, <2>1, <2>3 DEF StartInv, AnswersHold
  <2>. QED
    BY <2>2, <2>3
<1>. HIDE DEF all
<1>8. StartupTypes' /\ RoomForReport'
  <2>1. reports \in 0 .. MaxReports /\ reports < MaxReports /\ MaxReports \in Nat
    BY <1>3, StartupAssumption DEF StartInv, StartupTypes, RoomForReport
  <2>2. stage' \in {"sync", "firstJob", "pause"}
    BY <1>1, <1>3
  <2>3. reports' \in 0 .. MaxReports /\ (stage' = "sync" => reports' < MaxReports)
    <3>1. reports' = IF stage' = "pause" THEN reports + 1 ELSE reports
      BY <1>1, Zenon
    <3>2. CASE stage' = "pause"
      <4>1. reports' = reports + 1 /\ stage' # "sync"
        BY <3>1, <3>2
      <4>. QED
        BY <2>1, <4>1
    <3>3. CASE stage' # "pause"
      <4>1. reports' = reports
        BY <3>1, <3>3
      <4>. QED
        BY <2>1, <4>1
    <3>. QED
      BY <3>2, <3>3
  <2>4. answers' \in [Daemons -> Answers]
    BY <1>1, <1>6, AskedType
  <2>5. synced' \subseteq Daemons /\ starts' \in Nat
    BY <1>1 DEF StartInv, StartupTypes
  <2>. QED
    BY <2>2, <2>3, <2>4, <2>5, Zenon DEF StartupTypes, RoomForReport, Stages
<1>9. AnswersHold'
  BY <1>1, <1>3, <1>7, AskedType DEF AnswersHold
<1>10. WaitsForSync'
  <2>. SUFFICES ASSUME stage' \in {"firstJob", "serving"}, ~(faults' > 0)
                PROVE  synced' = Daemons
    BY DEF WaitsForSync
  <2>1. faults' = 0
    <3>1. faults' \in 0 .. MaxFaults
      BY <1>3, Zenon
    <3>. QED
      BY <3>1, PeerAssumption
  <2>2. Synced(all) /\ \A e \in Daemons : all[e] \notin {"waiting", "lost"}
    BY <1>1, <1>3
  <2>3. \A e \in Daemons : e \in synced
    BY <1>7, <2>1, <2>2 DEF Synced
  <2>4. synced \subseteq Daemons
    BY DEF StartInv, StartupTypes
  <2>. QED
    BY <1>1, <2>3, <2>4
<1>11. StartedInOrder'
  BY <1>1, <1>3, <1>4 DEF StartInv, StartedInOrder
<1>. QED
  BY <1>5, <1>8, <1>9, <1>10, <1>11 DEF StartInv

LEMMA AnswerFirstJobInv ==
  ASSUME PeerInv, StartInv, NEW d \in Daemons, NEW a \in Answers, AnswerFirstJob(d, a)
  PROVE  PeerInv' /\ StartInv'
<1>1. /\ UNCHANGED <<alive, verack, sent, wire, parser, handled, written, synced, reports>>
      /\ answers' = [answers EXCEPT ![d] = a]
      /\ \/ starts = 0 /\ starts' = starts + 1 /\ stage' = "serving" /\ link' = "connecting"
         \/ UNCHANGED <<starts, stage, link>>
  BY DEF AnswerFirstJob, FirstJobLive
<1>2. faults \in 0 .. MaxFaults /\ alive \in BOOLEAN
  BY DEF PeerInv, PeerTypeOK
<1>3. PICK s \in {"firstJob", "serving"} : Answer(s, d, a)
  BY DEF AnswerFirstJob
<1>4. faults' \in 0 .. MaxFaults /\ (faults > 0 => faults' > 0) /\ stage = s
  BY <1>2, <1>3, AnswerCounts
<1>5. starts = 0 => stage # "serving" /\ link = "none"
  <2>1. starts \in Nat /\ StartedInOrder
    BY DEF StartInv, StartupTypes
  <2>. QED
    BY <2>1 DEF StartedInOrder
<1>6. PeerInv'
  BY <1>1, <1>2, <1>4, <1>5, PeerKept
<1>7. StartupTypes'
  <2>1. StartupTypes
    BY DEF StartInv
  <2>2. answers' \in [Daemons -> Answers]
    BY <1>1, <2>1 DEF StartupTypes
  <2>3. stage' \in Stages
    BY <1>1, <2>1 DEF StartupTypes, Stages
  <2>4. starts' \in Nat
    <3>1. starts \in Nat
      BY <2>1 DEF StartupTypes
    <3>2. starts' = starts + 1 \/ starts' = starts
      BY <1>1, Zenon
    <3>. QED
      BY <3>1, <3>2
  <2>. QED
    BY <1>1, <2>1, <2>2, <2>3, <2>4, Zenon DEF StartupTypes
<1>8. stage \in {"firstJob", "serving"} /\ stage' \in {"firstJob", "serving"}
  BY <1>1, <1>3, <1>4
<1>9. WaitsForSync'
  BY <1>1, <1>4, <1>8 DEF StartInv, WaitsForSync
<1>10. StartedInOrder'
  <2>1. CASE starts = 0 /\ starts' = starts + 1 /\ stage' = "serving"
    BY <2>1 DEF StartedInOrder
  <2>2. CASE UNCHANGED <<starts, stage, link>>
    BY <2>2 DEF StartInv, StartedInOrder
  <2>. QED
    BY <1>1, <2>1, <2>2
<1>. QED
  BY <1>6, <1>7, <1>8, <1>9, <1>10 DEF StartInv, RoomForReport, AnswersHold

LEMMA RetryInv ==
  ASSUME PeerInv, StartInv, Retry
  PROVE  PeerInv' /\ StartInv'
<1>1. /\ UNCHANGED <<peerVars, faults, answers, synced, reports, starts>>
      /\ stage = "pause" /\ reports < MaxReports /\ stage' = "sync"
  BY DEF Retry
<1>2. faults \in 0 .. MaxFaults /\ alive \in BOOLEAN
  BY DEF PeerInv, PeerTypeOK
<1>3. UNCHANGED <<alive, link, verack, sent, wire, parser, handled, written>>
  BY <1>1 DEF peerVars
<1>4. PeerInv'
  BY <1>1, <1>2, <1>3, PeerKept
<1>5. StartupTypes' /\ RoomForReport'
  BY <1>1 DEF StartInv, StartupTypes, Stages, RoomForReport
<1>6. AnswersHold'
  BY <1>1 DEF StartInv, AnswersHold
<1>. QED
  BY <1>1, <1>3, <1>4, <1>5, <1>6 DEF StartInv, StartedInOrder, WaitsForSync

LEMMA ReportEndsInv ==
  ASSUME PeerInv, StartInv, NEW lost \in BOOLEAN, ReportEnds(lost)
  PROVE  PeerInv' /\ StartInv'
<1>1. /\ UNCHANGED <<peerVars, stage, answers, synced, starts>>
      /\ reports > 0 /\ reports' = reports - 1
      /\ Fault \/ faults' = faults
  BY DEF ReportEnds
<1>2. faults \in 0 .. MaxFaults /\ alive \in BOOLEAN
  BY DEF PeerInv, PeerTypeOK
<1>3. faults' \in 0 .. MaxFaults /\ (faults' = 0 => faults = 0) /\ (faults > 0 => faults' > 0)
  BY <1>1, <1>2, FaultCounts
<1>4. UNCHANGED <<alive, link, verack, sent, wire, parser, handled, written>>
  BY <1>1 DEF peerVars
<1>5. PeerInv'
  BY <1>2, <1>3, <1>4, PeerKept
<1>6. StartupTypes' /\ RoomForReport'
  <2>1. reports \in 0 .. MaxReports /\ MaxReports \in Nat
    BY StartupAssumption DEF StartInv, StartupTypes
  <2>2. reports' \in 0 .. MaxReports /\ reports' < reports /\ reports # 0
    BY <1>1, <2>1
  <2>3. RoomForReport'
    BY <1>1, <2>1, <2>2 DEF StartInv, RoomForReport
  <2>. QED
    BY <1>1, <2>2, <2>3 DEF StartInv, StartupTypes
<1>7. AnswersHold' /\ WaitsForSync'
  BY <1>1, <1>3 DEF StartInv, AnswersHold, WaitsForSync
<1>. QED
  BY <1>1, <1>4, <1>5, <1>6, <1>7 DEF StartInv, StartedInOrder

LEMMA ReportThrowsInv ==
  ASSUME PeerInv, StartInv, ReportThrows
  PROVE  PeerInv' /\ StartInv'
<1>1. /\ UNCHANGED <<link, verack, sent, wire, parser, handled, written, startupVars>>
      /\ alive' = FALSE /\ Fault
  BY DEF ReportThrows
<1>2. faults \in 0 .. MaxFaults
  BY DEF PeerInv, PeerTypeOK
<1>3. faults' \in 0 .. MaxFaults /\ faults' > 0
  BY <1>1, <1>2, FaultCounts
<1>4. PeerInv'
  BY <1>1, <1>3, PeerKept
<1>5. UNCHANGED <<stage, answers, synced, reports, starts>>
  BY <1>1 DEF startupVars
<1>6. AnswersHold' /\ WaitsForSync'
  BY <1>3 DEF AnswersHold, WaitsForSync
<1>. QED
  BY <1>1, <1>4, <1>5, <1>6 DEF StartInv, StartupTypes, StartedInOrder, RoomForReport

LEMMA CatchesInv ==
  ASSUME PeerInv, StartInv, NEW d \in Daemons, Catches(d)
  PROVE  PeerInv' /\ StartInv'
<1>1. /\ UNCHANGED <<peerVars, faults, stage, answers, reports, starts>>
      /\ synced' = synced \cup {d}
  BY DEF Catches
<1>2. faults \in 0 .. MaxFaults /\ alive \in BOOLEAN
  BY DEF PeerInv, PeerTypeOK
<1>3. UNCHANGED <<alive, link, verack, sent, wire, parser, handled, written>>
  BY <1>1 DEF peerVars
<1>4. PeerInv'
  BY <1>1, <1>2, <1>3, PeerKept
<1>5. synced \subseteq Daemons /\ synced' \subseteq Daemons
  BY <1>1 DEF StartInv, StartupTypes
<1>6. AnswersHold' /\ WaitsForSync'
  BY <1>1, <1>5 DEF StartInv, AnswersHold, WaitsForSync
<1>. QED
  BY <1>1, <1>3, <1>4, <1>5, <1>6 DEF StartInv, StartupTypes, StartedInOrder, RoomForReport

\* The peer's steps.
LEMMA PeerStepInv ==
  ASSUME PeerInv, StartInv, PeerNext, UNCHANGED startupVars
  PROVE  PeerInv' /\ StartInv'
<1>1. UNCHANGED <<stage, answers, synced, reports, starts>>
  BY DEF startupVars
<1>2. faults \in 0 .. MaxFaults
  BY DEF PeerInv, PeerTypeOK
<1>3. link # "none" \/ link' = link
  BY DEF PeerNext, Opened, Refused, Closed, Parse, ReadHeader, SeekMagic, ReadPayload, DropPayload,
         NodeSends, Data
<1>4. faults' = faults \/ Fault
  BY DEF PeerNext, Opened, Refused, Closed, Parse, ReadHeader, SeekMagic, ReadPayload, DropPayload,
         NodeSends, Data
<1>5. faults' \in 0 .. MaxFaults /\ (faults' = 0 => faults = 0) /\ (faults > 0 => faults' > 0)
  BY <1>2, <1>4, FaultCounts
<1>6. AnswersHold' /\ WaitsForSync'
  BY <1>1, <1>5 DEF StartInv, AnswersHold, WaitsForSync
<1>. QED
  BY <1>1, <1>3, <1>6, PeerInvNext DEF StartInv, StartupTypes, StartedInOrder, RoomForReport

LEMMA InitInv == StartupInit => PeerInv /\ StartInv
<1>. SUFFICES ASSUME StartupInit PROVE PeerInv /\ StartInv
  OBVIOUS
<1>1. /\ stage = "online" /\ answers = Asked /\ synced \subseteq Daemons
      /\ reports = 0 /\ starts = 0 /\ faults = 0
      /\ alive = TRUE /\ link = "none" /\ verack = FALSE
      /\ sent = <<>> /\ wire = <<>> /\ handled = <<>> /\ written = <<>>
      /\ buff = <<>> /\ head = <<>> /\ need = 0
  BY DEF StartupInit
<1>2. PeerTypeOK
  <2>1. {wire, buff, head} \subseteq Seq(Unit) /\ Len(head) \in {0, Header} /\ Len(sent) = 0
    BY <1>1, EmptyTypes, Zenon
  <2>2. /\ sent \in Seq([command : Commands, sound : BOOLEAN])
        /\ handled \in Seq((DOMAIN sent) \X (DOMAIN sent))
        /\ written \in Seq(Commands \cup {"pong"})
    BY <1>1, EmptyTypes, Zenon
  <2>3. Len(sent) <= MaxSent /\ faults \in 0 .. MaxFaults
    BY <1>1, <2>1, PeerAssumption
  <2>. QED
    BY <1>1, <2>1, <2>2, <2>3 DEF PeerTypeOK
<1>3. PeerInv
  BY <1>1, <1>2, StartFramed DEF PeerInv, NothingUnlessOpen, VerackIsCurrent
<1>4. StartInv
  BY <1>1, AskedType, StartupAssumption DEF StartInv, StartupTypes, StartedInOrder, RoomForReport,
     AnswersHold, WaitsForSync, Stages
<1>. QED
  BY <1>3, <1>4

StartupInv == PeerInv /\ StartInv

LEMMA InvNext == StartupInv /\ [PoolNext]_vars => StartupInv'
<1>. SUFFICES ASSUME StartupInv, [PoolNext]_vars PROVE PeerInv' /\ StartInv'
  BY DEF StartupInv
<1>. USE DEF StartupInv
<1>1. CASE StartupStep
  <2>1. ASSUME NEW d \in Daemons, NEW a \in Answers,
               AnswerOnline(d, a) \/ AnswerSync(d, a) \/ AnswerFirstJob(d, a)
        PROVE  PeerInv' /\ StartInv'
    BY <2>1, AnswerOnlineInv, AnswerSyncInv, AnswerFirstJobInv
  <2>2. ASSUME NEW a \in Answers, AnswerCoinData(a) PROVE PeerInv' /\ StartInv'
    BY <2>2, AnswerCoinDataInv
  <2>3. CASE Retry
    BY <2>3, RetryInv
  <2>4. ASSUME NEW lost \in BOOLEAN, ReportEnds(lost) PROVE PeerInv' /\ StartInv'
    BY <2>4, ReportEndsInv
  <2>. QED
    BY <1>1, <2>1, <2>2, <2>3, <2>4 DEF StartupStep
<1>2. CASE ReportThrows
  BY <1>2, ReportThrowsInv
<1>3. ASSUME NEW d \in Daemons, Catches(d) PROVE PeerInv' /\ StartInv'
  BY <1>3, CatchesInv
<1>4. CASE PeerNext /\ UNCHANGED startupVars
  BY <1>4, PeerStepInv
<1>5. CASE UNCHANGED vars
  <2>1. UNCHANGED <<alive, link, verack, sent, wire, parser, handled, written, faults, startupVars>>
    BY <1>5 DEF vars, peerVars
  <2>2. UNCHANGED <<stage, answers, synced, reports, starts>>
    BY <2>1 DEF startupVars
  <2>3. PeerInv'
    BY <2>1, PeerKept DEF PeerInv, PeerTypeOK
  <2>4. StartInv'
    BY <2>1, <2>2 DEF StartInv, StartupTypes, StartedInOrder, RoomForReport, AnswersHold, WaitsForSync
  <2>. QED
    BY <2>3, <2>4
<1>. QED
  BY <1>1, <1>2, <1>3, <1>4, <1>5 DEF PoolNext

LEMMA StartupInvariant == StartupSpec => []StartupInv
BY InitInv, InvNext, PTL DEF StartupInv, StartupSpec

-------------------------------------------------------------------------------
(***************************************************************************)
(* The variables have their types: among others, every unit the parser     *)
(* holds is of a message that was sent on this connection.                 *)
(***************************************************************************)
THEOREM StartupTypeCorrect == StartupSpec => []StartupTypeOK
<1>1. StartupInv => StartupTypeOK
  BY DEF StartupInv, PeerInv, StartInv, StartupTypes, StartupTypeOK
<1>. QED
  BY <1>1, StartupInvariant, PTL

(***************************************************************************)
(* The parser (peer.js, readFlowingBytes and beginReadingMessage) hands    *)
(* over whole messages in the order they were sent, however the stream is  *)
(* cut, for payloads of any length and any number of messages.             *)
(***************************************************************************)
THEOREM AlwaysHandledInOrder == StartupSpec => []HandledInOrder
<1>1. StartupInv => HandledInOrder
  BY Handled DEF StartupInv
<1>. QED
  BY <1>1, StartupInvariant, PTL

(***************************************************************************)
(* When all bytes have arrived and the parser waits, it has handed over    *)
(* every message: none is held back until bytes of the next one come.      *)
(***************************************************************************)
THEOREM NeverLeftUnread == StartupSpec => []NothingLeftUnread
<1>1. StartupInv => NothingLeftUnread
  BY Handled DEF StartupInv
<1>. QED
  BY <1>1, StartupInvariant, PTL

(***************************************************************************)
(* The flag verack, which decides between reconnecting and giving up, was  *)
(* set on the connection that is open.                                     *)
(***************************************************************************)
THEOREM VerackAlwaysCurrent == StartupSpec => []VerackIsCurrent
<1>1. StartupInv => VerackIsCurrent
  BY DEF StartupInv, PeerInv
<1>. QED
  BY <1>1, StartupInvariant, PTL

(***************************************************************************)
(* GetFirstJob's callback starts polling, the peer and the stratum server  *)
(* at most once, for any number of daemons that answer.                    *)
(***************************************************************************)
THEOREM AlwaysStartsOnce == StartupSpec => []StartsOnce
<1>1. StartupInv => StartsOnce
  BY DEF StartupInv, StartInv, StartupTypes, StartedInOrder, StartsOnce
<1>. QED
  BY <1>1, StartupInvariant, PTL

(***************************************************************************)
(* The pool asks for its first job only when every daemon has the chain,   *)
(* unless a request failed: any other error counts as synchronized.        *)
(***************************************************************************)
THEOREM AlwaysWaitsForSync == StartupSpec => []WaitsForSync
<1>1. StartupInv => WaitsForSync
  BY DEF StartupInv, StartInv
<1>. QED
  BY <1>1, StartupInvariant, PTL
===============================================================================
