---------------------------- MODULE PeerConnection ----------------------------
(***************************************************************************)
(* The peer-to-peer connection to a coin node (engine/lib/peer.js): its    *)
(* life from Connect to the close event, and the parser that cuts a byte   *)
(* stream, which arrives in any chunks, into messages.                     *)
(*                                                                         *)
(* Bytes come in units <<k, i>>: unit i of the k-th message the node sent  *)
(* on this connection.  The units of a header are the magic number, the    *)
(* command, and length with checksum.  A 'data' event runs to its end: it  *)
(* is Data and the parser's steps until none is left (Busy).               *)
(***************************************************************************)
EXTENDS Naturals, Sequences

CONSTANTS
  PayloadLen,   \* PayloadLen[c]: units of payload of a message with command c
  MaxSent,      \* bound: messages the node sends on one connection
  MaxFaults     \* bound: corrupt messages and other failures

Magic == 1
Command == 2
LengthAndChecksum == 3
Header == 3       \* units of a header: 24 bytes

Commands == {"version", "verack", "ping", "block", "other"}

ASSUME PeerAssumption ==
  PayloadLen \in [Commands -> Nat] /\ MaxSent \in Nat /\ MaxFaults \in Nat

VARIABLES
  alive,     \* the pool's process has not died of an exception
  link,      \* "none", "connecting", "open" or "abandoned": no socket, for good
  verack,    \* the node's verack came
  sent,      \* what the node sent on this connection: command, and if sound
  wire,      \* units on their way to the pool
  buff,      \* units received that the parser has not used
  head,      \* the header of the message being read, or << >>
  need,      \* units of payload it announces
  handled,   \* messages handed to HandleMessage: <<of the command, of the payload>>
  written,   \* commands the pool wrote to the socket
  faults     \* failures so far

parser   == <<buff, head, need>>
peerVars == <<alive, link, verack, sent, wire, parser, handled, written>>

Fault == faults < MaxFaults /\ faults' = faults + 1

Units(k, len) == [i \in 1 .. len |-> <<k, i>>]
Payload(k) == [i \in 1 .. PayloadLen[sent[k].command] |-> <<k, Header + i>>]

\* A slip: readFlowingBytes wants one byte more than it was asked for.
BusyLater == alive /\ Len(buff) > IF head = <<>> THEN Header ELSE need

\* readFlowingBytes has as many bytes as it was asked for.
Busy == alive /\ Len(buff) >= IF head = <<>> THEN Header ELSE need

\* The event loop is free for the next event.
Waiting == alive /\ ~Busy

-------------------------------------------------------------------------------
(* The connection *)

\* A new socket with its own parser; what the old one held is gone.
Fresh ==
  /\ sent' = <<>> /\ wire' = <<>> /\ handled' = <<>> /\ written' = <<>>
  /\ buff' = <<>> /\ head' = <<>> /\ need' = 0

\* connect's callback: SendVersion.
Opened ==
  /\ Waiting /\ link = "connecting"
  /\ link' = "open"
  /\ written' = <<"version">>
  /\ UNCHANGED <<alive, verack, sent, wire, parser, handled, faults>>

\* ECONNREFUSED: connectionFailed, and the close event finds nothing to do.
Refused ==
  /\ Waiting /\ link = "connecting"
  /\ link' = "abandoned"
  /\ UNCHANGED <<alive, verack, sent, wire, parser, handled, written, faults>>

\* A slip: the old connection's verack is kept.
CloseKeepsVerack ==
  /\ Waiting /\ link \in {"connecting", "open"}
  /\ link' = IF verack THEN "connecting" ELSE "abandoned"
  /\ Fresh
  /\ UNCHANGED <<alive, verack, faults>>

\* The close event, after any other error too: with verack 'disconnected' and
\* Connect again, without it 'connectionRejected'.
Closed ==
  /\ Waiting /\ link \in {"connecting", "open"}
  /\ link' = IF verack THEN "connecting" ELSE "abandoned"
  /\ verack' = FALSE
  /\ Fresh
  /\ UNCHANGED <<alive, faults>>

\* The node: version, verack, and after the pool's verack whatever it likes.
MaySend(c) ==
  CASE Len(sent) = 0 -> c = "version" /\ written # <<>>
    [] Len(sent) = 1 -> c = "verack"
    [] OTHER -> c \notin {"version", "verack"} /\ "verack" \in {written[i] : i \in DOMAIN written}

NodeSends(c, sound) ==
  /\ alive /\ link = "open" /\ Len(sent) < MaxSent /\ MaySend(c)
  /\ IF sound THEN UNCHANGED faults ELSE Fault
  /\ sent' = Append(sent, [command |-> c, sound |-> sound])
  /\ wire' = wire \o Units(Len(sent) + 1, Header + PayloadLen[c])
  /\ UNCHANGED <<alive, link, verack, parser, handled, written>>

-------------------------------------------------------------------------------
(* The parser *)

\* A 'data' event: readFlowingBytes appends the chunk.
Data(n) ==
  /\ Waiting /\ link = "open" /\ n \in 1 .. Len(wire)
  /\ buff' = buff \o SubSeq(wire, 1, n)
  /\ wire' = SubSeq(wire, n + 1, Len(wire))
  /\ UNCHANGED <<alive, link, verack, sent, head, need, handled, written, faults>>

\* What a complete header says of the length; garbled, it can say anything.
Announced(h) ==
  LET u == h[LengthAndChecksum]
  IN  IF u[2] = LengthAndChecksum THEN {PayloadLen[sent[u[1]].command]}
      ELSE {PayloadLen[c] : c \in Commands}

\* A slip: readFlowingBytes returns all it has.
ReadHeaderWhole ==
  /\ Busy /\ head = <<>>
  /\ buff[1][2] = Magic
  /\ head' = buff
  /\ buff' = SubSeq(buff, Header + 1, Len(buff))
  /\ need' \in Announced(head')
  /\ UNCHANGED <<alive, link, verack, sent, wire, handled, written, faults>>

ReadHeader ==
  /\ Busy /\ head = <<>>
  /\ buff[1][2] = Magic
  /\ head' = SubSeq(buff, 1, Header)
  /\ buff' = SubSeq(buff, Header + 1, Len(buff))
  /\ need' \in Announced(head')
  /\ UNCHANGED <<alive, link, verack, sent, wire, handled, written, faults>>

\* A bad magic number: the search for a good one stays within the header, and
\* what was read beyond the header is dropped.  Without one, readUInt32LE reads
\* behind the end and throws.
SeekMagic ==
  /\ Busy /\ head = <<>>
  /\ buff[1][2] # Magic
  /\ LET found == {i \in 1 .. Header : buff[i][2] = Magic}
     IN  IF found = {} THEN alive' = FALSE /\ buff' = <<>>
         ELSE /\ buff' = SubSeq(buff, CHOOSE i \in found : \A j \in found : i <= j, Header)
              /\ UNCHANGED alive
  /\ UNCHANGED <<link, verack, sent, wire, head, need, handled, written, faults>>

Checksummed ==
  LET u == head[LengthAndChecksum]
  IN  /\ u[2] = LengthAndChecksum /\ sent[u[1]].sound
      /\ SubSeq(buff, 1, need) = Payload(u[1])

CommandOf(h) ==
  LET u == h[Command] IN IF u[2] = Command THEN sent[u[1]].command ELSE "other"

\* HandleMessage.  An inv with a block is passed on by blockFound: the pool's
\* processBlockNotify.
HandleMessage(c) ==
  /\ handled' = Append(handled, <<head[Command][1], head[LengthAndChecksum][1]>>)
  /\ verack' = (verack \/ c = "verack")
  /\ written' = CASE c = "version" -> Append(written, "verack")
                  [] c = "ping"    -> Append(written, "pong")
                  [] OTHER         -> written

\* A slip: the bytes behind the payload are dropped.
ReadPayloadOnly ==
  /\ Busy /\ head # <<>> /\ Checksummed
  /\ HandleMessage(CommandOf(head))
  /\ head' = <<>> /\ buff' = <<>> /\ need' = 0
  /\ UNCHANGED <<alive, link, sent, wire, faults>>

\* The payload is complete; the bytes behind it start the next message.
ReadPayload ==
  /\ Busy /\ head # <<>> /\ Checksummed
  /\ HandleMessage(CommandOf(head))
  /\ head' = <<>> /\ buff' = SubSeq(buff, need + 1, Len(buff)) /\ need' = 0
  /\ UNCHANGED <<alive, link, sent, wire, faults>>

\* A bad checksum: the bytes behind the payload are dropped as well.
DropPayload ==
  /\ Busy /\ head # <<>> /\ ~Checksummed
  /\ head' = <<>> /\ buff' = <<>> /\ need' = 0
  /\ UNCHANGED <<alive, link, verack, sent, wire, handled, written, faults>>

-------------------------------------------------------------------------------
Parse == ReadHeader \/ SeekMagic \/ ReadPayload \/ DropPayload

PeerNext ==
  \/ Opened \/ Refused \/ Closed \/ Parse
  \/ \E c \in Commands, sound \in BOOLEAN : NodeSends(c, sound)
  \/ \E n \in 1 .. Len(wire) : Data(n)

-------------------------------------------------------------------------------
Unit == (DOMAIN sent) \X Nat

PeerTypeOK ==
  /\ alive \in BOOLEAN /\ verack \in BOOLEAN
  /\ link \in {"none", "connecting", "open", "abandoned"}
  /\ sent \in Seq([command : Commands, sound : BOOLEAN]) /\ Len(sent) <= MaxSent
  /\ {wire, buff, head} \subseteq Seq(Unit) /\ Len(head) \in {0, Header}
  /\ need \in Nat
  /\ handled \in Seq((DOMAIN sent) \X (DOMAIN sent))
  /\ written \in Seq(Commands \cup {"pong"})
  /\ faults \in 0 .. MaxFaults

AllSound == \A k \in DOMAIN sent : sent[k].sound

(***************************************************************************)
(* However the stream is cut into chunks, the messages handled are those   *)
(* the node sent, whole and in its order, as long as none was corrupt (a   *)
(* corrupt one costs the bytes received with it).                          *)
(***************************************************************************)
HandledInOrder ==
  AllSound => \A j \in DOMAIN handled : handled[j] = <<j, j>> /\ j <= Len(sent)

(***************************************************************************)
(* Once everything has arrived, everything was handled: no complete        *)
(* message waits in the buffer for bytes of the next one, so a block is    *)
(* announced when it comes and not with the message after it.              *)
(***************************************************************************)
NothingLeftUnread ==
  AllSound /\ Waiting /\ link = "open" /\ wire = <<>> => Len(handled) = Len(sent)

\* "Connected" is said of this connection: a close before the new handshake is
\* not taken for the loss of a working connection.
VerackIsCurrent ==
  verack => link = "open" /\ \E j \in DOMAIN handled : sent[handled[j][1]].command = "verack"

(***************************************************************************)
(* A node that greets is always connected again, however often it goes,    *)
(* unless an attempt fails: then it is given up (peer.js has no retry).    *)
(***************************************************************************)
HandshakeCompletes ==
  link # "none" ~> (verack \/ link = "abandoned" \/ ~alive \/ ~AllSound)
===============================================================================
