---------------------------- MODULE RetargetServer ----------------------------
(***************************************************************************)
(* The stratum server with the variable difficulty of its clients: where   *)
(* StratumServer lets a share ask for any difficulty, here varDiff         *)
(* computes it from the times between the shares (pool.js, setVarDiff,     *)
(* connects the two).                                                      *)
(***************************************************************************)
EXTENDS StratumServer, VarDiff

VARIABLES
  meter,   \* meter[c]: varDiff's state for connection c
  gaps     \* gaps[c]: the times the ring buffer should hold, oldest first

retargetVars == <<serverVars, meter, gaps>>

\* What varDiff may ask for: anything between its limits, or from the port's
\* difficulty on where that is beyond them.
ASSUME RetargetAssumption ==
  LET low  == IF PortDiff < MinDiff THEN PortDiff ELSE MinDiff
      high == IF PortDiff > MaxDiff THEN PortDiff ELSE MaxDiff
  IN  VarDiffs = low .. high

\* The last BufferSize elements of s; all of them if the size is no integer.
Window(s) == IF SizeIsInteger /\ Len(s) > BufferSize
             THEN SubSeq(s, Len(s) - BufferSize + 1, Len(s)) ELSE s

\* varDiff's 'submit' listener, then the pool's.
MeteredSubmit(c, shareValid) ==
  LET newDiff == Retarget(meter[c], client[c].difficulty)
  IN  /\ SubmitShare(c, shareValid, newDiff)
      /\ meter' = [meter EXCEPT ![c] = Metered(@, client[c].difficulty)]
      /\ gaps' = [gaps EXCEPT ![c] =
                    IF newDiff # 0 \/ ~meter[c].started THEN <<>>
                    ELSE Window(Append(@, meter[c].sinceLast))]

\* A new connection gets a meter of its own.
MeteredConnect(c, addr) ==
  /\ Connect(c, addr)
  /\ meter' = [meter EXCEPT ![c] = NewMeter]
  /\ gaps' = [gaps EXCEPT ![c] = <<>>]

MeteredTick ==
  /\ Tick
  /\ meter' = [c \in Conns |-> Aged(meter[c])]
  /\ UNCHANGED gaps

RetargetInit ==
  /\ ServerInit
  /\ meter = [c \in Conns |-> NewMeter]
  /\ gaps = [c \in Conns |-> <<>>]

RetargetNext ==
  \/ \E c \in Conns, addr \in Addrs : MeteredConnect(c, addr)
  \/ \E c \in Conns, shareValid \in BOOLEAN : MeteredSubmit(c, shareValid)
  \/ MeteredTick
  \/ (ClientStep \/ LoopStep) /\ UNCHANGED <<meter, gaps>>

RetargetSpec == RetargetInit /\ [][RetargetNext]_retargetVars

-------------------------------------------------------------------------------
(* What must hold *)

\* Every step is one StratumServer allows: in particular a retarget asks for no
\* difficulty beyond varDiff's limits and the port's own, whatever the times
\* between shares and the changes of the client's difficulty in between.
ServerImplemented == ServerSpec

(***************************************************************************)
(* The average is that of the last BufferSize times since the last         *)
(* retarget, of all of them as long as there are fewer or if the size is   *)
(* no integer (varDiff.js:58): whenever it is taken, the buffer holds      *)
(* these times, in order from the cursor round, and divides by their       *)
(* number, over any sequence of shares, retargets and reconnections.       *)
(***************************************************************************)
Slot(ring, i) ==
  LET k == IF ring.isFull THEN ring.cursor + i ELSE i
  IN  IF k <= Len(ring.data) THEN k ELSE k - Len(ring.data)

RingIsWindow ==
  \A c \in Conns :
    LET ring == meter[c].ring
    IN  /\ RingSize(ring) = Len(gaps[c])
        /\ Len(ring.data) = Len(gaps[c])
        /\ \A i \in 1 .. Len(gaps[c]) : gaps[c][i] = ring.data[Slot(ring, i)]
===============================================================================
