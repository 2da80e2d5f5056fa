----------------------- MODULE NotificationAssembler -----------------------
(***************************************************************************)
(* NotificationAssembler.feed and reset, on the bytes of a link: the       *)
(* machine cuts its stream of frames into notifications, some are lost,    *)
(* and the assembler joins what was split.                                 *)
(*                                                                         *)
(* A byte is <<k, i>>, byte i of the k-th frame of the stream; Value gives *)
(* the number it reads as, so that a length field read across two frames   *)
(* is what the code would compute.  The checksum is taken to hold of whole *)
(* frames only.                                                            *)
(***************************************************************************)
EXTENDS Naturals, Sequences

CONSTANTS
  Lengths,      \* Lengths[k]: the length of the k-th frame the machine sends
  Body,         \* Body[i]: the value of byte i of a frame, from byte 10 on
  MaxFrameLen,  \* MAX_FRAME_LEN
  Mtu,          \* bound: the longest notification
  MinCut,       \* the shortest notification that ends inside a frame
  MaxLosses     \* bound: notifications lost, and resets

HeaderLen   == 9    \* the length field ends here
MinFrameLen == 12
NoLength    == 0    \* None of _frame_length

ASSUME FrameAssumption ==
  /\ Lengths \in Seq(MinFrameLen..MaxFrameLen)
  /\ MaxFrameLen \in Nat /\ MaxFrameLen > HeaderLen
  /\ Mtu \in Nat /\ MinCut \in Nat /\ MaxLosses \in Nat
  /\ \A k \in 1..Len(Lengths) : \A i \in HeaderLen + 1..Lengths[k] : Body[i] \in 0..255

VARIABLES
  at,       \* external: bytes of the stream sent so far
  pending,  \* _pending
  decoded,  \* what feed returned and the decoder did not reject, so far
  losses,   \* notifications lost, and resets
  synced,   \* history: every byte since a clean boundary between frames was heard
  owed      \* history: frames heard whole, which feed ought to return

vars == <<at, pending, decoded, losses, synced, owed>>

Frames == 1..Len(Lengths)

FrameBytes(k) == [i \in 1..Lengths[k] |-> <<k, i>>]

\* End[k]: where frame k ends in the stream.
End[k \in 0..Len(Lengths)] == IF k = 0 THEN 0 ELSE End[k - 1] + Lengths[k]

AtBoundary(n) == \E k \in 0..Len(Lengths) : End[k] = n

ByteAt(n) == LET k == CHOOSE j \in Frames : End[j - 1] < n /\ n <= End[j]
             IN  <<k, n - End[k - 1]>>

\* 58 02 07, the code, the length (low byte first), then what the code carries.
Value(b) ==
  CASE b[2] = 1 -> 88
    [] b[2] = 2 -> 2
    [] b[2] = 3 -> 7
    [] b[2] = 4 -> 21
    [] b[2] = 5 -> 80
    [] b[2] = 6 -> Lengths[b[1]] % 256
    [] b[2] = 7 -> Lengths[b[1]] \div 256
    [] b[2] \in {8, 9} -> 0
    [] OTHER -> Body[b[2]]

From(d, i) == SubSeq(d, i, Len(d))

-----------------------------------------------------------------------------
(* Reading frames *)

DeclaredLength(d) ==
  Value(d[6]) + 256 * Value(d[7]) + 65536 * Value(d[8]) + 16777216 * Value(d[9])

OpensFrame(d) == Value(d[1]) = 88 /\ Value(d[2]) = 2

\* Faulty variant: no limit on what the length field says.
LengthUnlimited(d) ==
  IF Len(d) >= HeaderLen /\ OpensFrame(d) /\ DeclaredLength(d) >= MinFrameLen
  THEN DeclaredLength(d) ELSE NoLength

FrameLength(d) ==
  IF /\ Len(d) >= HeaderLen
     /\ OpensFrame(d)
     /\ DeclaredLength(d) \in MinFrameLen..MaxFrameLen
  THEN DeclaredLength(d) ELSE NoLength

\* Faulty variant: the checksum is not looked at.
AnyCrc(f) == Len(f) >= MinFrameLen

CrcOk(f) == \E k \in Frames : f = FrameBytes(k)

\* _walk: the whole frames at the start of d, and what follows them.
Walk(d) ==
  LET cut[i \in 1..Len(d) + 1] ==
        LET n == FrameLength(From(d, i)) IN
        IF n = NoLength \/ n > Len(d) - i + 1
        THEN [frames |-> << >>, rest |-> From(d, i)]
        ELSE [frames |-> <<SubSeq(d, i, i + n - 1)>> \o cut[i + n].frames,
              rest   |-> cut[i + n].rest]
  IN  cut[1]

\* Faulty variant: only a rest whose length can be read is kept.
OpensAtLength(d) == FrameLength(d) > Len(d)

CouldOpenAFrame(d) ==
  \/ Len(d) < HeaderLen /\ Value(d[1]) = 88 /\ (Len(d) > 1 => Value(d[2]) = 2)
  \/ FrameLength(d) > Len(d)

\* What feed returns for data once nothing is pending, and what it keeps; the
\* frames joined so far come first.
Split(joined, data) ==
  LET w == Walk(data) IN
  CASE data = << >> -> [out |-> joined, pending |-> << >>]
    [] data # << >> /\ w.frames = << >> /\ joined = << >> /\ ~CouldOpenAFrame(data) ->
         [out |-> <<data>>, pending |-> << >>]
    [] OTHER ->
         [out     |-> joined \o w.frames,
          pending |-> IF w.rest # << >> /\ CouldOpenAFrame(w.rest) THEN w.rest ELSE << >>]

\* Faulty variant: a failed join drops the notification with the half frame.
FeedDropsBoth(p, d) ==
  LET joined == p \o d
      n      == FrameLength(joined)
  IN  CASE p = << >> -> Split(<< >>, d)
        [] p # << >> /\ n > Len(joined) -> [out |-> << >>, pending |-> joined]
        [] p # << >> /\ n \in 1..Len(joined) /\ CrcOk(SubSeq(joined, 1, n)) ->
             Split(<<SubSeq(joined, 1, n)>>, From(joined, n + 1))
        [] OTHER -> [out |-> << >>, pending |-> << >>]

\* feed: what it returns and what _pending is afterwards.
FeedOn(p, d) ==
  LET joined == p \o d
      n      == FrameLength(joined)
  IN  CASE p # << >> /\ n > Len(joined) -> [out |-> << >>, pending |-> joined]
        [] p # << >> /\ n \in 1..Len(joined) /\ CrcOk(SubSeq(joined, 1, n)) ->
             Split(<<SubSeq(joined, 1, n)>>, From(joined, n + 1))
        [] OTHER -> Split(<< >>, d)

-----------------------------------------------------------------------------
\* The least that a notification beginning with a frame can bring.
Least == IF MinCut < MinFrameLen THEN MinCut ELSE MinFrameLen

\* A boundary in the stream, with nothing held that misses more than the next
\* notification is sure to bring, and would swallow it.
CleanBoundary(n, held) == AtBoundary(n) /\ FrameLength(held) <= Len(held) + Least

Init ==
  /\ at = 0
  /\ pending = << >>
  /\ decoded = << >>
  /\ losses = 0
  /\ synced = TRUE
  /\ owed = {}

\* External: the machine's next notification, of n bytes.  It is cut inside a
\* frame only when it is full enough.
NextNotification(n) ==
  /\ at + n <= End[Len(Lengths)]
  /\ AtBoundary(at + n) \/ n >= MinCut
  /\ at' = at + n

\* parse_ffe3_packet has something to decode.
Decodes(f) == Len(f) >= 10 /\ OpensFrame(f)

\* Of what feed returns, what is decoded (SelectSeq, as a function).
Decoded(out) ==
  LET upto[i \in 0..Len(out)] ==
        IF i = 0 THEN << >>
        ELSE IF Decodes(out[i]) THEN Append(upto[i - 1], out[i]) ELSE upto[i - 1]
  IN  upto[Len(out)]

\* feed, from _on_notify, and what the decoder makes of it.
Feed(n) ==
  /\ NextNotification(n)
  /\ LET r == FeedOn(pending, [i \in 1..n |-> ByteAt(at + i)]) IN
       /\ decoded' = decoded \o Decoded(r.out)
       /\ pending' = r.pending
  /\ synced' = (synced \/ CleanBoundary(at', pending'))
  /\ owed' = IF synced THEN owed \union {k \in Frames : at < End[k] /\ End[k] <= at'} ELSE owed
  /\ UNCHANGED losses

\* External: a notification is lost on its way.
Lose(n) ==
  /\ losses < MaxLosses
  /\ NextNotification(n)
  /\ losses' = losses + 1
  /\ synced' = CleanBoundary(at', pending)
  /\ UNCHANGED <<pending, decoded, owed>>

\* reset, from _ensure_notify: a subscription starts anew, over a link on which
\* the machine may be in the middle of a frame.
Reset ==
  /\ losses < MaxLosses
  /\ losses' = losses + 1
  /\ pending' = << >>
  /\ synced' = AtBoundary(at)
  /\ UNCHANGED <<at, decoded, owed>>

Next == (\E n \in 1..Mtu : Feed(n) \/ Lose(n)) \/ Reset

Spec == Init /\ [][Next]_vars

-----------------------------------------------------------------------------
(* Properties *)

Genuine(f) == \E k \in Frames : f = FrameBytes(k)

\* Every frame heard whole since a clean boundary comes out: however it was cut,
\* and whatever half frame was left over by a loss.
WholeFramesHeard == \A k \in owed : \E j \in 1..Len(decoded) : decoded[j] = FrameBytes(k)

\* What comes out and is decoded is a frame the machine sent, in the order it
\* sent them, none twice.
OnlyFramesSent ==
  /\ \A j \in 1..Len(decoded) : Genuine(decoded[j])
  /\ \A i, j \in 1..Len(decoded) : i < j => decoded[i][1][1] < decoded[j][1][1]

\* What is held for the next notification is less than the longest frame, so a
\* misread length swallows no more than that of the link.
PendingBounded == Len(pending) < MaxFrameLen
=============================================================================
