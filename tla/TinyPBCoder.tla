---------------------------- MODULE TinyPBCoder ----------------------------
(***************************************************************************)
(* TinyPBCoder (net/coder/tinypb_coder.cc) on a stream of cells.           *)
(*                                                                         *)
(* A cell stands for one char or for one 32-bit integer field; read as a   *)
(* char, a field may look like a start or an end flag, as its bytes may in *)
(* the code.  The peer's stream is cut into pieces anywhere; onRead hands  *)
(* each piece to decode(), which takes the packages that are complete.     *)
(***************************************************************************)
EXTENDS Integers, Sequences, SequencesExt

CONSTANTS
  Streams,        \* what the peer may send
  Leads,          \* what may come before its first message
  Conversations,  \* the sequences of messages it may have to send
  MaxPackage      \* TinyPBProtocol::MAX_PACKAGE_SIZE

VARIABLES
  stream,   \* everything the peer sends
  arrived,  \* how many cells of it have been read from the socket
  pos,      \* how many of those decode() has consumed
  out       \* the messages it has produced

vars == <<stream, arrived, pos, out>>

PB_START == 2
PB_END == 3
MIN_PACKAGE_SIZE == 8       \* two flags and six integer fields
DefaultId == <<1>>          \* "123456789"

ASSUME MaxPackageAssumption == MaxPackage \in Int /\ MaxPackage >= MIN_PACKAGE_SIZE
ASSUME StreamsAssumption == Streams \subseteq Seq(Int)

\* The members of a TinyPBProtocol that go over the wire.
Messages == [id : Seq(Int), method : Seq(Int), err : Int, info : Seq(Int), body : Seq(Int)]

ASSUME ConversationsAssumption ==
  /\ Conversations \subseteq Seq(Messages)
  /\ Leads \subseteq {s \in Seq(Int) : \A i \in 1..Len(s) : s[i] # PB_START}

(***************************************************************************)
(* encode                                                                  *)
(***************************************************************************)
PackageSize(msg) ==
  MIN_PACKAGE_SIZE + Len(msg.id) + Len(msg.method) + Len(msg.info) + Len(msg.body)

\* An empty msg_id is replaced before anything else is done.
WithId(msg) == IF msg.id = <<>> THEN [msg EXCEPT !.id = DefaultId] ELSE msg

\* encodeTinyPB: nothing at all for a package that is too large.
encodeTinyPB(message) ==
  LET m == WithId(message)
  IN IF PackageSize(m) > MaxPackage THEN <<>>
     ELSE <<PB_START, PackageSize(m), Len(m.id)>> \o m.id
          \o <<Len(m.method)>> \o m.method
          \o <<m.err, Len(m.info)>> \o m.info \o m.body \o <<1, PB_END>>

encode(messages) == FlattenSeq([i \in DOMAIN messages |-> encodeTinyPB(messages[i])])

(***************************************************************************)
(* decode                                                                  *)
(***************************************************************************)

\* The first cell that looks like a start flag, or 0.
StartIndex(s) == SelectInSeq(s, LAMBDA c : c = PB_START)

\* Every field of a package lies before its checksum.
ParseSuccess(p) ==
  LET last   == Len(p) - 2
      method == 4 + p[3]
      err    == method + p[method] + 1
      info   == err + 1
  IN /\ 3 <= last /\ p[3] >= 0 /\ 3 + p[3] <= last
     /\ method <= last /\ p[method] >= 0 /\ method + p[method] <= last
     /\ err <= last
     /\ info <= last /\ p[info] >= 0 /\ info + p[info] <= last

\* Faulty: the checksum is taken for a part of the body.
MessageLong(p) ==
  LET method == 4 + p[3]
      err    == method + p[method] + 1
      body   == err + 1 + p[err + 1] + 1
  IN [id |-> SubSeq(p, 4, method - 1),
      method |-> SubSeq(p, method + 1, err - 1),
      err |-> p[err],
      info |-> SubSeq(p, err + 2, body - 1),
      body |-> SubSeq(p, body, Len(p) - 1)]

Message(p) ==
  LET method == 4 + p[3]
      err    == method + p[method] + 1
      body   == err + 1 + p[err + 1] + 1
  IN [id |-> SubSeq(p, 4, method - 1),
      method |-> SubSeq(p, method + 1, err - 1),
      err |-> p[err],
      info |-> SubSeq(p, err + 2, body - 1),
      body |-> SubSeq(p, body, Len(p) - 2)]

\* A turn that consumes n cells and is followed by another one.
Take(n, messages) == [drop |-> n, out |-> messages, stop |-> FALSE]

\* Faulty: an incomplete package loses its start flag.
WaitAndDrop(n) == [drop |-> IF n = 0 THEN 1 ELSE n, out |-> <<>>, stop |-> TRUE]

\* The last turn: the loop is left, n cells having been consumed.
Wait(n) == [drop |-> n, out |-> <<>>, stop |-> TRUE]

\* Faulty: no upper limit.
BadLengthBelow(len) == len < MIN_PACKAGE_SIZE

BadLength(len) == len < MIN_PACKAGE_SIZE \/ len > MaxPackage

\* One turn of the loop on the unread cells s.
Turn(s) ==
  LET start == StartIndex(s)
      len   == s[2]
  IN CASE start = 0 -> Wait(Len(s))
       [] start > 1 -> Take(start - 1, <<>>)
       [] start = 1 /\ Len(s) < 2 -> Wait(0)
       [] OTHER ->
            IF BadLength(len) THEN Take(1, <<>>)
            ELSE IF len > Len(s) THEN Wait(0)
            ELSE IF s[len] # PB_END THEN Take(1, <<>>)
            ELSE LET p == SubSeq(s, 1, len)
                 IN Take(len, IF ParseSuccess(p) THEN <<Message(p)>> ELSE <<>>)

\* The whole loop: what is consumed of s, and the messages.
decode[s \in Seq(Int)] ==
  IF s = <<>> THEN [drop |-> 0, out |-> <<>>]
  ELSE LET t == Turn(s)
       IN IF t.stop THEN [drop |-> t.drop, out |-> t.out]
          ELSE LET rest == decode[SubSeq(s, t.drop + 1, Len(s))]
               IN [drop |-> t.drop + rest.drop, out |-> t.out \o rest.out]

(***************************************************************************)
(* The connection that reads the stream                                    *)
(***************************************************************************)
Init == stream \in Streams /\ arrived = 0 /\ pos = 0 /\ out = <<>>

\* onRead and excute: n more cells have come.
OnRead(n) ==
  /\ arrived + n <= Len(stream)
  /\ LET d == decode[SubSeq(stream, pos + 1, arrived + n)]
     IN pos' = pos + d.drop /\ out' = out \o d.out
  /\ arrived' = arrived + n
  /\ UNCHANGED stream

AllRead ==
  /\ arrived = Len(stream)
  /\ UNCHANGED vars

Next == AllRead \/ \E n \in 1..Len(stream) : OnRead(n)

Spec == Init /\ [][Next]_vars

(***************************************************************************)
(* Properties                                                              *)
(***************************************************************************)

\* What is sent of a message: nothing of one that is too large.
Sent(message) ==
  LET m == WithId(message) IN IF PackageSize(m) > MaxPackage THEN <<>> ELSE <<m>>

\* A stream of packages after cells among which none starts, and their messages.
Exchange(lead, messages) ==
  <<lead \o encode(messages),
    FlattenSeq([i \in DOMAIN messages |-> Sent(messages[i])])>>

Exchanges == {Exchange(a, c) : a \in Leads, c \in Conversations}

\* docs/protocol.md: sticky and partial packages are decoded to the messages
\* that were encoded, in order and once, and noise in front does not hide
\* them.  Nothing but a prefix of them comes out, and all of them once the
\* stream has been read.
RoundTrip ==
  \A p \in Exchanges :
    stream = p[1] => /\ IsPrefix(out, p[2])
                     /\ arrived = Len(stream) => out = p[2]

\* docs/protocol.md, "TCP Sticky And Partial Packets": where the stream is
\* cut makes no difference.  What has been decoded piece by piece is what one
\* decode() of everything that arrived would give, broken packages included.
ChunkingIndependent ==
  LET whole == decode[SubSeq(stream, 1, arrived)]
  IN out = whole.out /\ pos = whole.drop

\* What decode() leaves for later is the start of one package, shorter than
\* the largest one: noise and broken packages never pile up in the buffer.
BacklogBounded ==
  arrived > pos => /\ stream[pos + 1] = PB_START
                   /\ arrived - pos < MaxPackage
=============================================================================
