--------------------------- MODULE MCTinyPBCoder ---------------------------
(***************************************************************************)
(* TinyPBCoder for TLC: streams of encoded messages, clean and with noise  *)
(* before, between and after them.                                         *)
(***************************************************************************)
EXTENDS TinyPBCoder

Msg(id, method, err, info, body) ==
  [id |-> id, method |-> method, err |-> err, info |-> info, body |-> body]

\* Bodies and names that contain flags and what looks like a header.
SampleMessages ==
  { Msg(<<7>>, <<>>, 0, <<>>, <<>>),
    Msg(<<>>, <<5>>, 0, <<>>, <<2, 3>>),
    Msg(<<2>>, <<3>>, 2, <<2>>, <<2, 8>>),
    Msg(<<7>>, <<5>>, 9, <<3, 2>>, <<>>),
    Msg(<<7>>, <<5, 5, 5>>, 0, <<2, 8, 0>>, <<0, 0, 0, 0, 1, 3>>) }

Noise(k) == UNION {[1..n -> {0, 2, 3, 8, 20}] : n \in 0..k}

SampleConversations == {<<m, n>> : m, n \in SampleMessages}

NoStart == {n \in Noise(2) : PB_START \notin Range(n)}

Clean == {encode(c) : c \in SampleConversations}

Noisy == {a \o encodeTinyPB(m) \o z \o encodeTinyPB(n) :
            a \in Noise(2), z \in Noise(1), m, n \in SampleMessages}

\* Packages with a right length and end flag and any four cells inside.
Broken == {<<2, 8, w, x, y, z, 1, 3>> \o encodeTinyPB(m) :
             w, x, y, z \in {-1, 0, 1}, m \in SampleMessages}

AllStreams == Clean \cup Noisy \cup Broken
=============================================================================
