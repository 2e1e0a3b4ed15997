------------------------------ MODULE MCChunked ------------------------------
(* Messages of up to two chunks, with data that looks like framing.         *)
EXTENDS Chunked

CONSTANTS Data  \* the characters of the data

MCDigits == <<"0", "1", "2">>

C(size, ext, data) == [size |-> size, ext |-> ext, data |-> data]

(* Sizes of one digit, of two, with a leading zero, with an extension.      *)
Ones   == {C(<<"1">>, <<>>, d) : d \in [1 .. 1 -> Data]}
Twos   == {C(<<"0", "2">>, <<>>, d) : d \in [1 .. 2 -> Data]}
Threes == {C(<<"1", "0">>, <<>>, d) : d \in [1 .. 3 -> Data]}
Exts   == {C(<<"1">>, <<"x">>, d) : d \in [1 .. 1 -> Data]}
          \cup {C(<<"1">>, <<"x", "1">>, <<"1">>)}

All == Ones \cup Twos \cup Threes \cup Exts

MCMessages ==
  {<<>>} \cup {<<c>> : c \in All} \cup {<<c, d>> : c \in Ones \cup Twos, d \in Ones \cup Exts}
=============================================================================
