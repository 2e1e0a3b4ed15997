------------------------------- MODULE Chunked -------------------------------
(***************************************************************************)
(* The chunked decoder of lib/ts_fetcher.c.                                *)
(*                                                                         *)
(* A server's stream reaches ts_http_fetcher_verify_chunked in blocks of   *)
(* any length; the decoder keeps its place in chunked_info between them.   *)
(* Each round of its loop is an action.  Several blocks in one call and a  *)
(* call for each of them come to the same: only the last block before the  *)
(* end of the connection is marked, by eos.                                *)
(***************************************************************************)
EXTENDS Integers, SequencesExt

CONSTANTS
  Chars,      \* the characters, as strings
  Digits,     \* the digits of a length, a sequence: the first one is zero
  MaxDigits,  \* sizeof(frag_buf) - 1
  Messages,   \* what servers send: sequences of [size, ext, data]
  Modes       \* values of dechunk_enabled

Digit == ToSet(Digits)

(* The number that a sequence of digits stands for.                        *)
Number(s) ==
  LET Worth(d) == CHOOSE v \in 0 .. Len(Digits) - 1 : Digits[v + 1] = d
      Step(v, d) == v * Len(Digits) + Worth(d)
  IN  FoldLeft(Step, 0, s)

(* The messages are well-formed: each chunk has data, its size in digits   *)
(* before it and at most an extension between the two, which no digit      *)
(* begins.  Sizes that do not fit in frag_total, an int, are left out.     *)
Text   == Chars \ {"cr", "lf"}
Pieces == [size : Seq(Digit), ext : Seq(Text), data : Seq(Chars)]

ASSUME ChunkedAssumption ==
  /\ MaxDigits \in Nat \ {0} /\ Modes \subseteq BOOLEAN
  /\ {"cr", "lf"} \subseteq Chars
  /\ Digits \in Seq(Text) /\ Digits # <<>>
  /\ \A i, j \in DOMAIN Digits : Digits[i] = Digits[j] => i = j
  /\ \A m \in Messages : m \in Seq(Pieces) /\ \A i \in DOMAIN m :
       /\ m[i].size # <<>> /\ Len(m[i].size) <= MaxDigits
       /\ Number(m[i].size) = Len(m[i].data) /\ m[i].data # <<>>
       /\ m[i].ext # <<>> => m[i].ext[1] \notin Digit

VARIABLES
  message,  \* what the server sends
  dechunk,  \* dechunk_enabled
  pos,      \* bytes consumed
  avail,    \* bytes of the block that are left
  eos,      \* the block is the last one
  state, total, len, frag, cr, done,   \* chunked_info
  out,      \* body_buffer, nothing consumed
  verdict   \* what the last call returned; "none" inside a call

info == <<state, total, len, frag, cr, done>>
vars == <<message, dechunk, pos, avail, eos, state, total, len, frag, cr, done, out, verdict>>

-----------------------------------------------------------------------------
(* What the server means by a message, and how it writes it down.          *)

CRLF == <<"cr", "lf">>
Chunk(c) == c.size \o c.ext \o CRLF \o c.data \o CRLF
Zero     == <<Digits[1]>>
Body     == FlattenSeq([i \in DOMAIN message |-> message[i].data])
Chunks   == FlattenSeq([i \in DOMAIN message |-> Chunk(message[i])])
Stream   == Chunks \o Zero \o CRLF \o CRLF
Extended == \E i \in DOMAIN message : message[i].ext # <<>>

Ahead == SubSeq(Stream, pos + 1, pos + avail)

-----------------------------------------------------------------------------
TypeOK ==
  /\ message \in Messages /\ dechunk \in Modes
  /\ pos \in 0 .. Len(Stream) /\ avail \in 0 .. (Len(Stream) - pos)
  /\ eos \in BOOLEAN
  /\ state \in {"LENGTH", "RETURN", "DATA", "RETURN_END", "DATA_DONE"}
  /\ total \in Nat /\ len \in 0 .. total
  /\ frag \in Seq(Digit) /\ Len(frag) <= MaxDigits
  /\ cr \in BOOLEAN /\ done \in BOOLEAN
  /\ verdict \in {"none", "READY", "COMPLETE", "ERROR", "crash"}

(* chunked_info_init.                                                      *)
Init ==
  /\ message \in Messages /\ dechunk \in Modes
  /\ pos = 0 /\ avail = 0 /\ eos = FALSE
  /\ state = "LENGTH" /\ total = 0 /\ len = 0 /\ frag = <<>>
  /\ cr = FALSE /\ done = FALSE
  /\ out = <<>>
  /\ verdict = "READY"

(* A block of n bytes is decoded, the last one if eos.                     *)
Block(n) ==
  /\ verdict = "READY" /\ n <= Len(Stream) - pos
  /\ avail' = n
  /\ eos' \in BOOLEAN
  /\ verdict' = "none"
  /\ UNCHANGED <<message, dechunk, pos, info, out>>

(* n bytes are consumed; the client is given the data, and the framing as  *)
(* well unless it is to be removed.                                        *)
Consume(n, given) ==
  /\ pos' = pos + n
  /\ avail' = avail - n
  /\ out' = IF given THEN out \o SubSeq(Ahead, 1, n) ELSE out

Deliver(n) == Consume(n, TRUE)
Skip(n)    == Consume(n, ~dechunk)

In(s) == verdict = "none" /\ avail > 0 /\ state = s

(* A call ends without having consumed the block.                          *)
Stop(v) ==
  /\ verdict' = v
  /\ UNCHANGED <<message, dechunk, pos, avail, eos, info, out>>

-----------------------------------------------------------------------------
(* chunked_extract_frag_len: the digits at the head of the block are put   *)
(* in frag_buf, what follows them ends the number.                         *)
LeadingDigits(s) == CHOOSE n \in 0 .. Len(s) :
  /\ \A i \in 1 .. n : s[i] \in Digit
  /\ n < Len(s) => s[n + 1] \notin Digit

WaitLength ==
  LET n == LeadingDigits(Ahead)
      f == frag \o SubSeq(Ahead, 1, n)
  IN
  /\ In("LENGTH")
  /\ IF Len(f) > MaxDigits \/ (n < avail /\ f = <<>>)
     THEN Stop("ERROR")
     ELSE /\ Skip(n)
          /\ frag' = f
          /\ IF n = avail
             THEN UNCHANGED <<state, total, len, cr>>
             ELSE /\ total' = Number(f)
                  /\ len' = 0
                  /\ IF Number(f) = 0
                     THEN state' = "DATA_DONE" /\ UNCHANGED cr
                     ELSE state' = "RETURN" /\ cr' = FALSE
          /\ UNCHANGED <<message, dechunk, eos, done, verdict>>

(* chunked_extract_return.  SearchLF(s, p): from p on, the place after the *)
(* first LF that follows a CR where memchr stops; Len(s) + 1 if the last   *)
(* character is such a CR; 0 if memchr returns NULL.                       *)
SearchLF(s, p) ==
  LET search[q \in 1 .. Len(s) + 2] ==
        LET CRs == {i \in q .. Len(s) : s[i] = "cr"}
            i   == CHOOSE j \in CRs : \A k \in CRs : j <= k
        IN  IF CRs = {} THEN 0
            ELSE IF i = Len(s) THEN Len(s) + 1
            ELSE IF s[i + 1] = "lf" THEN i + 1
            ELSE search[i + 2]
  IN  search[p]

(* Mutant: a CR at the end of one block is forgotten in the next.          *)
FindForgetful(s) == SearchLF(s, 1)

Find(s) ==
  IF ~cr THEN SearchLF(s, 1) ELSE IF s[1] = "lf" THEN 1 ELSE SearchLF(s, 2)

(* After memchr returned NULL the loop reads through it and the process    *)
(* stops.                                                                  *)
ExtractReturn(next) ==
  LET n == Find(Ahead) IN
  IF n = 0 THEN Stop("crash")
  ELSE /\ Skip(IF n > avail THEN avail ELSE n)
       /\ cr' = TRUE
       /\ state' = IF n > avail THEN state ELSE next
       /\ UNCHANGED <<message, dechunk, eos, total, done, verdict>>

WaitReturn ==
  /\ In("RETURN")
  /\ ExtractReturn("DATA")
  /\ UNCHANGED frag
  /\ len' = IF state' = "DATA" THEN 0 ELSE len

WaitReturnEnd ==
  /\ In("RETURN_END")
  /\ ExtractReturn("LENGTH")
  /\ frag' = IF state' = "LENGTH" THEN <<>> ELSE frag
  /\ UNCHANGED len

WaitData ==
  /\ In("DATA")
  /\ IF len + avail <= total
     THEN Deliver(avail) /\ len' = len + avail /\ UNCHANGED <<state, cr>>
     ELSE /\ Deliver(total - len)
          /\ len' = total
          /\ cr' = FALSE
          /\ state' = "RETURN_END"
  /\ UNCHANGED <<message, dechunk, eos, total, frag, done, verdict>>

(* Whatever follows the last length is dropped.                            *)
DataDone ==
  /\ In("DATA_DONE")
  /\ Skip(avail)
  /\ done' = TRUE
  /\ UNCHANGED <<message, dechunk, eos, state, total, len, frag, cr, verdict>>

(* Mutant: the last length alone ends the body ...                         *)
VerdictEager ==
  IF state = "DATA_DONE" \/ eos THEN "COMPLETE" ELSE "READY"

(* The block is consumed, or the body at its end.                          *)
Verdict == IF done THEN "COMPLETE" ELSE IF eos THEN "ERROR" ELSE "READY"

BlockEnd ==
  /\ verdict = "none" /\ avail = 0
  /\ Stop(Verdict)

Decode == WaitLength \/ WaitReturn \/ WaitData \/ WaitReturnEnd \/ DataDone \/ BlockEnd

Next == Decode \/ \E n \in 0 .. Len(Stream) - pos : Block(n)

Spec == Init /\ [][Next]_vars

-----------------------------------------------------------------------------
(* Properties.                                                             *)

(* However the stream is cut, the client has been given what the bytes     *)
(* consumed so far mean: with dechunk_enabled the data of the chunks, all  *)
(* of it at the end, otherwise the stream itself.                          *)
OutputRight ==
  IF dechunk
  THEN IsPrefix(out, Body) /\ (verdict = "COMPLETE" => out = Body)
  ELSE out = SubSeq(Stream, 1, pos)

(* The verdict depends on how far the stream came and not on how it was    *)
(* cut: COMPLETE if and only if a byte after the last length was there, an *)
(* ERROR only if the connection ended before.  The crash needs a chunk     *)
(* extension.                                                              *)
EndOfBody == Len(Chunks) + 1

VerdictRight ==
  /\ verdict = "COMPLETE" <=> pos > EndOfBody /\ verdict # "none"
  /\ verdict = "ERROR" => eos /\ pos <= EndOfBody
  /\ verdict = "crash" => Extended

-----------------------------------------------------------------------------
(* The inductive invariant.                                                *)

(* Where each part of a concatenation ends: at its offset and that of the  *)
(* one before, from 0 on.                                                  *)
Offsets(parts) ==
  LET end[k \in 0 .. Len(parts)] == IF k = 0 THEN 0 ELSE end[k - 1] + Len(parts[k]) IN end

At(k)     == Offsets([i \in DOMAIN message |-> Chunk(message[i])])[k]
BodyAt(k) == Offsets([i \in DOMAIN message |-> message[i].data])[k]

(* What the client has been given after n bytes of the body.               *)
Given(n) == out = IF dechunk THEN SubSeq(Body, 1, n) ELSE SubSeq(Stream, 1, pos)

(* The decoder is in the chunk that follows the first k, or in the last    *)
(* length if there is none.                                                *)
InLength(k) ==
  LET s == IF k < Len(message) THEN message[k + 1].size ELSE Zero IN
  /\ state = "LENGTH" /\ ~done
  /\ Len(frag) <= Len(s) /\ frag = SubSeq(s, 1, Len(frag))
  /\ pos = At(k) + Len(frag)
  /\ Given(BodyAt(k))

InChunk(k) ==
  LET c == message[k + 1]
      s == At(k) + Len(c.size)
      d == s + Len(c.ext) + 2
  IN
  /\ k < Len(message) /\ ~done /\ total = Len(c.data)
  /\ \/ /\ state = "RETURN"
        /\ pos = IF cr THEN s + Len(c.ext) + 1 ELSE s
        /\ Given(BodyAt(k))
     \/ /\ state = "DATA"
        /\ len \in 0 .. total
        /\ pos = d + len
        /\ Given(BodyAt(k) + len)
     \/ /\ state = "RETURN_END"
        /\ pos = d + total + (IF cr THEN 1 ELSE 0)
        /\ Given(BodyAt(k + 1))

Over ==
  /\ state = "DATA_DONE"
  /\ pos >= EndOfBody /\ (done <=> pos > EndOfBody)
  /\ Given(Len(Body))

ChunkedInv ==
  /\ TypeOK
  /\ (\E k \in 0 .. Len(message) : InLength(k) \/ InChunk(k)) \/ Over
  /\ verdict = "COMPLETE" => done
  /\ done => verdict \in {"none", "COMPLETE"}
  /\ verdict = "ERROR" => eos
  /\ verdict = "crash" => Extended
=============================================================================
