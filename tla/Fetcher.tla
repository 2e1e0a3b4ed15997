------------------------------- MODULE Fetcher -------------------------------
(***************************************************************************)
(* The HTTP client of lib/ts_fetcher.c: one request that ts.fetch makes,   *)
(* its response and the client that receives it.                           *)
(*                                                                         *)
(* The network, the timer and the client all run under one mutex, so that  *)
(* a handler is interleaved with nothing but the client it calls back: a   *)
(* callback may consume body bytes, or destroy the fetcher under the       *)
(* handler that is still on the stack.  Bytes are counted, not stored, in  *)
(* any unit; the chunked framing is reduced to what its decoder concludes. *)
(* No caller sets the flags IGNORE_HEADER_DONE, IGNORE_BODY_READY and      *)
(* USE_NEW_LOCK, which are left out.                                       *)
(***************************************************************************)
EXTENDS Integers

CONSTANTS
  Low,      \* TS_MARK_FETCH_BODY_LOW_WATER
  RespLow,  \* TS_MARK_FETCH_RESP_LOW_WATER
  High,     \* TS_MARK_FETCH_BODY_HIGH_WATER
  MaxSent,  \* bound: body bytes the server sends
  MaxPost   \* bound: body bytes of the request

ASSUME FetcherAssumption ==
  /\ Low \in Nat \ {0} /\ RespLow \in Nat \ {0} /\ High \in Nat
  /\ Low <= High
  /\ MaxSent \in Nat /\ MaxPost \in Nat

VARIABLES
  request,   \* its method, its body and the length its header announces
  taken,     \* bytes of it that the connection has taken
  wvio,      \* write_vio: "on" if it will take more, "off" until reenabled
  server,    \* the response: its framing, length and whether it has no body
  sent,      \* body bytes the server has sent so far
  vio,       \* read_vio: "on" if it will call back, "off" until reenabled
  resp,      \* bytes in resp_buffer
  body,      \* bytes in body_buffer
  got,       \* bytes ever moved to body_buffer; resp_already where it counts
  header,    \* header_done
  stopped,   \* the client was told the end
  deleted,   \* the client has destroyed the fetcher
  freed,     \* ts_http_fetcher_release was called
  ref,       \* callbacks under way
  action,    \* a scheduled event is under way
  pc,        \* where the handler is: "idle" if none runs
  event,     \* the event being handled: "ready", "eos" or "immediate"
  result     \* what the client is, or was last, called back with

reqVars == <<request, taken, wvio>>
vars == <<reqVars, server, sent, vio, resp, body, got, header, stopped, deleted, freed,
          ref, action, pc, event, result>>

(* POST and PUT carry a body.  The announced length is that of the body,   *)
(* or what the script has written into its table of headers.               *)
Methods  == {"carrying", "other"}
Requests == [method : Methods, body : 0 .. MaxPost, length : 0 .. MaxPost]
Framings == {"length", "chunked", "close"}
Servers  == [framing : Framings, length : 0 .. MaxSent, bodyless : BOOLEAN]
Terminal == {"COMPLETE", "ERROR"}
Results  == {"none", "HEADER_DONE", "READY"} \cup Terminal

TypeOK ==
  /\ request \in Requests /\ taken \in Nat /\ wvio \in {"on", "off"}
  /\ server \in Servers
  /\ sent \in 0 .. MaxSent
  /\ vio \in {"on", "off"}
  /\ resp \in Nat /\ body \in Nat /\ got \in Nat
  /\ header \in BOOLEAN /\ stopped \in BOOLEAN
  /\ deleted \in BOOLEAN /\ freed \in BOOLEAN
  /\ ref \in Nat
  /\ action \in BOOLEAN
  /\ pc \in {"idle", "read", "filter", "inCall"}
  /\ event \in {"ready", "eos", "immediate"}
  /\ result \in Results

(* After ts_http_fetcher_launch, and after its body, if any, was appended. *)
Init ==
  /\ request \in Requests /\ taken = 0 /\ wvio = "on"
  /\ server \in Servers
  /\ sent = 0
  /\ vio = "on"
  /\ resp = 0 /\ body = 0 /\ got = 0
  /\ header = FALSE /\ stopped = FALSE /\ deleted = FALSE /\ freed = FALSE
  /\ ref = 0
  /\ action = FALSE
  /\ pc = "idle"
  /\ event = "ready"
  /\ result = "none"

Least(a, b) == IF a < b THEN a ELSE b

-----------------------------------------------------------------------------
(* The request.                                                            *)

(* Bytes of the request line and the headers, in any unit.                 *)
HeadLen == 1

(* What the write VIO is to take, and what there is in req_buffer.         *)
Limit  == HeadLen + (IF request.method = "carrying" THEN request.length ELSE 0)
Queued == HeadLen + request.body - taken

(* The connection takes n bytes and calls back: it is done, or asks for    *)
(* more and is reenabled if there is any.                                  *)
Send(n) ==
  /\ pc = "idle" /\ ~freed /\ wvio = "on"
  /\ n <= Queued /\ taken + n <= Limit
  /\ taken' = taken + n
  /\ wvio' = IF taken' < Limit /\ n < Queued THEN "on" ELSE "off"
  /\ UNCHANGED <<request, server, sent, vio, resp, body, got, header, stopped, deleted,
                 freed, ref, action, pc, event, result>>

-----------------------------------------------------------------------------
(* Mutant: the client is called although it was told the end.              *)
CallBackAgain(r) ==
  IF r = "QUIET"
  THEN pc' = "idle" /\ UNCHANGED <<stopped, ref, result>>
  ELSE /\ stopped' = (r \in Terminal)
       /\ ref' = ref + 1
       /\ result' = r
       /\ pc' = "inCall"

(* ts_http_fetcher_callback_sm: the client is called unless there is       *)
(* nothing to say or it has been told the end.                             *)
CallBack(r) ==
  IF r = "QUIET" \/ stopped
  THEN pc' = "idle" /\ UNCHANGED <<stopped, ref, result>>
  ELSE /\ stopped' = (r \in Terminal)
       /\ ref' = ref + 1
       /\ result' = r
       /\ pc' = "inCall"

(* The bytes to come, as far as the framing tells.                         *)
Whole == server.length

(* Mutant: all there are, whether they fit or not.                         *)
RoomUnbounded(code) == resp

(* ts_http_fetcher_filter_body moves bytes from resp_buffer to body_buffer *)
(* as far as the water marks and the framing allow.  What the chunked      *)
(* decoder makes of malformed data is an ERROR at any time.                *)
Room(code) == IF code = "COMPLETE" THEN resp ELSE Least(resp, High - body)

(* Mutant: the water mark clips the rest of a response that has ended.     *)
TakeClipped(need) == Least(need, Least(Whole - got, High - body))

(* ts_http_fetcher_verify_cl, _verify_chunked, _transfer.                  *)
Take(need) == IF server.framing = "close" THEN need ELSE Least(need, Whole - got)

(* Mutant: the end of the connection is the end of the response.           *)
VerdictEos(code, need) ==
  IF server.framing # "close" /\ got + need >= Whole THEN "COMPLETE" ELSE code

Verdict(code, need) ==
  IF server.framing = "close" THEN code
  ELSE IF got + need >= Whole THEN "COMPLETE"
  ELSE IF code = "COMPLETE" THEN "ERROR"
  ELSE "READY"

Filter(code) ==
  IF code = "READY" /\ body >= High
  THEN /\ action' = FALSE
       /\ CallBack("QUIET")
       /\ UNCHANGED <<vio, resp, body, got>>
  ELSE LET need == Room(code) IN
       /\ action' = FALSE
       /\ resp' = resp - need
       /\ vio' = IF code = "READY" /\ resp - need < RespLow THEN "on" ELSE vio
       /\ body' = body + Take(need)
       /\ got' = got + Take(need)
       /\ \/ LET v == Verdict(code, need) IN
             CallBack(IF v = "READY" /\ need = 0 THEN "QUIET" ELSE v)
          \/ server.framing = "chunked" /\ CallBack("ERROR")

-----------------------------------------------------------------------------
(* The events.  A closed connection and a cancelled action deliver none.   *)

(* The server sends the header or n bytes of the body.  A read event       *)
(* disarms the VIO until it is reenabled.                                  *)
Arrive(n) ==
  /\ pc = "idle" /\ ~freed /\ vio = "on"
  /\ sent + n <= MaxSent
  /\ sent' = sent + n
  /\ resp' = resp + n
  /\ vio' = "off"
  /\ event' = "ready"
  /\ pc' = IF header THEN "filter" ELSE "read"
  /\ UNCHANGED <<reqVars, server, body, got, header, stopped, deleted, freed, ref, action, result>>

(* It closes, maybe early.                                                 *)
EndOfStream ==
  /\ pc = "idle" /\ ~freed /\ vio = "on"
  /\ vio' = "off"
  /\ event' = "eos"
  /\ pc' = IF header THEN "filter" ELSE "read"
  /\ UNCHANGED <<reqVars, server, sent, resp, body, got, header, stopped, deleted, freed,
                 ref, action, result>>

(* An error of the connection, from the read or the write side.            *)
Fail ==
  /\ pc = "idle" /\ ~freed
  /\ CallBack("ERROR")
  /\ UNCHANGED <<reqVars, server, sent, vio, resp, body, got, header, deleted, freed, action, event>>

(* The event that ts_http_fetcher_consume_resp_body scheduled.             *)
Immediate ==
  /\ pc = "idle" /\ action
  /\ event' = "immediate"
  /\ Filter("READY")
  /\ UNCHANGED <<reqVars, server, sent, header, deleted, freed>>

-----------------------------------------------------------------------------
(* ts_http_fetcher_process_read, up to the header ...                      *)
HeaderDone ==
  /\ pc = "read"
  /\ header' = TRUE
  /\ IF stopped THEN pc' = "filter" /\ UNCHANGED <<stopped, ref, result>>
                ELSE CallBack("HEADER_DONE")
  /\ UNCHANGED <<reqVars, server, sent, vio, resp, body, got, deleted, freed, action, event>>

HeaderBad ==
  /\ pc = "read"
  /\ CallBack("ERROR")
  /\ UNCHANGED <<reqVars, server, sent, vio, resp, body, got, header, deleted, freed, action, event>>

(* The header is not complete: no byte is of the body yet.                 *)
HeaderMore ==
  /\ pc = "read" /\ event = "ready" /\ resp = 0
  /\ vio' = "on"
  /\ pc' = "idle"
  /\ UNCHANGED <<reqVars, server, sent, resp, body, got, header, stopped, deleted, freed,
                 ref, action, event, result>>

(* ... and from there, once the client has seen HEADER_DONE.               *)
ReadBody ==
  /\ pc = "filter"
  /\ Filter(IF event = "eos" \/ server.bodyless THEN "COMPLETE" ELSE "READY")
  /\ UNCHANGED <<reqVars, server, sent, header, deleted, freed, event>>

-----------------------------------------------------------------------------
(* What the client calls, inside a callback or outside of any handler.     *)

(* Mutant: the test for an event under way is inverted.                    *)
SchedulesTwice == ~deleted /\ action

(* ts_http_fetcher_consume_resp_body.                                      *)
Schedules == ~deleted /\ ~action

Consume(n) ==
  /\ pc \in {"idle", "inCall"} /\ ~freed
  /\ header
  /\ n <= body
  /\ body' = body - n
  /\ action' = (action \/ (Schedules /\ body - n < Low))
  /\ UNCHANGED <<reqVars, server, sent, vio, resp, got, header, stopped, deleted, freed,
                 ref, pc, event, result>>

(* Mutant: destroy does not look at the callbacks under way.               *)
ReleaseAnyway == TRUE

(* ts_http_fetcher_destroy.                                                *)
ReleaseNow == ref = 0

Destroy ==
  /\ pc \in {"idle", "inCall"} /\ ~deleted
  /\ action' = FALSE
  /\ deleted' = TRUE
  /\ freed' = (freed \/ ReleaseNow)
  /\ UNCHANGED <<reqVars, server, sent, vio, resp, body, got, header, stopped, ref, pc,
                 event, result>>

(* The callback returns.  A fetcher destroyed meanwhile is released and    *)
(* its handler returns at once; after HEADER_DONE the handler goes on.     *)
GoesOn == ~deleted /\ result = "HEADER_DONE"

Return ==
  /\ pc = "inCall"
  /\ ref' = ref - 1
  /\ freed' = (freed \/ (deleted /\ ref = 1))
  /\ pc' = IF GoesOn THEN "filter" ELSE "idle"
  /\ UNCHANGED <<reqVars, server, sent, vio, resp, body, got, header, stopped, deleted,
                 action, event, result>>

-----------------------------------------------------------------------------
Sends   == \E n \in 1 .. HeadLen + MaxPost : Send(n)
Network == EndOfStream \/ Sends \/ \E n \in 0 .. MaxSent : Arrive(n)
Handler == Immediate \/ HeaderDone \/ HeaderBad \/ HeaderMore \/ ReadBody \/ Return
Drains  == \E n \in 1 .. body : Consume(n)

Next == Network \/ Fail \/ Handler \/ Drains \/ Destroy

(* Handlers run on, a connection takes what it is given, a server that has *)
(* received what was announced to it ends its response sooner or later,    *)
(* and a client takes what it is offered (ts_lua_fetch_handler takes all). *)
Received == taken >= HeadLen + request.length

Fairness ==
  /\ WF_vars(Handler) /\ WF_vars(Drains)
  /\ SF_vars(Sends) /\ SF_vars(Received /\ EndOfStream)

Spec == Init /\ [][Next]_vars
FairSpec == Spec /\ Fairness

-----------------------------------------------------------------------------
(* Properties.                                                             *)

(* A destroyed fetcher is released exactly when no handler of it is on the *)
(* stack, and then nothing is under way that would touch it again.         *)
ReleasedSafely ==
  /\ freed => deleted /\ pc = "idle" /\ ~action
  /\ deleted /\ pc = "idle" => freed

(* COMPLETE means that the client was given the whole body, whatever was   *)
(* held back at the water marks and however the connection ended.          *)
CompleteIsWhole ==
  result = "COMPLETE" /\ server.framing # "close" => got = Whole

(* Until the end of the body nothing the server sent is lost between the   *)
(* buffers.                                                                *)
NothingLost ==
  server.framing = "close" \/ got < Whole => sent = resp + got

(* A slow client is never given more than the high water mark, but for the *)
(* rest of a response that has ended.                                      *)
BodyBounded == body > High => stopped

(* The parts of the inductive invariant: callbacks do not nest, a handler  *)
(* under way and a scheduled event belong to a fetcher that is not         *)
(* destroyed, and the body never outgrows its length.                      *)
CallsFlat  == ref = (IF pc = "inCall" THEN 1 ELSE 0)
Undeleted  == pc \in {"read", "filter"} \/ action => ~deleted
BodyFits   == server.framing # "close" => got <= Whole
IInv == /\ TypeOK /\ CallsFlat /\ Undeleted /\ BodyFits
        /\ ReleasedSafely /\ CompleteIsWhole /\ NothingLost /\ BodyBounded

(* The client hears nothing after the end or after it destroyed the        *)
(* fetcher.                                                                *)
NoCallAfterEnd == [][ref' > ref => ~stopped /\ ~deleted]_vars

(* Nothing stalls: the client is told the end of the response, unless it   *)
(* gives up, if the request announces no more than it carries.  It does    *)
(* not if the script announces more than its body, and for any body of     *)
(* another method than POST and PUT.                                       *)
Honest == request.length <= (IF request.method = "carrying" THEN request.body ELSE 0)

EndIsTold == Honest => <>(stopped \/ deleted)
=============================================================================
