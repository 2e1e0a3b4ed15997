--------------------------- MODULE Fetcher_proofs ---------------------------
(***************************************************************************)
(* Theorems about Fetcher, for every setting of the water marks and every  *)
(* length of the response, and about FetchMulti, which makes the requests, *)
(* for any number of calls and items.                                      *)
(***************************************************************************)
EXTENDS Fetcher, FetchMulti, FiniteSetTheorems, TLAPS

USE FetcherAssumption, FetchAssumption DEF FetcherAssumption, FetchAssumption, reqVars

(* What filter_body does to the byte counts, whatever it calls back with.  *)
LEMMA FilterBytes ==
  ASSUME IInv, NEW code \in {"READY", "COMPLETE"}, Filter(code)
  PROVE  /\ resp' \in Nat /\ body' \in Nat /\ got' \in Nat
         /\ vio' \in {"on", "off"}
         /\ action' = FALSE
         /\ got <= got'
         /\ server.framing # "close" => got' <= Whole
         /\ server.framing = "close" \/ got' < Whole => resp' + got' = resp + got
         /\ code = "READY" /\ body <= High => body' <= High
<1> USE DEF IInv, TypeOK, BodyFits, Servers, Whole
<1>1. CASE code = "READY" /\ body >= High
  BY <1>1 DEF Filter
<1>2. CASE ~(code = "READY" /\ body >= High)
  <2> DEFINE need == Room(code)
  <2>1. need \in Nat /\ need <= resp /\ (code = "READY" => body + need <= High)
    BY <1>2 DEF Room, Least
  <2>2. server.length \in Nat
    OBVIOUS
  <2>3. /\ Take(need) \in Nat
        /\ Take(need) <= need
        /\ server.framing # "close" => got + Take(need) <= Whole
        /\ server.framing = "close" \/ got + Take(need) < Whole => Take(need) = need
    BY <2>1, <2>2 DEF Take, Least
  <2>4. /\ resp' = resp - need /\ body' = body + Take(need) /\ got' = got + Take(need)
        /\ action' = FALSE
        /\ vio' \in {"on", "off"}
    BY <1>2 DEF Filter
  <2> HIDE DEF need
  <2> QED
    BY <2>1, <2>2, <2>3, <2>4, <1>2
<1> QED
  BY <1>1, <1>2

(* What the client hears of it.                                            *)
LEMMA FilterCalls ==
  ASSUME IInv, NEW code \in {"READY", "COMPLETE"}, Filter(code)
  PROVE  \E r \in {"QUIET", "READY", "COMPLETE", "ERROR"} :
           /\ CallBack(r)
           /\ code = "COMPLETE" => r \in Terminal
           /\ r = "COMPLETE" /\ server.framing # "close" => got' = Whole
<1> USE DEF IInv, TypeOK, BodyFits, Servers, Whole, Terminal
<1>1. CASE code = "READY" /\ body >= High
  <2>1. CallBack("QUIET")
    BY <1>1 DEF Filter
  <2> QED
    BY <2>1, <1>1
<1>2. CASE ~(code = "READY" /\ body >= High)
  <2> DEFINE need == Room(code)
             v == Verdict(code, need)
             r == IF v = "READY" /\ need = 0 THEN "QUIET" ELSE v
  <2>1. need \in Nat
    BY <1>2 DEF Room, Least
  <2>2. v \in {"READY", "COMPLETE", "ERROR"} /\ (code = "COMPLETE" => v \in Terminal)
    BY DEF Verdict
  <2>3. v = "COMPLETE" /\ server.framing # "close" => got + need >= Whole
    BY DEF Verdict
  <2>4. got' = got + Take(need)
    BY <1>2 DEF Filter
  <2>5. v = "COMPLETE" /\ server.framing # "close" => got' = Whole
    <3>1. server.length \in Nat
      OBVIOUS
    <3> HIDE DEF need, v
    <3> QED
      BY <2>1, <2>3, <2>4, <3>1 DEF Take, Least
  <2>6. CASE CallBack(r)
    <3>1. r \in {"QUIET", "READY", "COMPLETE", "ERROR"}
      BY <2>2
    <3>2. code = "COMPLETE" => r \in Terminal
      BY <2>2
    <3>3. r = "COMPLETE" => v = "COMPLETE"
      BY <2>2
    <3> QED
      BY <2>5, <2>6, <3>1, <3>2, <3>3
  <2>7. CASE CallBack("ERROR")
    BY <2>7
  <2>8. CallBack(r) \/ CallBack("ERROR")
    BY <1>2 DEF Filter
  <2> QED
    BY <2>6, <2>7, <2>8
<1> QED
  BY <1>1, <1>2

LEMMA InitInv == Init => IInv
<1> SUFFICES ASSUME Init PROVE IInv
  OBVIOUS
<1> USE DEF Init, Servers, Framings
<1>1. TypeOK
  <2>1. 0 \in 0 .. MaxSent /\ 0 \in Nat
    OBVIOUS
  <2> QED
    BY <2>1 DEF TypeOK, Results
<1>2. server.length \in Nat
  OBVIOUS
<1>3. BodyFits /\ CallsFlat /\ Undeleted /\ ReleasedSafely
  BY <1>2 DEF BodyFits, CallsFlat, Undeleted, ReleasedSafely, Whole
<1>4. CompleteIsWhole /\ NothingLost /\ BodyBounded
  BY DEF CompleteIsWhole, NothingLost, BodyBounded
<1> QED
  BY <1>1, <1>3, <1>4 DEF IInv

(* A step that moves no bytes keeps what is said of them, if it does not   *)
(* tell the client that the body is complete.                              *)
LEMMA BytesKept ==
  ASSUME IInv, UNCHANGED <<server, resp, got, sent>>, body' \in Nat, body' <= body,
         stopped => stopped', result' \in {result, "HEADER_DONE", "ERROR"}
  PROVE  BodyFits' /\ CompleteIsWhole' /\ NothingLost' /\ BodyBounded'
<1> USE DEF IInv, TypeOK
<1>1. BodyFits' /\ NothingLost'
  BY DEF BodyFits, NothingLost, Whole
<1>2. CompleteIsWhole'
  BY DEF CompleteIsWhole, Whole
<1>3. BodyBounded'
  <2>1. PICK b \in Nat : b = body'
    OBVIOUS
  <2>2. b <= body
    BY <2>1
  <2>3. b > High => body > High
    BY <2>2
  <2> QED
    BY <2>1, <2>3 DEF BodyBounded
<1> QED
  BY <1>1, <1>2, <1>3

(* A filter step, from a handler or from the scheduled event.              *)
LEMMA FilterInv ==
  ASSUME IInv, NEW code \in {"READY", "COMPLETE"}, Filter(code),
         ~deleted, pc \in {"idle", "filter"}, event' \in {"ready", "eos", "immediate"},
         UNCHANGED <<reqVars, server, sent, header, deleted, freed>>
  PROVE  IInv'
<1>1. /\ resp' \in Nat /\ body' \in Nat /\ got' \in Nat
      /\ vio' \in {"on", "off"}
      /\ action' = FALSE
      /\ got <= got'
      /\ server.framing # "close" => got' <= Whole
      /\ server.framing = "close" \/ got' < Whole => resp' + got' = resp + got
      /\ code = "READY" /\ body <= High => body' <= High
  BY FilterBytes
<1>2. PICK r \in {"QUIET", "READY", "COMPLETE", "ERROR"} :
        /\ CallBack(r)
        /\ code = "COMPLETE" => r \in Terminal
        /\ r = "COMPLETE" /\ server.framing # "close" => got' = Whole
  BY FilterCalls
<1>3. TypeOK'
  <2>1. /\ stopped' \in BOOLEAN /\ ref' \in Nat /\ result' \in Results
        /\ pc' \in {"idle", "inCall"}
    <3>1. stopped \in BOOLEAN /\ ref \in Nat /\ result \in Results
      BY DEF IInv, TypeOK
    <3>2. r = "QUIET" \/ r \in Results
      BY DEF Results, Terminal
    <3>3. CASE r = "QUIET" \/ stopped
      BY <1>2, <3>1, <3>3 DEF CallBack
    <3>4. CASE ~(r = "QUIET" \/ stopped)
      <4>1. stopped' = (r \in Terminal) /\ ref' = ref + 1 /\ result' = r /\ pc' = "inCall"
        BY <1>2, <3>4 DEF CallBack
      <4>2. stopped' \in BOOLEAN
        BY <4>1
      <4> QED
        BY <4>1, <4>2, <3>1, <3>2, <3>4
    <3> QED
      BY <3>3, <3>4
  <2> QED
    BY <1>1, <2>1 DEF IInv, TypeOK, Servers
<1>4. CallsFlat' /\ Undeleted' /\ ReleasedSafely'
  BY <1>1, <1>2 DEF IInv, TypeOK, CallBack, CallsFlat, Undeleted, ReleasedSafely
<1>5. BodyFits'
  BY <1>1 DEF BodyFits, Whole
<1>w. got \in Nat /\ server.length \in Nat
  BY DEF IInv, TypeOK, Servers
<1>6. CompleteIsWhole'
  <2>1. CASE result' = result
    <3>1. result = "COMPLETE" /\ server.framing # "close" => got = Whole
      BY DEF IInv, CompleteIsWhole
    <3>2. PICK g \in Nat : g = got'
      BY <1>1
    <3>3. got <= g /\ (server.framing # "close" => g <= Whole)
      BY <1>1, <3>2
    <3>4. result = "COMPLETE" /\ server.framing # "close" => g = Whole
      BY <3>1, <3>3, <1>w DEF Whole
    <3> QED
      BY <2>1, <3>2, <3>4 DEF CompleteIsWhole, Whole
  <2>2. CASE result' = r
    BY <1>2, <2>2 DEF CompleteIsWhole, Whole
  <2> QED
    BY <1>2, <2>1, <2>2 DEF CallBack
<1>7. NothingLost'
  <2>1. ASSUME server.framing = "close" \/ got' < Whole PROVE sent = resp' + got'
    <3>1. server.framing = "close" \/ got < Whole
      <4>1. PICK g \in Nat : g = got'
        BY <1>1
      <4>2. got <= g /\ (server.framing = "close" \/ g < Whole)
        BY <1>1, <2>1, <4>1
      <4> QED
        BY <4>2, <1>w DEF Whole
    <3> QED
      BY <3>1, <1>1, <2>1 DEF IInv, NothingLost
  <2> QED
    BY <2>1 DEF NothingLost, Whole
<1>8. BodyBounded'
  <2>1. CASE stopped
    BY <1>2, <2>1 DEF CallBack, BodyBounded
  <2>2. CASE ~stopped /\ code = "READY"
    <3>1. body <= High /\ body' \in Nat
      BY <1>1, <2>2 DEF BodyBounded, IInv, TypeOK
    <3>2. PICK b \in Nat : b = body'
      BY <3>1
    <3>3. b <= High
      BY <1>1, <2>2, <3>1, <3>2
    <3>4. ~(b > High)
      BY <3>3
    <3> QED
      BY <3>2, <3>4 DEF BodyBounded
  <2>3. CASE ~stopped /\ code = "COMPLETE"
    BY <1>2, <2>3 DEF CallBack, BodyBounded, Terminal
  <2> QED
    BY <2>1, <2>2, <2>3 DEF IInv, TypeOK
<1> QED
  BY <1>3, <1>4, <1>5, <1>6, <1>7, <1>8 DEF IInv

(* A callback that moves no bytes.                                         *)
LEMMA CallInv ==
  ASSUME IInv, ~deleted, pc \in {"idle", "read"},
         NEW r \in {"HEADER_DONE", "ERROR"}, CallBack(r), header' \in BOOLEAN,
         UNCHANGED <<reqVars, server, sent, vio, resp, body, got, deleted, freed, action, event>>
  PROVE  IInv'
<1>1. stopped => stopped'
  BY DEF CallBack
<1>2. BodyFits' /\ CompleteIsWhole' /\ NothingLost' /\ BodyBounded'
  BY <1>1, BytesKept DEF CallBack, IInv, TypeOK
<1>3. TypeOK'
  <2>1. stopped' \in BOOLEAN
    <3>1. CASE stopped
      BY <3>1 DEF CallBack
    <3>2. CASE ~stopped
      <4>1. stopped' = (r \in Terminal)
        BY <3>2 DEF CallBack
      <4> QED
        BY <4>1
    <3> QED
      BY <3>1, <3>2
  <2> QED
    BY <2>1 DEF CallBack, IInv, TypeOK, Results, Terminal
<1>4. CallsFlat' /\ Undeleted' /\ ReleasedSafely'
  BY DEF IInv, TypeOK, CallBack, CallsFlat, Undeleted, ReleasedSafely
<1> QED
  BY <1>2, <1>3, <1>4 DEF IInv

LEMMA NextInv == IInv /\ [Next]_vars => IInv'
<1> SUFFICES ASSUME IInv, [Next]_vars PROVE IInv'
  OBVIOUS
<1>d. /\ pc = "idle" /\ ~freed => ~deleted
      /\ pc \in {"read", "filter"} \/ action => ~deleted
  BY DEF IInv, ReleasedSafely, Undeleted
<1>1. CASE UNCHANGED vars
  BY <1>1 DEF vars, IInv, TypeOK, CallsFlat, Undeleted, BodyFits, ReleasedSafely,
              CompleteIsWhole, NothingLost, BodyBounded, Whole
<1>2. ASSUME NEW n \in 0 .. MaxSent, Arrive(n) PROVE IInv'
  <2> USE <1>2 DEF Arrive, IInv, TypeOK
  <2>1. TypeOK'
    OBVIOUS
  <2>2. NothingLost'
    <3>1. sent = resp + got => sent + n = (resp + n) + got
      OBVIOUS
    <3> QED
      BY <3>1 DEF NothingLost, Whole
  <2>3. BodyFits' /\ CompleteIsWhole' /\ BodyBounded'
    BY DEF BodyFits, CompleteIsWhole, BodyBounded, Whole
  <2>4. CallsFlat' /\ Undeleted' /\ ReleasedSafely'
    BY <1>d DEF CallsFlat, Undeleted, ReleasedSafely
  <2> QED
    BY <2>1, <2>2, <2>3, <2>4
<1>3. CASE EndOfStream
  <2>1. BodyFits' /\ CompleteIsWhole' /\ NothingLost' /\ BodyBounded'
    BY <1>3, BytesKept DEF EndOfStream, IInv, TypeOK
  <2>2. TypeOK' /\ CallsFlat' /\ Undeleted' /\ ReleasedSafely'
    BY <1>3, <1>d DEF EndOfStream, IInv, TypeOK, CallsFlat, Undeleted, ReleasedSafely
  <2> QED
    BY <2>1, <2>2 DEF IInv
<1>4. CASE Fail
  BY <1>4, <1>d, CallInv DEF Fail, IInv, TypeOK
<1>5. CASE Immediate
  BY <1>5, <1>d, FilterInv DEF Immediate
<1>6. CASE HeaderDone
  <2>1. CASE stopped
    <3>1. BodyFits' /\ CompleteIsWhole' /\ NothingLost' /\ BodyBounded'
      BY <1>6, <2>1, BytesKept DEF HeaderDone, IInv, TypeOK
    <3>2. TypeOK' /\ CallsFlat' /\ Undeleted' /\ ReleasedSafely'
      BY <1>6, <2>1, <1>d DEF HeaderDone, IInv, TypeOK, CallsFlat, Undeleted, ReleasedSafely
    <3> QED
      BY <3>1, <3>2 DEF IInv
  <2>2. CASE ~stopped
    BY <1>6, <2>2, <1>d, CallInv DEF HeaderDone
  <2> QED
    BY <2>1, <2>2
<1>7. CASE HeaderBad
  BY <1>7, <1>d, CallInv DEF HeaderBad, IInv, TypeOK
<1>8. CASE HeaderMore
  <2>1. BodyFits' /\ CompleteIsWhole' /\ NothingLost' /\ BodyBounded'
    BY <1>8, BytesKept DEF HeaderMore, IInv, TypeOK
  <2>2. TypeOK' /\ CallsFlat' /\ Undeleted' /\ ReleasedSafely'
    BY <1>8, <1>d DEF HeaderMore, IInv, TypeOK, CallsFlat, Undeleted, ReleasedSafely
  <2> QED
    BY <2>1, <2>2 DEF IInv
<1>9. CASE ReadBody
  <2>1. PICK code \in {"READY", "COMPLETE"} : Filter(code)
    BY <1>9 DEF ReadBody
  <2> QED
    BY <1>9, <2>1, <1>d, FilterInv DEF ReadBody, IInv, TypeOK
<1>10. ASSUME NEW n \in 1 .. body, Consume(n) PROVE IInv'
  <2>1. body' \in Nat /\ body' <= body
    BY <1>10 DEF Consume, IInv, TypeOK
  <2>2. BodyFits' /\ CompleteIsWhole' /\ NothingLost' /\ BodyBounded'
    BY <1>10, <2>1, BytesKept DEF Consume, IInv, TypeOK
  <2>3. action' \in BOOLEAN /\ (action' => ~deleted)
    BY <1>10, <1>d DEF Consume, Schedules, IInv, TypeOK
  <2>4. TypeOK' /\ CallsFlat' /\ Undeleted' /\ ReleasedSafely'
    BY <1>10, <2>1, <2>3 DEF Consume, IInv, TypeOK, CallsFlat, Undeleted, ReleasedSafely
  <2> QED
    BY <2>2, <2>4 DEF IInv
<1>11. CASE Destroy
  <2>1. BodyFits' /\ CompleteIsWhole' /\ NothingLost' /\ BodyBounded'
    BY <1>11, BytesKept DEF Destroy, IInv, TypeOK
  <2>2. freed' \in BOOLEAN /\ (freed' <=> pc = "idle")
    <3>1. ~freed /\ (ref = 0 <=> pc = "idle")
      BY <1>11 DEF Destroy, IInv, CallsFlat, ReleasedSafely
    <3>2. freed' = (ref = 0)
      <4>1. freed' = (freed \/ ref = 0)
        BY <1>11 DEF Destroy, ReleaseNow
      <4>2. freed = FALSE
        BY <3>1 DEF IInv, TypeOK
      <4> QED
        BY <4>1, <4>2
    <3> QED
      BY <3>1, <3>2
  <2>3. TypeOK' /\ CallsFlat' /\ Undeleted' /\ ReleasedSafely'
    BY <1>11, <2>2 DEF Destroy, IInv, TypeOK, CallsFlat, Undeleted, ReleasedSafely
  <2> QED
    BY <2>1, <2>3 DEF IInv
<1>12. CASE Return
  <2>1. BodyFits' /\ CompleteIsWhole' /\ NothingLost' /\ BodyBounded'
    BY <1>12, BytesKept DEF Return, IInv, TypeOK
  <2>2. ref = 1 /\ ~freed
    BY <1>12 DEF Return, IInv, CallsFlat, ReleasedSafely
  <2>3. freed' = deleted /\ ref' = 0
    BY <1>12, <2>2 DEF Return, IInv, TypeOK
  <2>4. TypeOK' /\ CallsFlat' /\ Undeleted' /\ ReleasedSafely'
    BY <1>12, <2>3 DEF Return, GoesOn, IInv, TypeOK, CallsFlat, Undeleted, ReleasedSafely
  <2> QED
    BY <2>1, <2>4 DEF IInv
<1>13. ASSUME NEW n \in 1 .. HeadLen + MaxPost, Send(n) PROVE IInv'
  <2>1. BodyFits' /\ CompleteIsWhole' /\ NothingLost' /\ BodyBounded'
    BY <1>13, BytesKept DEF Send, IInv, TypeOK
  <2>2. n \in Nat /\ taken \in Nat /\ taken' = taken + n
    BY <1>13 DEF Send, HeadLen, IInv, TypeOK
  <2>3. taken' \in Nat /\ wvio' \in {"on", "off"}
    BY <1>13, <2>2 DEF Send
  <2>4. TypeOK' /\ CallsFlat' /\ Undeleted' /\ ReleasedSafely'
    BY <1>13, <2>3, <1>d DEF Send, IInv, TypeOK, CallsFlat, Undeleted, ReleasedSafely
  <2> QED
    BY <2>1, <2>4 DEF IInv
<1> QED
  BY <1>1, <1>2, <1>3, <1>4, <1>5, <1>6, <1>7, <1>8, <1>9, <1>10, <1>11, <1>12, <1>13
     DEF Next, Network, Sends, Handler, Drains

(* The inductive invariant.                                                *)
THEOREM Inductive == Spec => []IInv
  BY InitInv, NextInv, PTL DEF Spec

(* TypeOK is an invariant.                                                 *)
THEOREM TypeCorrect == Spec => []TypeOK
<1>1. IInv => TypeOK
  BY DEF IInv
<1> QED
  BY Inductive, <1>1, PTL

(* Whatever a client does inside a callback, the fetcher is released once  *)
(* its handlers have left it, and nothing touches it afterwards.           *)
THEOREM Released == Spec => []ReleasedSafely
<1>1. IInv => ReleasedSafely
  BY DEF IInv
<1> QED
  BY Inductive, <1>1, PTL

(* For all water marks and lengths: a truncated response is never reported *)
(* as complete, ...                                                        *)
THEOREM WholeOrError == Spec => []CompleteIsWhole
<1>1. IInv => CompleteIsWhole
  BY DEF IInv
<1> QED
  BY Inductive, <1>1, PTL

(* ... what the water mark holds back is never lost, ...                   *)
THEOREM NoneLost == Spec => []NothingLost
<1>1. IInv => NothingLost
  BY DEF IInv
<1> QED
  BY Inductive, <1>1, PTL

(* ... and a slow client is not flooded.                                   *)
THEOREM NotFlooded == Spec => []BodyBounded
<1>1. IInv => BodyBounded
  BY DEF IInv
<1> QED
  BY Inductive, <1>1, PTL

(* No callback after the last one, nor after the fetcher was destroyed.    *)
THEOREM SilentAfterEnd == Spec => NoCallAfterEnd
<1>1. ASSUME IInv, [Next]_vars PROVE [ref' > ref => ~stopped /\ ~deleted]_vars
  <2> SUFFICES ASSUME Next, ref' > ref PROVE ~stopped /\ ~deleted
    BY <1>1
  <2>1. /\ pc = "idle" /\ ~freed => ~deleted
        /\ pc \in {"read", "filter"} \/ action => ~deleted
        /\ ref \in Nat
    BY <1>1 DEF IInv, ReleasedSafely, Undeleted, TypeOK
  <2>2. ASSUME NEW r, CallBack(r) PROVE ~stopped
    BY <2>1, <2>2 DEF CallBack
  <2>3. ASSUME NEW code \in {"READY", "COMPLETE"}, Filter(code) PROVE ~stopped
    BY <1>1, <2>2, <2>3, FilterCalls
  <2>4. CASE Network \/ Drains \/ Destroy \/ HeaderMore \/ Return
    BY <2>1, <2>4 DEF Network, Sends, Send, Arrive, EndOfStream, Drains, Consume, Destroy, HeaderMore, Return
  <2>5. CASE Fail \/ HeaderBad
    BY <2>1, <2>2, <2>5 DEF Fail, HeaderBad
  <2>6. CASE HeaderDone
    BY <2>1, <2>2, <2>6 DEF HeaderDone
  <2>7. CASE Immediate \/ ReadBody
    BY <2>1, <2>3, <2>7 DEF Immediate, ReadBody
  <2> QED
    BY <2>4, <2>5, <2>6, <2>7 DEF Next, Handler
<1> QED
  BY Inductive, <1>1, PTL DEF Spec, NoCallAfterEnd

-----------------------------------------------------------------------------
(* FetchMulti.                                                             *)

(* A set of items is finite and has no more elements than there are items, *)
(* and as many only if it is all of them.                                  *)
LEMMA ItemSets ==
  ASSUME NEW n \in Nat, NEW S \in SUBSET (1 .. n)
  PROVE  /\ IsFiniteSet(S) /\ Cardinality(S) \in Nat
         /\ Cardinality(S) = n => S = 1 .. n
<1>1. IsFiniteSet(1 .. n) /\ Cardinality(1 .. n) = n
  BY FS_Interval
<1>2. IsFiniteSet(S) /\ (Cardinality(1 .. n) = Cardinality(S) => 1 .. n = S)
  BY <1>1, FS_Subset
<1> QED
  BY <1>1, <1>2, FS_CardinalityType

(* One more item.                                                          *)
LEMMA OneMore ==
  ASSUME NEW n \in Nat, NEW S \in SUBSET (1 .. n), NEW i, i \notin S
  PROVE  Cardinality(S \cup {i}) = Cardinality(S) + 1
BY ItemSets, FS_AddElement

LEMMA InitMulti == MultiInit => MultiInv
<1> SUFFICES ASSUME MultiInit PROVE MultiInv
  OBVIOUS
<1>1. MultiTypeOK
  <2>1. total \in [Calls -> 0 .. MaxItems] /\ launched \in [Calls -> 0 .. MaxItems]
    BY DEF MultiInit
  <2>2. /\ ended \in [Calls -> SUBSET Items] /\ clients \in [Calls -> SUBSET Items]
        /\ destroyed \in [Calls -> SUBSET Items]
    BY DEF MultiInit
  <2>3. /\ state \in [Calls -> {"new", "launching", "waiting", "resumed", "freed", "lost"}]
        /\ done \in [Calls -> Nat]
        /\ closed \in BOOLEAN
    BY DEF MultiInit
  <2>4. item \in 0 .. MaxItems
    BY DEF MultiInit
  <2> QED
    BY <2>1, <2>2, <2>3, <2>4 DEF MultiInit, MultiTypeOK
<1>2. Counted
  BY FS_EmptySet DEF MultiInit, Counted, Pending
<1> QED
  BY <1>1, <1>2 DEF MultiInv, MultiInit, Nesting, CallStates, Ended, NoStrayClient

(* The count of a call changes with Over and with the end of a client      *)
(* only.                                                                   *)
LEMMA SameCount ==
  ASSUME Counted, UNCHANGED <<done, ended>>,
         \A c \in Calls : Pending(c)' = Pending(c)
  PROVE  Counted'
BY DEF Counted

LEMMA HookStep == MultiInv /\ Hook => MultiInv'
<1> SUFFICES ASSUME MultiInv, Hook PROVE MultiInv'
  OBVIOUS
<1> USE DEF MultiInv, Hook, callVars
<1>1. MultiTypeOK'
  BY DEF MultiTypeOK
<1>2. Counted'
  BY SameCount DEF Pending
<1>3. Nesting' /\ CallStates' /\ Ended' /\ NoStrayClient'
  BY DEF Nesting, CallStates, Ended, NoStrayClient, OnStack
<1> QED
  BY <1>1, <1>2, <1>3

LEMMA CloseStep == MultiInv /\ Close => MultiInv'
<1> SUFFICES ASSUME MultiInv, Close PROVE MultiInv'
  OBVIOUS
<1> USE DEF MultiInv, Close, Chained, Kept
<1>1. MultiTypeOK'
  BY DEF MultiTypeOK
<1>2. Counted'
  BY SameCount DEF Pending
<1>3. Nesting'
  BY DEF Nesting
<1>4. CallStates'
  BY DEF MultiTypeOK, CallStates
<1>5. NoStrayClient' /\ Ended'
  <2>1. \A c \in Calls : state'[c] \in {"new", "freed", "lost"}
    BY DEF MultiTypeOK, CallStates
  <2>2. ASSUME NEW c \in Calls, state'[c] = "new" PROVE clients'[c] = {}
    <3>1. state[c] = "new" /\ clients'[c] = clients[c]
      BY <2>2
    <3>2. launched[c] = 0 /\ clients[c] = 1 .. launched[c]
      BY <3>1 DEF CallStates
    <3> QED
      BY <3>1, <3>2
  <2>3. \A c \in Calls : state'[c] = "freed" => clients'[c] \subseteq OnStack(c)
    BY DEF MultiTypeOK, NoStrayClient
  <2>4. call # NoCall => item \in clients'[call]
    BY DEF MultiTypeOK, NoStrayClient, Nesting, OnStack, Items
  <2>5. handler = "idle" => \A c \in Calls : OnStack(c) = {}
    BY DEF Nesting, OnStack, MultiTypeOK, Items
  <2> QED
    BY <2>1, <2>2, <2>3, <2>4, <2>5 DEF NoStrayClient, Ended, OnStack
<1> QED
  BY <1>1, <1>2, <1>3, <1>4, <1>5

LEMMA ScriptStep == MultiInv /\ Script => MultiInv'
<1> SUFFICES ASSUME MultiInv, Script PROVE MultiInv'
  OBVIOUS
<1> USE DEF MultiInv
<1>1. ASSUME NEW c \in Calls, NEW n \in 0 .. MaxItems, Fetch(c, n) PROVE MultiInv'
  <2> USE <1>1 DEF Fetch
  <2>1. MultiTypeOK'
    BY DEF MultiTypeOK
  <2>2. Counted'
    BY SameCount DEF Pending
  <2>3. Nesting'
    BY DEF MultiTypeOK, Nesting
  <2>4. CallStates'
    BY DEF MultiTypeOK, Nesting, CallStates
  <2>5. NoStrayClient' /\ Ended'
    BY DEF MultiTypeOK, NoStrayClient, OnStack, Ended
  <2> QED
    BY <2>1, <2>2, <2>3, <2>4, <2>5
<1>2. CASE Launch
  <2> USE <1>2 DEF Launch
  <2>1. cur \in Calls /\ state[cur] = "launching"
    BY DEF Nesting
  <2>2. MultiTypeOK'
    BY <2>1 DEF MultiTypeOK, Items
  <2>3. Counted'
    BY SameCount DEF Pending
  <2>4. Nesting'
    BY DEF Nesting
  <2>5. CallStates'
    <3>1. launched[cur] \in Nat /\ total[cur] \in Nat
      BY <2>1 DEF MultiTypeOK
    <3>2. (1 .. launched[cur]) \cup {launched[cur] + 1} = 1 .. (launched[cur] + 1)
      BY <3>1
    <3>3. launched'[cur] = launched[cur] + 1 /\ clients'[cur] = clients[cur] \cup {launched[cur] + 1}
      BY <2>1 DEF MultiTypeOK
    <3>4. \A c \in Calls : c # cur => launched'[c] = launched[c] /\ clients'[c] = clients[c]
      BY DEF MultiTypeOK
    <3>5. clients[cur] = 1 .. launched[cur] /\ ended[cur] = {}
      BY <2>1 DEF CallStates
    <3>6. clients'[cur] = 1 .. launched'[cur]
      BY <3>2, <3>3, <3>5
    <3>7. launched'[cur] <= total[cur]
      BY <3>1, <3>3
    <3> QED
      BY <2>1, <3>4, <3>5, <3>6, <3>7 DEF CallStates
  <2>6. NoStrayClient' /\ Ended'
    BY <2>1 DEF MultiTypeOK, NoStrayClient, OnStack, Ended
  <2> QED
    BY <2>2, <2>3, <2>4, <2>5, <2>6
<1>3. CASE BadItem
  <2> USE <1>3 DEF BadItem, Kept, Raised
  <2>1. cur \in Calls /\ state[cur] = "launching"
    BY DEF Nesting
  <2>2. MultiTypeOK'
    BY <2>1 DEF MultiTypeOK
  <2>3. Counted'
    BY SameCount DEF Pending
  <2>4. Nesting'
    BY DEF Nesting
  <2>5. CallStates'
    BY <2>1 DEF MultiTypeOK, Nesting, CallStates
  <2>6. NoStrayClient' /\ Ended'
    BY <2>1 DEF MultiTypeOK, NoStrayClient, OnStack, Ended
  <2> QED
    BY <2>2, <2>3, <2>4, <2>5, <2>6
<1>6. CASE BadHeader
  <2> USE <1>6 DEF BadHeader, Raised
  <2>1. cur \in Calls /\ state[cur] = "launching"
    BY DEF Nesting
  <2>2. launched[cur] + 1 \in Items
    BY <2>1 DEF MultiTypeOK, Items
  <2>3. MultiTypeOK'
    BY <2>1, <2>2 DEF MultiTypeOK
  <2>4. Counted'
    BY SameCount DEF Pending
  <2>5. Nesting'
    BY DEF Nesting
  <2>6. CallStates'
    BY <2>1 DEF MultiTypeOK, Nesting, CallStates
  <2>7. NoStrayClient' /\ Ended'
    BY <2>1 DEF MultiTypeOK, NoStrayClient, OnStack, Ended
  <2> QED
    BY <2>3, <2>4, <2>5, <2>6, <2>7
<1>4. CASE Suspend
  <2> USE <1>4 DEF Suspend
  <2>1. cur \in Calls /\ state[cur] = "launching"
    BY DEF Nesting
  <2>2. MultiTypeOK'
    BY <2>1 DEF MultiTypeOK
  <2>3. Counted'
    BY SameCount DEF Pending
  <2>4. Nesting'
    BY DEF Nesting
  <2>5. CallStates'
    BY <2>1 DEF MultiTypeOK, Nesting, CallStates
  <2>6. NoStrayClient' /\ Ended'
    BY <2>1 DEF MultiTypeOK, NoStrayClient, OnStack, Ended
  <2> QED
    BY <2>2, <2>3, <2>4, <2>5, <2>6
<1>5. CASE Finish
  <2> USE <1>5 DEF Finish, callVars
  <2>1. MultiTypeOK'
    BY DEF MultiTypeOK
  <2>2. Counted'
    BY SameCount DEF Pending
  <2>3. Nesting' /\ CallStates' /\ Ended' /\ NoStrayClient'
    BY DEF Nesting, CallStates, Ended, NoStrayClient, OnStack
  <2> QED
    BY <2>1, <2>2, <2>3
<1> QED
  BY <1>1, <1>2, <1>3, <1>4, <1>5, <1>6 DEF Script

(* A call whose last client ended has them all, and waits.                 *)
LEMMA LastOver ==
  ASSUME MultiInv, handler = "over", state[call] # "lost"
  PROVE  /\ call \in Calls /\ state[call] = "waiting" /\ crt = "yield" /\ cur = call
         /\ launched[call] = total[call]
         /\ AllDone => ended[call] = 1 .. total[call]
<1> USE DEF MultiInv
<1>1. call \in Calls /\ state[call] = "waiting"
  BY DEF MultiTypeOK, Nesting, NoStrayClient
<1>2. crt = "yield" /\ cur = call /\ launched[call] = total[call]
  BY <1>1 DEF CallStates
<1>3. total[call] \in Nat /\ ended[call] \in SUBSET (1 .. total[call])
  BY <1>1, <1>2 DEF MultiTypeOK, CallStates
<1>4. AllDone => Cardinality(ended[call]) = total[call]
  BY <1>1 DEF AllDone, Counted, Pending
<1> QED
  BY <1>1, <1>2, <1>3, <1>4, ItemSets

LEMMA EventStep ==
  ASSUME NEW c \in Calls, NEW i \in Items, NEW terminal \in BOOLEAN,
         MultiInv, ClientCalls(c, i, terminal)
  PROVE  MultiInv'
<1> USE DEF MultiInv, ClientCalls
<1>1. call = NoCall /\ state[c] \in {"waiting", "lost"}
  <2>1. call = NoCall /\ handler = "idle" /\ i \in clients[c] /\ i \notin destroyed[c] /\ i \notin ended[c]
    BY DEF Nesting
  <2>2. state[c] \notin {"freed", "new"}
    BY <2>1 DEF CallStates, Items
  <2>3. state[c] \notin {"launching", "resumed"}
    BY <2>1 DEF CallStates
  <2> QED
    BY <2>1, <2>2, <2>3 DEF MultiTypeOK
<1>2. i \in 1 .. launched[c] /\ launched[c] \in Nat /\ ended[c] \in SUBSET (1 .. launched[c])
  <2>1. ended[c] \subseteq 1 .. launched[c]
    BY DEF CallStates
  <2>2. launched[c] \in Nat /\ i \in Nat /\ 1 <= i
    BY DEF MultiTypeOK, Items
  <2> QED
    BY <2>1, <2>2
<1>3. MultiTypeOK'
  BY DEF MultiTypeOK, Items
<1>4. Counted'
  <2>1. CASE ~terminal
    BY <2>1, <1>1, SameCount DEF Pending
  <2>2. CASE terminal
    <3>1. ended'[c] = ended[c] \cup {i} /\ done' = done
      BY <2>2 DEF MultiTypeOK
    <3>2. Cardinality(ended'[c]) = Cardinality(ended[c]) + 1
      BY <1>2, <3>1, OneMore
    <3>3. \A d \in Calls : d # c => ended'[d] = ended[d]
      BY <2>2 DEF MultiTypeOK
    <3>4. done[c] \in Nat /\ Cardinality(ended[c]) = done[c] + 0
      BY <1>1 DEF MultiTypeOK, Counted, Pending
    <3>5. done'[c] + Pending(c)' = Cardinality(ended'[c])
      BY <2>2, <3>1, <3>2, <3>4 DEF Pending
    <3>6. ASSUME NEW d \in Calls, d # c
          PROVE  done'[d] + Pending(d)' = Cardinality(ended'[d])
      BY <1>1, <3>1, <3>3, <3>6 DEF Counted, Pending
    <3> QED
      BY <3>5, <3>6 DEF Counted
  <2> QED
    BY <2>1, <2>2
<1>5. Nesting'
  BY <1>1 DEF MultiTypeOK, Nesting, Items
<1>6. CallStates'
  <2>1. ended'[c] \subseteq 1 .. launched[c] /\ \A d \in Calls : d # c => ended'[d] = ended[d]
    BY <1>2 DEF MultiTypeOK
  <2>2. crt' = crt /\ cur' = cur /\ handler' # "launch" /\ handler # "launch"
    OBVIOUS
  <2> QED
    BY <1>1, <2>1, <2>2 DEF CallStates
<1>7. NoStrayClient' /\ Ended'
  BY <1>1 DEF MultiTypeOK, NoStrayClient, OnStack, Ended
<1> QED
  BY <1>3, <1>4, <1>5, <1>6, <1>7

LEMMA HandlerStep == MultiInv /\ Handlers => MultiInv'
<1> SUFFICES ASSUME MultiInv, Handlers PROVE MultiInv'
  OBVIOUS
<1> USE DEF MultiInv
<1>1. CASE Over
  <2> USE <1>1 DEF Over
  <2>1. /\ call \in Calls /\ state[call] = "waiting" /\ crt = "yield" /\ cur = call
        /\ launched[call] = total[call]
        /\ AllDone => ended[call] = 1 .. total[call]
    BY LastOver
  <2>2. MultiTypeOK'
    BY <2>1 DEF MultiTypeOK
  <2>3. Counted'
    <3>1. done'[call] = done[call] + 1 /\ \A c \in Calls : c # call => done'[c] = done[c]
      BY <2>1 DEF MultiTypeOK
    <3>2. handler' \notin {"over", "crash"}
      OBVIOUS
    <3> QED
      BY <2>1, <3>1, <3>2 DEF MultiTypeOK, Counted, Pending
  <2>4. Nesting'
    BY <2>1 DEF Nesting
  <2>5. CallStates'
    BY <2>1 DEF MultiTypeOK, CallStates
  <2>6. NoStrayClient' /\ Ended'
    BY <2>1 DEF MultiTypeOK, NoStrayClient, OnStack, Ended
  <2> QED
    BY <2>2, <2>3, <2>4, <2>5, <2>6
<1>4. CASE Crash
  <2> USE <1>4 DEF Crash, callVars
  <2>1. MultiTypeOK'
    BY DEF MultiTypeOK
  <2>2. Counted'
    BY SameCount DEF Pending
  <2>3. Nesting' /\ CallStates' /\ Ended' /\ NoStrayClient'
    BY DEF Nesting, CallStates, Ended, NoStrayClient, OnStack
  <2> QED
    BY <2>1, <2>2, <2>3
<1>2. CASE Leave
  <2> USE <1>2 DEF Leave, callVars
  <2>1. MultiTypeOK'
    BY DEF MultiTypeOK
  <2>2. Counted'
    BY SameCount DEF Pending
  <2>3. Nesting' /\ CallStates' /\ Ended' /\ NoStrayClient'
    BY DEF Nesting, CallStates, Ended, NoStrayClient, OnStack
  <2> QED
    BY <2>1, <2>2, <2>3
<1>3. CASE Back
  <2> USE <1>3 DEF Back
  <2>1. call \in Calls
    BY DEF MultiTypeOK, Nesting
  <2>2. MultiTypeOK'
    BY <2>1 DEF MultiTypeOK
  <2>3. Counted'
    BY SameCount DEF Pending
  <2>4. Nesting'
    BY DEF Nesting
  <2>5. CallStates'
    BY <2>1 DEF MultiTypeOK, CallStates
  <2>6. NoStrayClient' /\ Ended'
    <3>1. ASSUME NEW c \in Calls PROVE state[c] = "freed" => clients'[c] = {}
      <4>1. state[c] = "freed" => clients[c] \subseteq OnStack(c) /\ clients[c] \subseteq destroyed[c]
        BY DEF NoStrayClient, CallStates
      <4>2. clients'[c] = IF c = call THEN clients[c] \ (destroyed[c] \cap {item}) ELSE clients[c]
        BY <2>1 DEF MultiTypeOK
      <4> QED
        BY <4>1, <4>2 DEF OnStack
    <3>2. ASSUME NEW c \in Calls, state[c] = "new" PROVE clients'[c] = {}
      <4>1. clients[c] = {}
        BY <3>2 DEF CallStates
      <4> QED
        BY <2>1, <4>1 DEF MultiTypeOK
    <3>3. call' = NoCall /\ NoCall \notin Calls
      BY FetchAssumption DEF FetchAssumption
    <3>4. closed => \A c \in Calls : state[c] \in {"new", "freed", "lost"}
      BY DEF Ended
    <3> QED
      BY <3>1, <3>2, <3>3, <3>4 DEF NoStrayClient, Ended
  <2> QED
    BY <2>2, <2>3, <2>4, <2>5, <2>6
<1> QED
  BY <1>1, <1>2, <1>3, <1>4 DEF Handlers

LEMMA StepMulti == MultiInv /\ [MultiNext]_multiVars => MultiInv'
<1> SUFFICES ASSUME MultiInv, [MultiNext]_multiVars PROVE MultiInv'
  OBVIOUS
<1>1. CASE UNCHANGED multiVars
  BY <1>1 DEF multiVars, MultiInv, MultiTypeOK, Counted, Pending, Nesting, CallStates, Ended, NoStrayClient, OnStack
<1>2. ASSUME NEW t \in BOOLEAN, Event(t) PROVE MultiInv'
  BY <1>2, EventStep DEF Event
<1> QED
  BY <1>1, <1>2, HookStep, CloseStep, ScriptStep, HandlerStep DEF MultiNext

-----------------------------------------------------------------------------
(* The inductive invariant: the count of a call is the number of its       *)
(* clients that have ended, but for the one about to be counted.           *)
THEOREM CallsInductive == MultiSpec => []MultiInv
BY InitMulti, StepMulti, PTL DEF MultiSpec

(* However deep the handlers stand on each other and wherever the          *)
(* transaction closes, no client outlives its call, none is released under *)
(* its own callback and none is left at the end, but for the calls that an *)
(* error in a header has lost; and only these stop the process.            *)
THEOREM ClientsReleased == MultiSpec => []NoStrayClient
<1>1. MultiInv => NoStrayClient
  BY DEF MultiInv
<1> QED
  BY <1>1, CallsInductive, PTL

(* The coroutine is resumed only by the call it waits for, after the last  *)
(* of its clients.                                                         *)
THEOREM ResumedOnce == MultiSpec => ResumedWithAll
<1> DEFINE Resumed == handler = "over" /\ handler' = "lua" =>
                        crt = "yield" /\ cur = call /\ ended[call] = 1 .. total[call]
<1>1. MultiInv /\ [MultiNext]_multiVars => [Resumed]_multiVars
  <2> SUFFICES ASSUME MultiInv, MultiNext, handler = "over", handler' = "lua"
               PROVE  crt = "yield" /\ cur = call /\ ended[call] = 1 .. total[call]
    OBVIOUS
  <2>1. Over
    BY DEF MultiNext, Hook, Close, Script, Finish, Launch, BadItem, BadHeader,
           Raised, Suspend, Fetch, Handlers, Crash, Leave, Back, Event, ClientCalls
  <2>2. AllDone /\ state[call] # "lost"
    BY <2>1 DEF Over
  <2> QED
    BY <2>2, LastOver
<1> QED
  BY <1>1, CallsInductive, PTL DEF MultiSpec, ResumedWithAll
=============================================================================
