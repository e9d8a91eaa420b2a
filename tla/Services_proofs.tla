--------------------------- MODULE Services_proofs ---------------------------
(***************************************************************************)
(* Proofs about services, each for every value of its constants.  The      *)
(* services share no variable, so each part is about one module and its    *)
(* specification; those about regions, profiles and images are in the      *)
(* modules this one extends.  The last part takes what is proved of each   *)
(* to the services side by side.                                           *)
(***************************************************************************)
EXTENDS Services, Regions_proofs, Images_proofs, TLAPS

(***************************************************************************)
(* Proofs about Scripting, for any HTTP requests and sessions.             *)
(*                                                                         *)
(* That a request is answered once rests on the ids: no two requests have  *)
(* the same, so the callback that a response or an abort erases is that of *)
(* one request, and a callback whose request has ended belongs to a        *)
(* request whose abort went to another's callback.                         *)
(***************************************************************************)

ScriptingStatuses == {"new", "open", "answered", "aborted"}
ScriptingCallbacks == [id : Nat, request : HttpRequests]

ScriptingTyped ==
    /\ http \in [HttpRequests -> [status : ScriptingStatuses, id : Nat, session : ScriptSessions \cup {NoId}]]
    /\ scripting_request_id \in Nat
    /\ scripting_callbacks \in [ScriptSessions -> SUBSET ScriptingCallbacks]
    /\ script_session \in [ScriptSessions -> {"open", "closing", "gone"}]
    /\ dead_writes \subseteq HttpRequests /\ misdirected \subseteq HttpRequests

\* An id is given to one request.
IdsUnique ==
    /\ \A r \in HttpRequests : http[r].id <= scripting_request_id
    /\ \A r, q \in HttpRequests : http[r].id = http[q].id => http[r].id = NoId \/ r = q

\* An open request has an id and a session, a new one has no id.
OpenHasSession ==
    \A r \in HttpRequests :
        /\ http[r].status = "open" => http[r].id # NoId /\ http[r].session \in ScriptSessions
        /\ http[r].status = "new" => http[r].id = NoId

\* A callback is of a request of its session and bears its id.  The request is
\* open, unless its abort went to another's callback.
CallbackOfRequest ==
    \A s \in ScriptSessions : \A c \in scripting_callbacks[s] :
        /\ c.id # NoId /\ http[c.request].id = c.id /\ http[c.request].session = s
        /\ http[c.request].status = "open" \/ c.request \in misdirected

GoneHasNone == \A s \in ScriptSessions : script_session[s] = "gone" => scripting_callbacks[s] = {}

ScriptingIInv == ScriptingTyped /\ IdsUnique /\ OpenHasSession /\ CallbackOfRequest /\ GoneHasNone
        /\ AnsweredOnce /\ OpenRequestKnown

-----------------------------------------------------------------------------
LEMMA ScriptingInitOK == ScriptingInit => ScriptingIInv
BY DEF ScriptingInit, ScriptingIInv, ScriptingTyped, IdsUnique, OpenHasSession, CallbackOfRequest, GoneHasNone,
       AnsweredOnce, OpenRequestKnown, NewHttp, NoId, ScriptingStatuses, ScriptingCallbacks

\* What AnswerHttp makes of the requests of some callbacks of one session.
LEMMA AnswerEffect ==
    ASSUME ScriptingIInv, NEW requests \in SUBSET HttpRequests, AnswerHttp(requests),
           \A r \in requests : http[r].status = "open" \/ r \in misdirected
    PROVE  /\ http' \in [HttpRequests -> [status : ScriptingStatuses, id : Nat,
                                          session : ScriptSessions \cup {NoId}]]
           /\ \A r \in HttpRequests : /\ http'[r].id = http[r].id
                                      /\ http'[r].session = http[r].session
                                      /\ r \in requests => http'[r].status = "answered"
                                      /\ r \notin requests => http'[r] = http[r]
           /\ dead_writes' \subseteq HttpRequests /\ dead_writes' \subseteq misdirected
<1> DEFINE H == [status : ScriptingStatuses, id : Nat, session : ScriptSessions \cup {NoId}]
<1>1. http \in [HttpRequests -> H]
  BY DEF ScriptingIInv, ScriptingTyped
<1>2. \A r \in HttpRequests :
         http'[r] = IF r \in requests THEN [http[r] EXCEPT !.status = "answered"] ELSE http[r]
  BY DEF AnswerHttp, EndHttp
<1>3. \A r \in HttpRequests :
         /\ [http[r] EXCEPT !.status = "answered"] \in H
         /\ [http[r] EXCEPT !.status = "answered"].id = http[r].id
         /\ [http[r] EXCEPT !.status = "answered"].session = http[r].session
         /\ [http[r] EXCEPT !.status = "answered"].status = "answered"
  BY <1>1 DEF ScriptingStatuses
<1>4. \A r \in HttpRequests : http'[r] \in H
  BY <1>1, <1>2, <1>3
<1>5. http' \in [HttpRequests -> H]
  BY <1>4 DEF AnswerHttp, EndHttp
<1>6. dead_writes' \subseteq HttpRequests /\ dead_writes' \subseteq misdirected
  BY DEF AnswerHttp, EndHttp, ScriptingIInv, ScriptingTyped, AnsweredOnce
<1> QED BY <1>2, <1>3, <1>5, <1>6

\* Answering callbacks of one session and erasing them keeps the invariant: no
\* other callback is of the same request.
LEMMA AnswerAndErase ==
    ASSUME ScriptingIInv, NEW s \in ScriptSessions, NEW found \in SUBSET scripting_callbacks[s],
           AnswerHttp(Requests(found)),
           scripting_callbacks' = [scripting_callbacks EXCEPT ![s] = @ \ found],
           script_session' \in [ScriptSessions -> {"open", "closing", "gone"}],
           \A q \in ScriptSessions : q # s => script_session'[q] = script_session[q],
           script_session'[s] = "gone" => scripting_callbacks'[s] = {},
           UNCHANGED <<scripting_request_id, misdirected>>
    PROVE  ScriptingIInv'
<1>1. ScriptingTyped /\ IdsUnique /\ OpenHasSession /\ CallbackOfRequest /\ GoneHasNone
      /\ AnsweredOnce /\ OpenRequestKnown
  BY DEF ScriptingIInv
<1>2. \A c \in scripting_callbacks[s] : c \in ScriptingCallbacks
  BY <1>1 DEF ScriptingTyped
<1>3. Requests(found) \subseteq HttpRequests
  BY <1>2 DEF Requests, ScriptingCallbacks
<1>4. \A r \in Requests(found) : http[r].status = "open" \/ r \in misdirected
  BY <1>1 DEF CallbackOfRequest, Requests
<1>5. /\ http' \in [HttpRequests -> [status : ScriptingStatuses, id : Nat,
                                     session : ScriptSessions \cup {NoId}]]
      /\ \A r \in HttpRequests : /\ http'[r].id = http[r].id
                                 /\ http'[r].session = http[r].session
                                 /\ r \in Requests(found) => http'[r].status = "answered"
                                 /\ r \notin Requests(found) => http'[r] = http[r]
      /\ dead_writes' \subseteq HttpRequests /\ dead_writes' \subseteq misdirected
  BY <1>3, <1>4, AnswerEffect
<1>6. \A q \in ScriptSessions :
         scripting_callbacks'[q] = IF q = s THEN scripting_callbacks[s] \ found
                                   ELSE scripting_callbacks[q]
  BY <1>1 DEF ScriptingTyped
<1>7. \A q \in ScriptSessions : scripting_callbacks'[q] \subseteq scripting_callbacks[q]
  BY <1>6
<1>8. ScriptingTyped'
  BY <1>1, <1>5, <1>7 DEF ScriptingTyped
<1>9. IdsUnique' /\ OpenHasSession'
  BY <1>1, <1>5 DEF IdsUnique, OpenHasSession
<1>10. CallbackOfRequest'
  <2> SUFFICES ASSUME NEW q \in ScriptSessions, NEW c \in scripting_callbacks'[q]
               PROVE  /\ c.id # NoId /\ http'[c.request].id = c.id /\ http'[c.request].session = q
                      /\ http'[c.request].status = "open" \/ c.request \in misdirected
    BY <1>1 DEF CallbackOfRequest
  <2>1. c \in scripting_callbacks[q] /\ c \in ScriptingCallbacks /\ c.request \in HttpRequests
    BY <1>1, <1>7 DEF ScriptingTyped, ScriptingCallbacks
  <2>2. /\ c.id # NoId /\ http[c.request].id = c.id /\ http[c.request].session = q
        /\ http[c.request].status = "open" \/ c.request \in misdirected
    BY <1>1, <2>1 DEF CallbackOfRequest
  <2>3. c.request \notin Requests(found)
    <3> SUFFICES ASSUME NEW d \in found, d.request = c.request PROVE FALSE
      BY DEF Requests
    <3>1. http[d.request].id = d.id /\ http[d.request].session = s /\ d \in ScriptingCallbacks
      BY <1>1, <1>2 DEF CallbackOfRequest
    <3>2. q = s /\ c = d
      BY <2>1, <2>2, <3>1 DEF ScriptingCallbacks
    <3> QED BY <1>6, <3>2
  <2> QED BY <1>5, <2>1, <2>2, <2>3
<1>11. GoneHasNone'
  BY <1>1, <1>6 DEF GoneHasNone
<1>12. AnsweredOnce'
  BY <1>5 DEF AnsweredOnce
<1>13. OpenRequestKnown'
  <2> SUFFICES ASSUME NEW r \in HttpRequests, http'[r].status = "open", r \notin misdirected
               PROVE  [id |-> http'[r].id, request |-> r] \in scripting_callbacks'[http'[r].session]
    BY <1>1 DEF OpenRequestKnown
  <2>1. r \notin Requests(found) /\ http'[r] = http[r]
    BY <1>5
  <2>2. /\ [id |-> http[r].id, request |-> r] \in scripting_callbacks[http[r].session]
        /\ http[r].session \in ScriptSessions
    BY <1>1, <2>1 DEF OpenRequestKnown, OpenHasSession
  <2>3. [id |-> http[r].id, request |-> r] \notin found
    BY <2>1 DEF Requests
  <2> QED BY <1>6, <2>1, <2>2, <2>3
<1> QED BY <1>8, <1>9, <1>10, <1>11, <1>12, <1>13 DEF ScriptingIInv

-----------------------------------------------------------------------------
LEMMA SendStep ==
    ASSUME ScriptingIInv, NEW r \in HttpRequests, NEW s \in ScriptSessions, NEW complete \in BOOLEAN,
           SendScriptingRequest(r, s, complete)
    PROVE  ScriptingIInv'
<1>1. ScriptingTyped /\ IdsUnique /\ OpenHasSession /\ CallbackOfRequest /\ GoneHasNone
      /\ AnsweredOnce /\ OpenRequestKnown
  BY DEF ScriptingIInv
<1>2. /\ scripting_request_id' = scripting_request_id + 1 /\ scripting_request_id \in Nat
      /\ UNCHANGED <<script_session, dead_writes, misdirected>>
      /\ http[r].status = "new"
  BY <1>1 DEF SendScriptingRequest, ScriptingTyped
<1>3. CASE ~complete \/ script_session[s] = "gone"
  <2>1. http' = [http EXCEPT ![r].status = "answered"] /\ UNCHANGED scripting_callbacks
    BY <1>3 DEF SendScriptingRequest
  <2>2. /\ http' \in [HttpRequests -> [status : ScriptingStatuses, id : Nat,
                                       session : ScriptSessions \cup {NoId}]]
        /\ \A q \in HttpRequests : /\ http'[q].id = http[q].id
                                   /\ http'[q].session = http[q].session
                                   /\ q # r => http'[q] = http[q]
        /\ http'[r].status = "answered"
    BY <1>1, <2>1 DEF ScriptingTyped, ScriptingStatuses
  <2>3. ScriptingTyped' /\ IdsUnique' /\ OpenHasSession'
    BY <1>1, <1>2, <2>1, <2>2 DEF ScriptingTyped, IdsUnique, OpenHasSession
  <2>4. CallbackOfRequest'
    <3> SUFFICES ASSUME NEW q \in ScriptSessions, NEW c \in scripting_callbacks[q]
                 PROVE  /\ c.id # NoId /\ http'[c.request].id = c.id /\ http'[c.request].session = q
                        /\ http'[c.request].status = "open" \/ c.request \in misdirected
      BY <1>2, <2>1 DEF CallbackOfRequest
    <3>1. c.request \in HttpRequests
      BY <1>1 DEF ScriptingTyped, ScriptingCallbacks
    <3>2. /\ c.id # NoId /\ http[c.request].id = c.id /\ http[c.request].session = q
          /\ http[c.request].status = "open" \/ c.request \in misdirected
      BY <1>1 DEF CallbackOfRequest
    <3> QED BY <1>2, <2>2, <3>1, <3>2
  <2>5. GoneHasNone' /\ AnsweredOnce'
    BY <1>1, <1>2, <2>1 DEF GoneHasNone, AnsweredOnce
  <2>6. OpenRequestKnown'
    BY <1>1, <1>2, <2>1, <2>2 DEF OpenRequestKnown
  <2> QED BY <2>3, <2>4, <2>5, <2>6 DEF ScriptingIInv
<1>4. CASE complete /\ script_session[s] # "gone"
  <2> DEFINE id == scripting_request_id + 1
             new == [id |-> id, request |-> r]
  <2>1. /\ http' = [http EXCEPT ![r] = [status |-> "open", session |-> s, id |-> id]]
        /\ scripting_callbacks' = [scripting_callbacks EXCEPT ![s] = @ \cup {new}]
    BY <1>2, <1>4 DEF SendScriptingRequest
  <2>2. /\ \A q \in HttpRequests : q # r => http'[q] = http[q]
        /\ http'[r] = [status |-> "open", session |-> s, id |-> id]
        /\ id \in Nat /\ id # NoId /\ scripting_request_id < id
    BY <1>1, <1>2, <2>1 DEF ScriptingTyped, NoId
  <2>3. http' \in [HttpRequests -> [status : ScriptingStatuses, id : Nat,
                                   session : ScriptSessions \cup {NoId}]]
    BY <1>1, <2>1, <2>2 DEF ScriptingTyped, ScriptingStatuses
  <2>4. new \in ScriptingCallbacks
    BY <2>2 DEF ScriptingCallbacks
  <2>5. \A q \in ScriptSessions :
           scripting_callbacks'[q] = IF q = s THEN scripting_callbacks[s] \cup {new}
                                     ELSE scripting_callbacks[q]
    BY <1>1, <2>1 DEF ScriptingTyped
  <2> HIDE DEF new
  <2>6. ScriptingTyped'
    BY <1>1, <1>2, <2>1, <2>2, <2>3, <2>4, <2>5 DEF ScriptingTyped
  <2>7. \A q \in HttpRequests : http[q].id \in Nat /\ http[q].id # id
    BY <1>1, <2>2 DEF ScriptingTyped, IdsUnique
  <2> HIDE DEF id
  <2>8. IdsUnique'
    <3>1. \A q \in HttpRequests : http'[q].id <= scripting_request_id'
      BY <1>1, <1>2, <2>2 DEF IdsUnique, ScriptingTyped, id
    <3>2. \A p, q \in HttpRequests : http'[p].id = http'[q].id => http'[p].id = NoId \/ p = q
      BY <1>1, <2>2, <2>7 DEF IdsUnique
    <3> QED BY <3>1, <3>2 DEF IdsUnique
  <2>9. OpenHasSession'
    BY <1>1, <2>2 DEF OpenHasSession
  <2>10. CallbackOfRequest'
    <3> SUFFICES ASSUME NEW q \in ScriptSessions, NEW c \in scripting_callbacks'[q]
                 PROVE  /\ c.id # NoId /\ http'[c.request].id = c.id /\ http'[c.request].session = q
                        /\ http'[c.request].status = "open" \/ c.request \in misdirected
      BY <1>2 DEF CallbackOfRequest
    <3>1. CASE c \in scripting_callbacks[q]
      <4>1. c.request \in HttpRequests
        BY <1>1, <3>1 DEF ScriptingTyped, ScriptingCallbacks
      <4>2. /\ c.id # NoId /\ http[c.request].id = c.id /\ http[c.request].session = q
            /\ http[c.request].status = "open" \/ c.request \in misdirected
        BY <1>1, <3>1 DEF CallbackOfRequest
      <4>3. CASE c.request # r
        BY <2>2, <4>1, <4>2, <4>3
      <4>4. CASE c.request = r
        <5>1. http[r].id = c.id /\ c.id # NoId
          BY <4>2, <4>4
        <5> QED BY <1>1, <1>2, <5>1 DEF OpenHasSession
      <4> QED BY <4>3, <4>4
    <3>2. CASE c = new /\ q = s
      BY <2>2, <3>2 DEF new
    <3> QED BY <2>5, <3>1, <3>2
  <2>11. GoneHasNone' /\ AnsweredOnce'
    BY <1>1, <1>2, <1>4, <2>5 DEF GoneHasNone, AnsweredOnce
  <2>12. OpenRequestKnown'
    <3> SUFFICES ASSUME NEW q \in HttpRequests, http'[q].status = "open", q \notin misdirected
                 PROVE  [id |-> http'[q].id, request |-> q] \in scripting_callbacks'[http'[q].session]
      BY <1>2 DEF OpenRequestKnown
    <3>1. CASE q = r
      BY <2>2, <2>5, <3>1 DEF new
    <3>2. CASE q # r
      BY <1>1, <2>2, <2>5, <3>2 DEF OpenRequestKnown, OpenHasSession
    <3> QED BY <3>1, <3>2
  <2> QED BY <2>6, <2>8, <2>9, <2>10, <2>11, <2>12 DEF ScriptingIInv
<1> QED BY <1>3, <1>4

\* An abort: if it is of the newest request its callback is erased, otherwise
\* the newest request's, and both requests are told by misdirected.
LEMMA AbortStep ==
    ASSUME ScriptingIInv, NEW r \in HttpRequests, OnScriptingAbort(r)
    PROVE  ScriptingIInv'
<1> DEFINE s == http[r].session
           erased == {c \in scripting_callbacks[s] : c.id = scripting_request_id}
<1>1. ScriptingTyped /\ IdsUnique /\ OpenHasSession /\ CallbackOfRequest /\ GoneHasNone
      /\ AnsweredOnce /\ OpenRequestKnown
  BY DEF ScriptingIInv
<1>2. /\ http[r].status = "open"
      /\ http' = [q \in HttpRequests |->
                     IF q \in {r} THEN [http[q] EXCEPT !.status = "aborted"] ELSE http[q]]
      /\ scripting_callbacks' = IF script_session[s] = "gone" THEN scripting_callbacks
                                ELSE [scripting_callbacks EXCEPT ![s] = @ \ erased]
      /\ misdirected' = misdirected \cup
             (IF http[r].id = scripting_request_id THEN {} ELSE {r} \cup Requests(erased))
      /\ UNCHANGED <<scripting_request_id, script_session, frontend, dead_writes>>
  <2>1. dead_writes' = dead_writes \cup {q \in {r} : http[q].status # "open"}
    BY DEF OnScriptingAbort, EndHttp
  <2>2. {q \in {r} : http[q].status # "open"} = {}
    BY DEF OnScriptingAbort
  <2> QED BY <2>1, <2>2 DEF OnScriptingAbort, EndHttp
<1>3. s \in ScriptSessions /\ http[r].id # NoId
  BY <1>1, <1>2 DEF OpenHasSession
<1>4. /\ \A q \in HttpRequests : q # r => http'[q] = http[q]
      /\ http'[r].status = "aborted" /\ http'[r].id = http[r].id /\ http'[r].session = s
      /\ http' \in [HttpRequests -> [status : ScriptingStatuses, id : Nat,
                                     session : ScriptSessions \cup {NoId}]]
  BY <1>1, <1>2 DEF ScriptingTyped, ScriptingStatuses
<1>5. \A c \in scripting_callbacks[s] :
         /\ c \in ScriptingCallbacks /\ c.request \in HttpRequests
         /\ http[c.request].id = c.id
  BY <1>1, <1>3 DEF ScriptingTyped, ScriptingCallbacks, CallbackOfRequest
<1>6. Requests(erased) \subseteq HttpRequests
  BY <1>5 DEF Requests
<1> HIDE DEF s, erased
<1>7. \A q \in ScriptSessions :
         scripting_callbacks'[q] = IF q = s THEN scripting_callbacks[q] \ erased
                                   ELSE scripting_callbacks[q]
  <2>1. CASE script_session[s] = "gone"
    BY <1>1, <1>2, <1>3, <2>1 DEF GoneHasNone
  <2>2. CASE script_session[s] # "gone"
    BY <1>1, <1>2, <1>3, <2>2 DEF ScriptingTyped
  <2> QED BY <2>1, <2>2
<1>8. misdirected \subseteq misdirected' /\ misdirected' \subseteq HttpRequests
  BY <1>1, <1>2, <1>6 DEF ScriptingTyped
<1>9. ScriptingTyped'
  <2>1. scripting_callbacks' \in [ScriptSessions -> SUBSET ScriptingCallbacks]
    BY <1>1, <1>2, <1>3 DEF ScriptingTyped
  <2> QED BY <1>1, <1>2, <1>4, <1>8, <2>1 DEF ScriptingTyped
<1>10. IdsUnique' /\ OpenHasSession'
  BY <1>1, <1>2, <1>4 DEF IdsUnique, OpenHasSession
<1>11. CallbackOfRequest'
  <2> SUFFICES ASSUME NEW q \in ScriptSessions, NEW c \in scripting_callbacks'[q]
               PROVE  /\ c.id # NoId /\ http'[c.request].id = c.id /\ http'[c.request].session = q
                      /\ http'[c.request].status = "open" \/ c.request \in misdirected'
    BY DEF CallbackOfRequest
  <2>1. c \in scripting_callbacks[q] /\ (q = s => c \notin erased)
    BY <1>7
  <2>2. c.request \in HttpRequests
    BY <1>1, <2>1 DEF ScriptingTyped, ScriptingCallbacks
  <2>3. /\ c.id # NoId /\ http[c.request].id = c.id /\ http[c.request].session = q
        /\ http[c.request].status = "open" \/ c.request \in misdirected
    BY <1>1, <2>1 DEF CallbackOfRequest
  <2>4. CASE c.request # r
    BY <1>4, <1>8, <2>2, <2>3, <2>4
  <2>5. CASE c.request = r
    <3>1. q = s /\ c.id = http[r].id
      BY <2>3, <2>5 DEF s
    <3>2. http[r].id # scripting_request_id
      BY <2>1, <3>1 DEF erased
    <3> QED BY <1>2, <1>4, <2>3, <2>5, <3>2
  <2> QED BY <2>4, <2>5
<1>12. GoneHasNone'
  BY <1>1, <1>2, <1>7 DEF GoneHasNone
<1>13. AnsweredOnce'
  BY <1>1, <1>2, <1>8 DEF AnsweredOnce
<1>14. OpenRequestKnown'
  <2> SUFFICES ASSUME NEW q \in HttpRequests, http'[q].status = "open", q \notin misdirected'
               PROVE  [id |-> http'[q].id, request |-> q] \in scripting_callbacks'[http'[q].session]
    BY DEF OpenRequestKnown
  <2> DEFINE c == [id |-> http[q].id, request |-> q]
  <2>1. q # r /\ http'[q] = http[q] /\ q \notin misdirected
    BY <1>4, <1>8
  <2>2. c \in scripting_callbacks[http[q].session] /\ http[q].session \in ScriptSessions
    BY <1>1, <2>1 DEF OpenRequestKnown, OpenHasSession
  <2>3. CASE http[q].session = s /\ c \in erased
    <3>1. http[q].id = scripting_request_id
      BY <2>3 DEF erased
    <3>2. CASE http[r].id = scripting_request_id
      BY <1>1, <1>3, <2>1, <3>1, <3>2 DEF IdsUnique
    <3>3. CASE http[r].id # scripting_request_id
      <4>1. q \in Requests(erased)
        BY <2>3 DEF Requests
      <4> QED BY <1>2, <3>3, <4>1
    <3> QED BY <3>2, <3>3
  <2>4. CASE ~(http[q].session = s /\ c \in erased)
    BY <1>7, <2>1, <2>2, <2>4
  <2> QED BY <2>3, <2>4
<1> QED BY <1>9, <1>10, <1>11, <1>12, <1>13, <1>14 DEF ScriptingIInv

LEMMA ResponseStep ==
    ASSUME ScriptingIInv, NEW s \in ScriptSessions, OnScriptingResponse(s)
    PROVE  ScriptingIInv'
<1>1. PICK m \in frontend :
         LET found == {c \in scripting_callbacks[s] : c.id = m.id}
         IN  /\ AnswerHttp(Requests(found))
             /\ scripting_callbacks' = [scripting_callbacks EXCEPT ![s] = @ \ found]
  BY DEF OnScriptingResponse
<1> DEFINE found == {c \in scripting_callbacks[s] : c.id = m.id}
<1>2. /\ AnswerHttp(Requests(found)) /\ found \in SUBSET scripting_callbacks[s]
      /\ scripting_callbacks' = [scripting_callbacks EXCEPT ![s] = @ \ found]
  BY <1>1
<1>3. UNCHANGED <<scripting_request_id, script_session, misdirected>> /\ script_session[s] = "open"
  BY DEF OnScriptingResponse
<1>4. script_session \in [ScriptSessions -> {"open", "closing", "gone"}]
  BY DEF ScriptingIInv, ScriptingTyped
<1> HIDE DEF found
<1> QED BY <1>2, <1>3, <1>4, AnswerAndErase

\* The end of a session, at its disconnection or after its last task.
LEMMA CloseStep ==
    ASSUME ScriptingIInv, NEW s \in ScriptSessions, OnDisconnect(s) \/ DeleteSession(s)
    PROVE  ScriptingIInv'
<1>1. /\ CloseAllScriptingRequests(s)
      /\ \E left \in {"closing", "gone"} : script_session' = [script_session EXCEPT ![s] = left]
  BY DEF OnDisconnect, DeleteSession
<1>2. script_session \in [ScriptSessions -> {"open", "closing", "gone"}]
      /\ scripting_callbacks \in [ScriptSessions -> SUBSET ScriptingCallbacks]
  BY DEF ScriptingIInv, ScriptingTyped
<1>3. /\ script_session' \in [ScriptSessions -> {"open", "closing", "gone"}]
      /\ \A q \in ScriptSessions : q # s => script_session'[q] = script_session[q]
  BY <1>1, <1>2
<1> DEFINE found == scripting_callbacks[s]
<1>4. /\ AnswerHttp(Requests(found)) /\ UNCHANGED <<scripting_request_id, misdirected>>
      /\ scripting_callbacks' = [scripting_callbacks EXCEPT ![s] = {}]
  BY <1>1 DEF CloseAllScriptingRequests
<1>5. scripting_callbacks' = [scripting_callbacks EXCEPT ![s] = @ \ found]
  BY <1>2, <1>4
<1>6. scripting_callbacks'[s] = {}
  BY <1>2, <1>4
<1> QED BY <1>3, <1>4, <1>5, <1>6, AnswerAndErase

\* The strengthening is inductive.
LEMMA ScriptingNextOK == ASSUME ScriptingIInv, [ScriptingNext]_scriptVars PROVE ScriptingIInv'
<1>1. CASE UNCHANGED scriptVars
  BY <1>1 DEF scriptVars, ScriptingIInv, ScriptingTyped, IdsUnique, OpenHasSession, CallbackOfRequest, GoneHasNone,
              AnsweredOnce, OpenRequestKnown
<1>2. CASE \E r \in HttpRequests, s \in ScriptSessions, complete \in BOOLEAN :
              SendScriptingRequest(r, s, complete)
  BY <1>2, SendStep
<1>3. CASE \E r \in HttpRequests : OnScriptingAbort(r)
  BY <1>3, AbortStep
<1>4. CASE \E s \in ScriptSessions : OnScriptingResponse(s)
  BY <1>4, ResponseStep
<1>5. CASE \E s \in ScriptSessions : OnDisconnect(s) \/ DeleteSession(s)
  BY <1>5, CloseStep
<1> QED BY <1>1, <1>2, <1>3, <1>4, <1>5 DEF ScriptingNext

-----------------------------------------------------------------------------
\* The strengthening holds in every state.
THEOREM ScriptingInductive == ScriptingSpec => []ScriptingIInv
BY ScriptingInitOK, ScriptingNextOK, PTL DEF ScriptingSpec

\* Every state has the types declared.
THEOREM ScriptingTypeCorrect == ScriptingSpec => []ScriptingTypeOK
<1>1. ScriptingIInv => ScriptingTypeOK
  <2> SUFFICES ASSUME ScriptingIInv PROVE ScriptingTypeOK
    OBVIOUS
  <2>1. \A s \in ScriptSessions : \A c \in scripting_callbacks[s] :
           c.id \in 1..scripting_request_id /\ c.request \in HttpRequests
    <3> SUFFICES ASSUME NEW s \in ScriptSessions, NEW c \in scripting_callbacks[s]
                 PROVE  c.id \in 1..scripting_request_id /\ c.request \in HttpRequests
      OBVIOUS
    <3>1. c.id \in Nat /\ c.request \in HttpRequests /\ scripting_request_id \in Nat
      BY DEF ScriptingIInv, ScriptingTyped, ScriptingCallbacks
    <3>2. c.id # NoId /\ http[c.request].id = c.id
      BY DEF ScriptingIInv, CallbackOfRequest
    <3>3. c.id <= scripting_request_id
      BY <3>1, <3>2 DEF ScriptingIInv, IdsUnique
    <3> QED BY <3>1, <3>2, <3>3 DEF NoId
  <2> QED BY <2>1 DEF ScriptingIInv, ScriptingTyped, ScriptingTypeOK, ScriptingStatuses
<1> QED BY <1>1, ScriptingInductive, PTL

\* A scripting request is answered once, and never forgotten while its session
\* lives, except where an abort met another request's callback.
THEOREM RequestsAnswered == ScriptingSpec => []ScriptingCorrect
<1>1. ScriptingIInv => ScriptingCorrect
  BY DEF ScriptingIInv, ScriptingCorrect
<1> QED BY <1>1, ScriptingInductive, PTL

-----------------------------------------------------------------------------
(***************************************************************************)
(* Proofs about FileLists, for any tasks and sizes of directories.         *)
(*                                                                         *)
(* A list that is alone owns the callback from the moment it set it; the   *)
(* stop flag that a list at its entries finds set was set since it began,  *)
(* because beginning clears it.                                            *)
(***************************************************************************)

ListsPlaces == {"idle", "set", "wait", "start", "entries", "reply"}
ListsRecords == [at : ListsPlaces, kind : Kinds, entry : 0..Entries, alone : BOOLEAN,
            stopped : BOOLEAN, others : BOOLEAN]

ListsTyped ==
    /\ listing \in [Listings -> ListsRecords]
    /\ list_lock \in [Kinds -> {Free} \cup Listings]
    /\ stop_list \in BOOLEAN /\ list_callback \in {Free} \cup Listings

\* A list that is alone has no other beside it and the callback is its own.
AloneOwnsCallback ==
    \A t \in Listings : Listed(t) /\ listing[t].alone =>
        /\ Alone(t)
        /\ listing[t].at # "set" => list_callback = t

\* A list that was stopped will see the flag.
StoppedSeesFlag ==
    \A t \in Listings : listing[t].stopped =>
        listing[t].at = "entries" /\ listing[t].entry < Entries /\ stop_list

\* The flag that a list will see was set while it was made.
FlagIsOfAStop ==
    \A t \in Listings :
        stop_list /\ listing[t].at = "entries" /\ listing[t].entry < Entries =>
            listing[t].stopped \/ listing[t].others

ListsIInv == ListsTyped /\ AloneOwnsCallback /\ StoppedSeesFlag /\ FlagIsOfAStop
        /\ ProgressToItsOwner /\ StopEndsItsList

-----------------------------------------------------------------------------
LEMMA NoListingType == NoListing \in ListsRecords /\ NoListing.at = "idle" /\ ~NoListing.stopped
BY EntriesAssumption DEF NoListing, ListsRecords, ListsPlaces, Kinds

LEMMA ListsInitOK == FileListsInit => ListsIInv
<1> SUFFICES ASSUME FileListsInit PROVE ListsIInv
  OBVIOUS
<1>1. \A t \in Listings : listing[t] = NoListing
  BY DEF FileListsInit
<1>2. ListsTyped
  BY NoListingType DEF FileListsInit, ListsTyped
<1>3. AloneOwnsCallback /\ StoppedSeesFlag /\ FlagIsOfAStop
  BY <1>1, NoListingType DEF AloneOwnsCallback, StoppedSeesFlag, FlagIsOfAStop, Listed
<1>4. ProgressToItsOwner /\ StopEndsItsList
  BY DEF FileListsInit, ProgressToItsOwner, StopEndsItsList
<1> QED BY <1>2, <1>3, <1>4 DEF ListsIInv

\* Steps of one list that change where it is, or how far, and neither the flag
\* nor what was reported.
LEMMA OwnStep ==
    ASSUME ListsIInv, NEW t \in Listings, Listed(t), NEW record \in ListsRecords,
           listing' = [listing EXCEPT ![t] = record],
           record.at = "idle" \/ record.alone = listing[t].alone,
           record.at \notin {"idle", "entries"} => ~record.stopped,
           record.at = "entries" => /\ record.stopped = listing[t].stopped
                                    /\ record.others = listing[t].others
                                    /\ listing[t].at = "entries" /\ ~stop_list,
           record.at = "idle" => record = NoListing,
           record.at \notin {"idle", "set"} /\ record.alone => list_callback' = t,
           list_callback' = list_callback \/ (list_callback' = t /\ listing[t].at = "set"),
           list_lock' \in [Kinds -> {Free} \cup Listings],
           UNCHANGED stop_list,
           ProgressToItsOwner', StopEndsItsList'
    PROVE  ListsIInv'
<1>1. ListsTyped /\ AloneOwnsCallback /\ StoppedSeesFlag /\ FlagIsOfAStop
  BY DEF ListsIInv
<1>2. /\ \A u \in Listings \ {t} : listing'[u] = listing[u]
      /\ listing'[t] = record /\ listing' \in [Listings -> ListsRecords]
  BY <1>1 DEF ListsTyped
<1>3. ListsTyped'
  BY <1>1, <1>2 DEF ListsTyped
<1>4. AloneOwnsCallback'
  <2> SUFFICES ASSUME NEW u \in Listings, listing'[u].at # "idle", listing'[u].alone
               PROVE  /\ \A v \in Listings \ {u} : listing'[v].at = "idle"
                      /\ listing'[u].at # "set" => list_callback' = u
    BY DEF AloneOwnsCallback, Alone, Listed
  <2>1. CASE u = t
    <3>1. Alone(t)
      BY <1>1, <1>2, <2>1 DEF AloneOwnsCallback
    <3> QED BY <1>2, <2>1, <3>1 DEF Alone, Listed
  <2>2. CASE u # t
    <3>1. Alone(u)
      BY <1>1, <1>2, <2>2 DEF AloneOwnsCallback, Listed
    <3> QED BY <2>2, <3>1 DEF Alone
  <2> QED BY <2>1, <2>2
<1>5. StoppedSeesFlag'
  <2>1. ~NoListing.stopped
    BY NoListingType
  <2> QED BY <1>1, <1>2, <2>1 DEF StoppedSeesFlag
<1>6. FlagIsOfAStop'
  BY <1>1, <1>2 DEF FlagIsOfAStop
<1> QED BY <1>3, <1>4, <1>5, <1>6 DEF ListsIInv

\* The record of a list that is asked for.
LEMMA AskedType ==
    ASSUME NEW kind \in Kinds, NEW alone \in BOOLEAN
    PROVE  LET asked == [NoListing EXCEPT !.at = "set", !.kind = kind, !.alone = alone]
           IN  asked.at = "set" /\ ~asked.stopped /\ asked \in ListsRecords /\ asked.alone = alone
<1>1. 0 \in 0..Entries
  BY EntriesAssumption
<1> QED BY <1>1 DEF NoListing, ListsRecords, ListsPlaces

LEMMA RequestStep ==
    ASSUME ListsIInv, NEW t \in Listings, NEW kind \in Kinds, RequestList(t, kind)
    PROVE  ListsIInv'
<1> DEFINE record == [NoListing EXCEPT !.at = "set", !.kind = kind, !.alone = Alone(t)]
           other(u) == [listing[u] EXCEPT !.alone = @ /\ ~Listed(u)]
<1>1. ListsTyped /\ AloneOwnsCallback /\ StoppedSeesFlag /\ FlagIsOfAStop
      /\ ProgressToItsOwner /\ StopEndsItsList
  BY DEF ListsIInv
<1>2. /\ ~Listed(t)
      /\ listing' = [u \in Listings |-> IF u = t THEN record ELSE other(u)]
      /\ UNCHANGED <<list_lock, stop_list, list_callback, list_reports, list_ends>>
  BY DEF RequestList
<1>3. /\ record.at = "set" /\ ~record.stopped /\ record \in ListsRecords
      /\ record.alone = Alone(t)
  <2>1. Alone(t) \in BOOLEAN
    BY DEF Alone
  <2> QED BY <2>1, AskedType, Zenon
<1>4. \A u \in Listings :
         /\ other(u) \in ListsRecords /\ other(u).at = listing[u].at /\ other(u).entry = listing[u].entry
         /\ other(u).stopped = listing[u].stopped /\ other(u).others = listing[u].others
         /\ other(u).alone = (listing[u].alone /\ ~Listed(u))
  BY <1>1, ZenonT(60) DEF ListsTyped, ListsRecords, Listed
<1> HIDE DEF record, other
<1>5. ListsTyped'
  BY <1>1, <1>2, <1>3, <1>4 DEF ListsTyped
<1>6. AloneOwnsCallback'
  <2> SUFFICES ASSUME NEW u \in Listings, listing'[u].at # "idle", listing'[u].alone
               PROVE  /\ \A v \in Listings \ {u} : listing'[v].at = "idle"
                      /\ listing'[u].at # "set" => list_callback' = u
    BY DEF AloneOwnsCallback, Alone, Listed
  <2>1. u = t /\ Alone(t)
    BY <1>2, <1>3, <1>4 DEF Listed
  <2> QED BY <1>2, <1>3, <1>4, <2>1 DEF Alone, Listed
<1>7. StoppedSeesFlag' /\ FlagIsOfAStop'
  BY <1>1, <1>2, <1>3, <1>4 DEF StoppedSeesFlag, FlagIsOfAStop
<1>8. ProgressToItsOwner' /\ StopEndsItsList'
  BY <1>1, <1>2 DEF ProgressToItsOwner, StopEndsItsList
<1> QED BY <1>5, <1>6, <1>7, <1>8 DEF ListsIInv

\* A stop and the begin of a list change the flags of lists, and nothing else
\* of the others.
LEMMA FlagStep ==
    ASSUME ListsIInv, listing' \in [Listings -> ListsRecords],
           \A u \in Listings : /\ listing'[u].at = "idle" <=> listing[u].at = "idle"
                               /\ listing'[u].at = "set" <=> listing[u].at = "set"
                               /\ listing'[u].alone = listing[u].alone,
           stop_list' \in BOOLEAN,
           UNCHANGED <<list_lock, list_callback, list_reports, list_ends>>,
           StoppedSeesFlag', FlagIsOfAStop'
    PROVE  ListsIInv'
<1>1. ListsTyped /\ AloneOwnsCallback /\ ProgressToItsOwner /\ StopEndsItsList
  BY DEF ListsIInv
<1>2. ListsTyped'
  BY <1>1 DEF ListsTyped
<1>3. AloneOwnsCallback'
  BY <1>1 DEF AloneOwnsCallback, Alone, Listed
<1>4. ProgressToItsOwner' /\ StopEndsItsList'
  BY <1>1 DEF ProgressToItsOwner, StopEndsItsList
<1> QED BY <1>2, <1>3, <1>4 DEF ListsIInv

LEMMA StopStep ==
    ASSUME ListsIInv, NEW t \in Listings, StopGettingFileList(t)
    PROVE  ListsIInv'
<1> DEFINE new(u) == [listing[u] EXCEPT
               !.stopped = @ \/ (u = t /\ listing[u].at = "entries" /\ listing[u].entry < Entries),
               !.others = @ \/ (u # t /\ listing[u].at = "entries")]
<1>1. ListsTyped /\ StoppedSeesFlag /\ FlagIsOfAStop
  BY DEF ListsIInv
<1>2. /\ stop_list' = TRUE /\ listing' = [u \in Listings |-> new(u)]
      /\ UNCHANGED <<list_lock, list_callback, list_reports, list_ends>>
  BY Zenon DEF StopGettingFileList
<1>3. \A u \in Listings :
         /\ new(u) \in ListsRecords /\ new(u).at = listing[u].at /\ new(u).entry = listing[u].entry
         /\ new(u).alone = listing[u].alone
         /\ new(u).stopped = (listing[u].stopped \/
                  (u = t /\ listing[u].at = "entries" /\ listing[u].entry < Entries))
         /\ new(u).others = (listing[u].others \/ (u # t /\ listing[u].at = "entries"))
  BY <1>1, ZenonT(60) DEF ListsTyped, ListsRecords
<1> HIDE DEF new
<1>4. /\ listing' \in [Listings -> ListsRecords]
      /\ \A u \in Listings : /\ listing'[u].at = "idle" <=> listing[u].at = "idle"
                             /\ listing'[u].at = "set" <=> listing[u].at = "set"
                             /\ listing'[u].alone = listing[u].alone
  BY <1>2, <1>3
<1>5. StoppedSeesFlag' /\ FlagIsOfAStop'
  BY <1>1, <1>2, <1>3 DEF StoppedSeesFlag, FlagIsOfAStop
<1> QED BY <1>2, <1>4, <1>5, FlagStep

LEMMA BeginStep ==
    ASSUME ListsIInv, NEW t \in Listings, GetFileList(t)
    PROVE  ListsIInv'
<1> DEFINE new(u) == IF u = t THEN [listing[u] EXCEPT !.at = "entries"]
                              ELSE [listing[u] EXCEPT !.stopped = FALSE]
<1>1. ListsTyped /\ StoppedSeesFlag /\ FlagIsOfAStop
  BY DEF ListsIInv
<1>2. /\ stop_list' = FALSE /\ listing' = [u \in Listings |-> new(u)]
      /\ listing[t].at = "start"
      /\ UNCHANGED <<list_lock, list_callback, list_reports, list_ends>>
  BY DEF GetFileList
<1>3. \A u \in Listings :
         /\ new(u) \in ListsRecords /\ new(u).alone = listing[u].alone
         /\ new(u).at = IF u = t THEN "entries" ELSE listing[u].at
         /\ new(u).stopped = IF u = t THEN listing[u].stopped ELSE FALSE
  BY <1>1, ZenonT(60) DEF ListsTyped, ListsRecords, ListsPlaces
<1> HIDE DEF new
<1>4. /\ listing' \in [Listings -> ListsRecords]
      /\ \A u \in Listings : /\ listing'[u].at = "idle" <=> listing[u].at = "idle"
                             /\ listing'[u].at = "set" <=> listing[u].at = "set"
                             /\ listing'[u].alone = listing[u].alone
  BY <1>2, <1>3
<1>5. StoppedSeesFlag' /\ FlagIsOfAStop'
  BY <1>1, <1>2, <1>3 DEF StoppedSeesFlag, FlagIsOfAStop
<1> QED BY <1>2, <1>4, <1>5, FlagStep

-----------------------------------------------------------------------------
LEMMA CallbackStep ==
    ASSUME ListsIInv, NEW t \in Listings, SetProgressCallback(t)
    PROVE  ListsIInv'
<1> DEFINE record == [listing[t] EXCEPT !.at = "wait"]
<1>1. ListsTyped /\ StoppedSeesFlag /\ ProgressToItsOwner /\ StopEndsItsList
  BY DEF ListsIInv
<1>2. /\ listing[t].at = "set" /\ list_callback' = t
      /\ listing' = [listing EXCEPT ![t].at = "wait"]
      /\ UNCHANGED <<list_lock, stop_list, list_messages, list_reports, list_ends>>
  BY DEF SetProgressCallback, Step
<1>3. /\ record \in ListsRecords /\ record.at = "wait" /\ record.alone = listing[t].alone
      /\ record.stopped = listing[t].stopped
      /\ listing' = [listing EXCEPT ![t] = record]
  BY <1>1, <1>2 DEF ListsTyped, ListsRecords, ListsPlaces
<1>4. ~listing[t].stopped
  BY <1>1, <1>2 DEF StoppedSeesFlag
<1>5. ProgressToItsOwner' /\ StopEndsItsList'
  BY <1>1, <1>2 DEF ProgressToItsOwner, StopEndsItsList
<1>6. list_lock' \in [Kinds -> {Free} \cup Listings]
  BY <1>1, <1>2 DEF ListsTyped
<1> HIDE DEF record
<1> QED BY <1>2, <1>3, <1>4, <1>5, <1>6, OwnStep DEF Listed

LEMMA LockStep ==
    ASSUME ListsIInv, NEW t \in Listings, LockList(t)
    PROVE  ListsIInv'
<1>1. ListsTyped /\ AloneOwnsCallback /\ StoppedSeesFlag /\ ProgressToItsOwner /\ StopEndsItsList
  BY DEF ListsIInv
<1>2. PICK valid \in BOOLEAN : Step(t, IF valid THEN "start" ELSE "reply")
  BY DEF LockList
<1> DEFINE where == IF valid THEN "start" ELSE "reply"
           record == [listing[t] EXCEPT !.at = where]
<1>3. /\ listing[t].at = "wait" /\ listing' = [listing EXCEPT ![t].at = where]
      /\ list_lock' = [list_lock EXCEPT ![listing[t].kind] = t]
      /\ UNCHANGED <<stop_list, list_callback, list_messages, list_reports, list_ends>>
  BY <1>2 DEF LockList, Step
<1>4. /\ record \in ListsRecords /\ record.at \in {"start", "reply"}
      /\ record.alone = listing[t].alone /\ record.stopped = listing[t].stopped
      /\ listing' = [listing EXCEPT ![t] = record]
  BY <1>1, <1>3 DEF ListsTyped, ListsRecords, ListsPlaces
<1>5. ~listing[t].stopped /\ (listing[t].alone => list_callback = t)
  BY <1>1, <1>3 DEF StoppedSeesFlag, AloneOwnsCallback, Listed
<1>6. ProgressToItsOwner' /\ StopEndsItsList'
  BY <1>1, <1>3 DEF ProgressToItsOwner, StopEndsItsList
<1>7. list_lock' \in [Kinds -> {Free} \cup Listings]
  BY <1>1, <1>3 DEF ListsTyped
<1> HIDE DEF record
<1> QED BY <1>3, <1>4, <1>5, <1>6, <1>7, OwnStep DEF Listed

\* The end of a list gives back the lock of its kind.
LEMMA EndStep ==
    ASSUME ListsIInv, NEW t \in Listings, Listed(t),
           list_lock' = [list_lock EXCEPT ![listing[t].kind] = Free],
           listing' = [listing EXCEPT ![t] = NoListing],
           UNCHANGED <<stop_list, list_callback, list_reports>>,
           StopEndsItsList'
    PROVE  ListsIInv'
<1>1. ListsTyped /\ ProgressToItsOwner
  BY DEF ListsIInv
<1>2. ProgressToItsOwner' /\ list_lock' \in [Kinds -> {Free} \cup Listings]
  BY <1>1 DEF ProgressToItsOwner, ListsTyped
<1> QED BY <1>2, OwnStep, NoListingType

LEMMA EntryStep ==
    ASSUME ListsIInv, NEW t \in Listings, ListEntry(t)
    PROVE  ListsIInv'
<1>1. ListsTyped /\ AloneOwnsCallback /\ StoppedSeesFlag /\ FlagIsOfAStop
      /\ ProgressToItsOwner /\ StopEndsItsList
  BY DEF ListsIInv
<1>2. /\ listing[t].at = "entries" /\ UNCHANGED <<stop_list, list_callback, list_messages>>
      /\ Listed(t)
  BY DEF ListEntry, Listed
<1>3. listing[t].entry \in 0..Entries
  BY <1>1 DEF ListsTyped, ListsRecords
<1>4. CASE listing[t].entry = Entries
  <2>1. EndList(t, FALSE) /\ UNCHANGED list_reports
    BY <1>4 DEF ListEntry
  <2>2. ~listing[t].stopped
    BY <1>1, <1>4, EntriesAssumption DEF StoppedSeesFlag
  <2>3. StopEndsItsList'
    BY <1>1, <2>1, <2>2 DEF StopEndsItsList, EndList
  <2> QED BY <1>2, <2>1, <2>3, EndStep DEF EndList
<1>5. CASE listing[t].entry # Entries /\ stop_list
  <2>1. EndList(t, TRUE) /\ UNCHANGED list_reports
    BY <1>5 DEF ListEntry
  <2>2. listing[t].stopped \/ listing[t].others
    BY <1>1, <1>2, <1>3, <1>5, EntriesAssumption DEF FlagIsOfAStop
  <2>3. StopEndsItsList'
    BY <1>1, <2>1, <2>2 DEF StopEndsItsList, EndList
  <2> QED BY <1>2, <2>1, <2>3, EndStep DEF EndList
<1>6. CASE listing[t].entry # Entries /\ ~stop_list
  <2> DEFINE record == [listing[t] EXCEPT !.entry = @ + 1]
  <2>1. /\ listing' = [listing EXCEPT ![t].entry = @ + 1]
        /\ UNCHANGED <<list_lock, list_ends>>
        /\ \/ list_reports' = list_reports \cup
                  {[to |-> list_callback, from |-> t, alone |-> listing[t].alone]}
           \/ UNCHANGED list_reports
    BY <1>6 DEF ListEntry
  <2>6. listing[t].entry + 1 \in 0..Entries
    BY <1>3, <1>6, EntriesAssumption
  <2>2. /\ record \in ListsRecords /\ record.at = "entries" /\ record.alone = listing[t].alone
        /\ record.stopped = listing[t].stopped /\ record.others = listing[t].others
        /\ listing' = [listing EXCEPT ![t] = record]
    BY <1>1, <1>2, <2>1, <2>6 DEF ListsTyped, ListsRecords
  <2>3. listing[t].alone => list_callback = t
    BY <1>1, <1>2 DEF AloneOwnsCallback
  <2>4. ProgressToItsOwner' /\ StopEndsItsList'
    BY <1>1, <2>1, <2>3 DEF ProgressToItsOwner, StopEndsItsList
  <2>5. list_lock' \in [Kinds -> {Free} \cup Listings]
    BY <1>1, <2>1 DEF ListsTyped
  <2> HIDE DEF record
  <2> QED BY <1>2, <1>6, <2>1, <2>2, <2>3, <2>4, <2>5, OwnStep
<1> QED BY <1>4, <1>5, <1>6

LEMMA FailureStep ==
    ASSUME ListsIInv, NEW t \in Listings, ReplyFailure(t)
    PROVE  ListsIInv'
<1>1. StopEndsItsList'
  BY DEF ListsIInv, ReplyFailure, StopEndsItsList
<1> QED BY <1>1, EndStep DEF ReplyFailure, Listed

\* The strengthening is inductive.
LEMMA ListsNextOK == ASSUME ListsIInv, [FileListsNext]_listVars PROVE ListsIInv'
<1>1. CASE UNCHANGED listVars
  BY <1>1 DEF listVars, ListsIInv, ListsTyped, AloneOwnsCallback, StoppedSeesFlag, FlagIsOfAStop,
              ProgressToItsOwner, StopEndsItsList, Alone, Listed
<1>2. CASE \E t \in Listings : ListStep(t)
  BY <1>2, CallbackStep, LockStep, BeginStep, EntryStep, FailureStep DEF ListStep
<1>3. CASE \E t \in Listings : StopGettingFileList(t)
  BY <1>3, StopStep
<1>4. CASE \E t \in Listings : \E kind \in Kinds : RequestList(t, kind)
  BY <1>4, RequestStep
<1> QED BY <1>1, <1>2, <1>3, <1>4 DEF FileListsNext

-----------------------------------------------------------------------------
\* The strengthening holds in every state.
THEOREM ListsInductive == FileListsSpec => []ListsIInv
BY ListsInitOK, ListsNextOK, PTL DEF FileListsSpec

\* Every state has the types declared.
THEOREM ListsTypeCorrect == FileListsSpec => []FileListsTypeOK
<1>1. ListsIInv => FileListsTypeOK
  BY DEF ListsIInv, ListsTyped, ListsRecords, ListsPlaces, FileListsTypeOK
<1> QED BY <1>1, ListsInductive, PTL

\* Progress of a list that is alone is reported to its own request, and stops
\* end the list they meet.
THEOREM ListsMeetTheirStops == FileListsSpec => []FileListsCorrect
<1>1. ListsIInv => FileListsCorrect
  BY DEF ListsIInv, FileListsCorrect
<1> QED BY <1>1, ListsInductive, PTL

(***************************************************************************)
(* Proofs about Settings, for any arguments, files and ports.              *)
(*                                                                         *)
(* Each step of the start has made of the files and the options what the   *)
(* steps before it left; the positional arguments are taken one by one,    *)
(* and those of a port's range are in use up to the one that is tried.     *)
(***************************************************************************)

Walks == [paths : Seq(Nat), ended : BOOLEAN, folder : BOOLEAN]
NoWalk == [paths |-> <<>>, ended |-> FALSE, folder |-> FALSE]
WalkStep(s, i) ==
    IF s.ended THEN s
    ELSE CASE arguments[i] \in {"file", "image folder"} -> [s EXCEPT !.paths = Append(@, i)]
           [] arguments[i] = "folder" -> [paths |-> <<>>, ended |-> TRUE, folder |-> TRUE]
           [] arguments[i] = "special" -> [paths |-> <<>>, ended |-> TRUE, folder |-> FALSE]
           [] arguments[i] = "missing" -> [s EXCEPT !.paths = <<>>]

LEMMA WalkStepType ==
    ASSUME arguments \in Seq(ArgumentKinds), NEW s \in Walks, NEW i \in 1..Len(arguments)
    PROVE  WalkStep(s, i) \in Walks
<1>1. arguments[i] \in ArgumentKinds
  OBVIOUS
<1>2. s.paths \in Seq(Nat) /\ i \in Nat
  BY DEF Walks
<1>3. Append(s.paths, i) \in Seq(Nat) /\ <<>> \in Seq(Nat)
  BY <1>2
<1> QED BY <1>1, <1>3, Zenon DEF WalkStep, Walks, ArgumentKinds

LEMMA PositionalWalk ==
    ASSUME arguments \in Seq(ArgumentKinds)
    PROVE  \E f \in [0..Len(arguments) -> Walks] :
              /\ f[0] = NoWalk
              /\ \A i \in 1..Len(arguments) : f[i] = WalkStep(f[i - 1], i)
              /\ Positional = f[Len(arguments)]
<1> DEFINE n == Len(arguments)
           Body(f) == [i \in 0..n |-> IF i = 0 THEN NoWalk ELSE WalkStep(f[i - 1], i)]
           after == CHOOSE f : f = Body(f)
           step == [i \in 1..n |-> [w \in Walks |-> WalkStep(w, i)]]
<1>1. n \in Nat
  OBVIOUS
<1>2. Positional = after[n]
  BY DEF Positional, NoWalk, WalkStep
<1>3. step \in [1..n -> [Walks -> Walks]]
  BY WalkStepType
<1>4. NoWalk \in Walks
  <2>1. <<>> \in Seq(Nat) /\ FALSE \in BOOLEAN
    OBVIOUS
  <2> QED BY <2>1 DEF NoWalk, Walks
<1> HIDE DEF n
<1>5. PICK f \in [0..n -> Walks] : Recursive(f, n, NoWalk, step)
  <2> HIDE DEF step
  <2> QED BY <1>1, <1>3, <1>4, RecursionTo
<1>6. ASSUME NEW h \in [0..n -> Walks], NEW i \in 1..n PROVE step[i][h[i - 1]] = WalkStep(h[i - 1], i)
  <2>1. h[i - 1] \in Walks
    BY <1>1
  <2> QED BY <2>1
<1>7. f = Body(f)
  <2>1. \A i \in 0..n : f[i] = Body(f)[i]
    BY <1>1, <1>5, <1>6 DEF Recursive
  <2> HIDE DEF step
  <2> QED BY <1>5, <2>1
<1>8. after = Body(after)
  <2> HIDE DEF Body
  <2> QED BY <1>7
<1>9. after[0] = NoWalk /\ \A i \in 1..n : after[i] = WalkStep(after[i - 1], i)
  <2> HIDE DEF after
  <2>1. \A i \in 0..n : after[i] = IF i = 0 THEN NoWalk ELSE WalkStep(after[i - 1], i)
    BY <1>8
  <2> QED BY <2>1, <1>1
<1>10. after \in [0..n -> Walks]
  <2> DEFINE G == {i \in 0..n : after[i] \in Walks}
  <2>1. 0 \in G
    BY <1>1, <1>4, <1>9
  <2>2. \A i \in 0..n - 1 : i \in G => i + 1 \in G
    <3>1. ASSUME NEW i \in 0..n - 1, i \in G PROVE i + 1 \in G
      <4>1. i + 1 \in 1..n /\ i + 1 \in 0..n /\ i + 1 - 1 = i
        BY <1>1
      <4>2. after[i] \in Walks
        BY <3>1
      <4> HIDE DEF after
      <4>3. after[i + 1] = WalkStep(after[i], i + 1)
        BY <1>9, <4>1
      <4>4. WalkStep(after[i], i + 1) \in Walks
        BY <4>1, <4>2, WalkStepType DEF n
      <4> QED BY <4>1, <4>3, <4>4
    <3> QED BY <3>1
  <2>3. 0..n \subseteq G
    <3> HIDE DEF G
    <3> QED BY <1>1, <2>1, <2>2, InductionTo
  <2>4. \A i \in 0..n : after[i] \in Walks
    BY <2>3
  <2> HIDE DEF after
  <2> QED BY <1>8, <2>4
<1> HIDE DEF after
<1> QED BY <1>2, <1>9, <1>10 DEF n

\* What ends the list, and the images since the last name that is missing.
EndsList(j) == arguments[j] \in {"folder", "special"}
FolderFirst(i) ==
    \E j \in 1..i : arguments[j] = "folder" /\ \A k \in 1..j - 1 : arguments[k] # "special"
Collected(i) == {j \in 1..i : \A k \in 1..i : arguments[k] = "missing" => k < j}
Ascending(paths) ==
    \A a, b \in DOMAIN paths : a < b => paths[a] < paths[b]
Places(paths) == {paths[a] : a \in DOMAIN paths}
RightWalk(s, i) ==
    /\ s.ended <=> \E j \in 1..i : EndsList(j)
    /\ s.folder <=> FolderFirst(i)
    /\ s.ended => Places(s.paths) = {}
    /\ ~s.ended => Places(s.paths) = Collected(i)
    /\ Ascending(s.paths)

\* An image is put at the end of those before it.
LEMMA OneMore ==
    ASSUME NEW paths \in Seq(Nat), NEW i \in Nat, \A p \in Places(paths) : p < i, Ascending(paths)
    PROVE  /\ Places(Append(paths, i)) = Places(paths) \cup {i}
           /\ Ascending(Append(paths, i))
<1> DEFINE more == Append(paths, i)
<1>1. /\ DOMAIN more = 1..Len(paths) + 1 /\ more[Len(paths) + 1] = i
      /\ \A a \in 1..Len(paths) : more[a] = paths[a] /\ paths[a] \in Nat
      /\ DOMAIN paths = 1..Len(paths) /\ Len(paths) \in Nat
  OBVIOUS
<1> HIDE DEF more
<1>2. Places(more) = Places(paths) \cup {i}
  BY <1>1 DEF Places
<1>3. Ascending(more)
  <2>1. ASSUME NEW a \in DOMAIN more, NEW b \in DOMAIN more, a < b PROVE more[a] < more[b]
    <3>1. CASE b = Len(paths) + 1
      <4>1. a \in 1..Len(paths) /\ more[a] = paths[a]
        BY <1>1, <2>1, <3>1
      <4> QED BY <1>1, <3>1, <4>1 DEF Places
    <3>2. CASE b # Len(paths) + 1
      BY <1>1, <2>1, <3>2, SMTT(30) DEF Ascending
    <3> QED BY <3>1, <3>2
  <2> QED BY <2>1 DEF Ascending
<1> QED BY <1>2, <1>3 DEF more

LEMMA NothingCollected == Places(<<>>) = {} /\ Ascending(<<>>)
  BY DEF Places, Ascending

LEMMA WalkStepRight ==
    ASSUME arguments \in Seq(ArgumentKinds), NEW i \in 1..Len(arguments), NEW s \in Walks,
           RightWalk(s, i - 1)
    PROVE  RightWalk(WalkStep(s, i), i)
<1> DEFINE t == WalkStep(s, i)
<1> SUFFICES RightWalk(t, i)
  OBVIOUS
<1>1. arguments[i] \in ArgumentKinds /\ i \in Nat /\ i >= 1
  OBVIOUS
<1>2. 1..i = 1..(i - 1) \cup {i}
  BY <1>1
<1>3. (\E j \in 1..i : EndsList(j)) <=> (s.ended \/ EndsList(i))
  BY <1>2 DEF RightWalk
<1>4. s.ended \in BOOLEAN /\ s.folder \in BOOLEAN /\ s.paths \in Seq(Nat)
  BY DEF Walks
<1>5. FolderFirst(i - 1) => s.ended
  BY DEF RightWalk, FolderFirst, EndsList
<1>6. FolderFirst(i) <=> (FolderFirst(i - 1) \/ (arguments[i] = "folder"
                             /\ \A k \in 1..i - 1 : arguments[k] # "special"))
  <2>1. \A P, Q : (\E j \in 1..i : j \in P) <=> ((\E j \in 1..i - 1 : j \in P) \/ i \in P)
    BY <1>2
  <2> DEFINE P == {j \in 1..i : arguments[j] = "folder" /\ \A k \in 1..j - 1 : arguments[k] # "special"}
  <2>2. FolderFirst(i) <=> \E j \in 1..i : j \in P
    BY DEF FolderFirst
  <2>3. FolderFirst(i - 1) <=> \E j \in 1..i - 1 : j \in P
    BY <1>2 DEF FolderFirst
  <2>4. i \in P <=> (arguments[i] = "folder" /\ \A k \in 1..i - 1 : arguments[k] # "special")
    BY <1>2
  <2> HIDE DEF P
  <2> QED BY <2>1, <2>2, <2>3, <2>4
<1>7. CASE s.ended
  <2>1. t = s
    BY <1>7 DEF WalkStep
  <2>2. FolderFirst(i) <=> FolderFirst(i - 1)
    <3>1. ASSUME \A k \in 1..i - 1 : arguments[k] # "special", arguments[i] = "folder"
          PROVE  FolderFirst(i - 1)
      <4>1. PICK j \in 1..i - 1 : EndsList(j)
        BY <1>7 DEF RightWalk
      <4>2. arguments[j] = "folder" /\ 1..j - 1 \subseteq 1..i - 1
        BY <3>1, <4>1 DEF EndsList
      <4> QED BY <3>1, <4>2 DEF FolderFirst
    <3> QED BY <1>6, <3>1
  <2>3. \E j \in 1..i : EndsList(j)
    BY <1>3, <1>7
  <2> HIDE DEF t
  <2> QED BY <1>3, <1>7, <1>4, <2>1, <2>2, Zenon DEF RightWalk
<1>8. CASE ~s.ended /\ arguments[i] \in {"file", "image folder"}
  <2>1. t = [s EXCEPT !.paths = Append(@, i)]
    BY <1>8, Zenon DEF WalkStep
  <2>2. t.paths = Append(s.paths, i) /\ t.ended = s.ended /\ t.folder = s.folder
    BY <2>1 DEF Walks
  <2>3. Places(s.paths) = Collected(i - 1)
    BY <1>8, Zenon DEF RightWalk
  <2>4. \A p \in Places(s.paths) : p < i
    BY <2>3 DEF Collected
  <2>5. Places(t.paths) = Collected(i - 1) \cup {i} /\ Ascending(t.paths)
    BY <1>1, <1>4, <2>2, <2>3, <2>4, OneMore DEF RightWalk
  <2>6. Collected(i) = Collected(i - 1) \cup {i}
    <3>1. arguments[i] # "missing"
      BY <1>8, Zenon
    <3>2. \A j \in 1..i : j \in 1..i - 1 \/ j = i
      BY <1>2
    <3>3. \A j \in 1..i - 1 : j < i
      BY <1>1
    <3>4. ASSUME NEW j \in 1..i PROVE j \in Collected(i) <=> j \in Collected(i - 1) \/ j = i
      <4>1. CASE j = i
        BY <3>1, <3>2, <3>3, <4>1 DEF Collected
      <4>2. CASE j # i
        BY <3>1, <3>2, <1>2, <4>2 DEF Collected
      <4> QED BY <4>1, <4>2
    <3> QED BY <1>2, <3>4 DEF Collected
  <2>7. ~EndsList(i) /\ arguments[i] # "folder"
    BY <1>8, Zenon DEF EndsList
  <2>8. t.ended = FALSE /\ ~\E j \in 1..i : EndsList(j)
    BY <1>3, <1>4, <1>8, <2>2, <2>7, Zenon
  <2>9. t.folder <=> FolderFirst(i)
    <3>1. FolderFirst(i) <=> FolderFirst(i - 1)
      BY <1>6, <2>7 DEF FolderFirst
    <3> QED BY <2>2, <3>1 DEF RightWalk
  <2> HIDE DEF t
  <2> QED BY <2>5, <2>6, <2>8, <2>9 DEF RightWalk
<1>9. CASE ~s.ended /\ EndsList(i)
  <2>1. t = [paths |-> <<>>, ended |-> TRUE, folder |-> arguments[i] = "folder"]
    BY <1>9, Zenon DEF WalkStep, EndsList
  <2>2. t.paths = <<>> /\ t.ended = TRUE /\ t.folder = (arguments[i] = "folder")
    BY <2>1
  <2>3. \E j \in 1..i : EndsList(j)
    BY <1>3, <1>9
  <2>4. FolderFirst(i) <=> arguments[i] = "folder"
    <3>1. \A k \in 1..i - 1 : arguments[k] # "special"
      BY <1>9 DEF RightWalk, EndsList
    <3> QED BY <1>5, <1>6, <1>9, <3>1
  <2>5. t.folder <=> FolderFirst(i)
    BY <2>2, <2>4
  <2> HIDE DEF t
  <2> QED BY <2>2, <2>3, <2>5, NothingCollected DEF RightWalk
<1>10. CASE ~s.ended /\ arguments[i] = "missing"
  <2>1. t = [s EXCEPT !.paths = <<>>]
    BY <1>10 DEF WalkStep
  <2>2. t.paths = <<>> /\ t.ended = s.ended /\ t.folder = s.folder
    BY <2>1 DEF Walks
  <2>3. Collected(i) = {}
    BY <1>1, <1>10 DEF Collected
  <2>4. ~EndsList(i) /\ arguments[i] # "folder"
    BY <1>10 DEF EndsList
  <2>5. t.ended = FALSE /\ ~\E j \in 1..i : EndsList(j)
    BY <1>3, <1>4, <1>10, <2>2, <2>4
  <2>6. t.folder <=> FolderFirst(i)
    <3>1. FolderFirst(i) <=> FolderFirst(i - 1)
      BY <1>6, <2>4 DEF FolderFirst
    <3> QED BY <2>2, <3>1 DEF RightWalk
  <2> HIDE DEF t
  <2> QED BY <2>2, <2>3, <2>5, <2>6, NothingCollected DEF RightWalk
<1> QED BY <1>1, <1>7, <1>8, <1>9, <1>10, Zenon DEF ArgumentKinds, EndsList

\* What Positional makes of any arguments.
LEMMA PositionalResult ==
    ASSUME arguments \in Seq(ArgumentKinds)
    PROVE  Positional \in Walks /\ RightWalk(Positional, Len(arguments))
<1> DEFINE n == Len(arguments)
<1>1. n \in Nat
  OBVIOUS
<1>2. PICK f \in [0..n -> Walks] :
              /\ f[0] = NoWalk
              /\ \A i \in 1..n : f[i] = WalkStep(f[i - 1], i)
              /\ Positional = f[n]
  BY PositionalWalk
<1> DEFINE G == {i \in 0..n : RightWalk(f[i], i)}
<1>3. RightWalk(NoWalk, 0)
  <2>1. (\E j \in 1..0 : EndsList(j)) = FALSE /\ FolderFirst(0) = FALSE /\ Collected(0) = {}
    BY DEF FolderFirst, Collected
  <2> QED BY <2>1, NothingCollected DEF RightWalk, NoWalk
<1>4. 0 \in G
  BY <1>1, <1>2, <1>3
<1>5. ASSUME NEW i \in 0..n - 1, i \in G PROVE i + 1 \in G
  <2>1. i + 1 \in 1..n /\ (i + 1) - 1 = i /\ f[i] \in Walks /\ RightWalk(f[i], i)
    BY <1>1, <1>2, <1>5
  <2>2. f[i + 1] = WalkStep(f[i], i + 1)
    <3>1. f[i + 1] = WalkStep(f[(i + 1) - 1], i + 1)
      BY <1>2, <2>1
    <3> QED BY <2>1, <3>1
  <2>3. RightWalk(WalkStep(f[i], i + 1), i + 1)
    <3>1. RightWalk(f[i], (i + 1) - 1)
      BY <2>1
    <3> HIDE DEF n
    <3> QED BY <2>1, <3>1, WalkStepRight DEF n
  <2> QED BY <1>1, <2>1, <2>2, <2>3
<1>6. 0..n \subseteq G
  <2> HIDE DEF G, n
  <2> QED BY <1>1, <1>4, <1>5, InductionTo
<1>7. n \in 0..n
  BY <1>1
<1> QED BY <1>2, <1>6, <1>7

-----------------------------------------------------------------------------
(* The sources of a setting. *)

\* The inputs of a behaviour, which no step changes.
SettingsInputs ==
    /\ setting_key \in Keys /\ system_file \in Contents /\ user_file \in Contents
    /\ options \subseteq OptionsOf(setting_key)
    /\ arguments \in Seq(ArgumentKinds)
    /\ setting_key # "starting_folder" => arguments = <<>>

\* What each step has made of them so far.
FromCommandLine == IF Positional.folder THEN "positional" ELSE FromOptions
FromSystem == IF system_file = "missing" THEN "null" ELSE JSONSettingsFromFile(system_file, "system")
FromUser == IF user_file = "missing" THEN FromSystem
            ELSE MergePatch(FromSystem, JSONSettingsFromFile(user_file, "user"))
SettingsSoFar ==
    /\ stage \in {"command line", "system", "user", "json", "listen", "try", "run"}
    /\ stage = "command line" => setting = "default" /\ settings_json = "null" /\ file_paths = <<>>
    /\ stage # "command line" => file_paths = Positional.paths
    /\ stage \in {"system", "user", "json"} => setting = FromCommandLine
    /\ stage = "system" => settings_json = "null"
    /\ stage = "user" => settings_json = FromSystem
    /\ stage = "json" => settings_json = FromUser
    /\ settings_json \in {"null", "none", "system", "user", "option"}
    /\ setting \in {"default", "system", "user", "positional"} \cup UNION {OptionsOf(k) : k \in Keys}
    /\ Applied => SettingsPrecedence

\* Every port of the range up to the one that is tried is in use.
FirstPort(l) == IF Len(l.ports) = 0 THEN DefaultPort ELSE l.ports[1]
ListenerTyped(l) ==
    /\ l = [ports |-> l.ports, busy |-> l.busy, port |-> l.port, end |-> l.end, ok |-> l.ok]
    /\ l.ports \in Seq(Int) /\ FirstPort(l) \in AllPorts
    /\ l.busy \subseteq AllPorts /\ l.port \in Nat /\ l.end = PortEnd(l.ports) /\ l.end \in AllPorts
    /\ l.ok \in BOOLEAN
TriedSoFar(l) ==
    /\ FirstPort(l) <= l.port
    /\ Len(l.ports) = 1 => l.port = FirstPort(l)
    /\ \A p \in FirstPort(l)..l.port - 1 : p \in l.busy
PortsTried ==
    /\ stage \notin {"try", "run"} => listener = NoListener
    /\ stage = "try" => ListenerTyped(listener) /\ TriedSoFar(listener) /\ ~listener.ok
    /\ stage = "run" => listener.ok \in BOOLEAN /\ LowestFreePort
    /\ listener.ok => listener.port \in AllPorts

SettingsIInv == SettingsInputs /\ SettingsSoFar /\ PortsTried

-----------------------------------------------------------------------------
LEMMA OptionsAreFew ==
    ASSUME setting_key \in Keys
    PROVE  OptionsOf(setting_key) \subseteq {"host", "root", "top_level_folder", "base", "threads"}
BY DEF Keys, OptionsOf

LEMMA FromOptionsIs ==
    ASSUME SettingsInputs
    PROVE  /\ options \ Deprecated # {} => FromOptions = setting_key
           /\ options \ Deprecated = {} /\ options \ {"threads"} # {} =>
                 FromOptions = CHOOSE o \in options : TRUE
           /\ options \ {"threads"} = {} => FromOptions = "default"
           /\ FromOptions \in {"default"} \cup UNION {OptionsOf(k) : k \in Keys}
<1>1. CASE setting_key = "host"
  BY <1>1 DEF SettingsInputs, FromOptions, Deprecated, OptionsOf, Keys
<1>2. CASE setting_key = "top_level_folder"
  <2>1. options \subseteq {"root", "top_level_folder"}
    BY <1>2 DEF SettingsInputs, OptionsOf
  <2>2. CASE "top_level_folder" \in options
    <3>1. options \ Deprecated = {"top_level_folder"}
      BY <2>1, <2>2 DEF Deprecated
    <3> QED BY <1>2, <3>1 DEF FromOptions, OptionsOf, Keys
  <2>3. CASE options = {"root"}
    <3>1. options \ Deprecated = {} /\ options \ {"threads"} = options
      BY <2>3 DEF Deprecated
    <3> QED BY <1>2, <2>3, <3>1 DEF FromOptions, OptionsOf, Keys
  <2>4. CASE options = {}
    BY <2>4 DEF FromOptions
  <2> QED BY <2>1, <2>2, <2>3, <2>4
<1>3. CASE setting_key = "starting_folder"
  BY <1>3 DEF SettingsInputs, FromOptions, Deprecated, OptionsOf, Keys
<1>4. CASE setting_key = "threads"
  BY <1>4 DEF SettingsInputs, FromOptions, Deprecated, OptionsOf, Keys
<1> QED BY <1>1, <1>2, <1>3, <1>4 DEF SettingsInputs, Keys

\* Which place a setting comes from, in the files and on the command line.
InFile(f) == f = "value" /\ setting_key # "threads"
FromFiles ==
    IF InFile(user_file) THEN "user"
    ELSE IF InFile(system_file) /\ user_file # "unparsable" THEN "system"
    ELSE "none"

LEMMA FilesAreMerged ==
    ASSUME SettingsInputs, ~(system_file = "missing" /\ user_file = "missing")
    PROVE  FromUser \in {"null", FromFiles}
           /\ (FromUser = "null" => FromFiles = "none")
<1>1. /\ FromSystem \in {"null", "none", "system"}
      /\ FromSystem = "system" <=> InFile(system_file)
      /\ FromSystem = "null" <=> system_file \in {"missing", "unparsable"}
  BY Zenon DEF FromSystem, JSONSettingsFromFile, InFile, SettingsInputs, Contents
<1> DEFINE patch == JSONSettingsFromFile(user_file, "user")
<1>2. user_file # "missing" =>
         /\ patch \in {"null", "none", "user"}
         /\ patch = "user" <=> InFile(user_file)
         /\ patch = "null" <=> user_file = "unparsable"
  BY Zenon DEF JSONSettingsFromFile, InFile, SettingsInputs, Contents
<1>3. user_file = "missing" => ~InFile(user_file)
  BY DEF InFile
<1> HIDE DEF patch
<1>4. CASE user_file = "missing"
  BY <1>1, <1>3, <1>4 DEF FromUser, FromFiles
<1>5. CASE user_file # "missing"
  <2>1. FromUser = MergePatch(FromSystem, patch)
    BY <1>5 DEF FromUser, patch
  <2> QED BY <1>1, <1>2, <1>5, <2>1 DEF MergePatch, FromFiles
<1> QED BY <1>4, <1>5

LEMMA NoFiles ==
    ASSUME system_file = "missing", user_file = "missing"
    PROVE  FromUser = "null" /\ FromFiles = "none"
BY DEF FromUser, FromSystem, FromFiles, InFile

LEMMA FolderIs ==
    ASSUME SettingsInputs
    PROVE  /\ Positional.folder \in BOOLEAN
           /\ Positional.folder <=> \E i \in DOMAIN arguments :
                                      /\ arguments[i] = "folder"
                                      /\ \A j \in 1..i - 1 : arguments[j] # "special"
           /\ Positional.folder => options \ Deprecated = {}
<1>1. Positional \in Walks /\ RightWalk(Positional, Len(arguments))
  BY PositionalResult DEF SettingsInputs
<1>2. DOMAIN arguments = 1..Len(arguments)
  BY DEF SettingsInputs
<1>3. Positional.folder <=> FolderFirst(Len(arguments))
  BY <1>1 DEF RightWalk
<1>4. Positional.folder => setting_key = "starting_folder"
  <2>1. ASSUME setting_key # "starting_folder" PROVE ~FolderFirst(Len(arguments))
    <3>1. arguments = <<>>
      BY <2>1 DEF SettingsInputs
    <3>2. Len(arguments) = 0
      BY <3>1
    <3> QED BY <3>2 DEF FolderFirst
  <2> QED BY <1>3, <2>1
<1>5. setting_key = "starting_folder" => options \ Deprecated = {}
  BY DEF SettingsInputs, OptionsOf, Deprecated, Keys
<1> QED BY <1>1, <1>2, <1>3, <1>4, <1>5 DEF Walks, FolderFirst

\* The right value of a setting.
RightSetting ==
    IF options \ Deprecated # {} THEN setting_key
    ELSE IF FromFiles # "none" THEN FromFiles ELSE FromCommandLine

LEMMA RightSettingPrecedes ==
    ASSUME SettingsInputs, setting = RightSetting
    PROVE  SettingsPrecedence
<1>1. FromFiles = "none" => ~InFile(user_file) /\ ~(InFile(system_file) /\ user_file # "unparsable")
  BY DEF FromFiles
<1>2. CASE options \ Deprecated # {}
  BY <1>2 DEF RightSetting, SettingsPrecedence
<1>3. CASE options \ Deprecated = {} /\ FromFiles # "none"
  BY <1>3 DEF RightSetting, SettingsPrecedence, FromFiles, InFile
<1>4. CASE options \ Deprecated = {} /\ FromFiles = "none"
  <2>1. setting = FromCommandLine
    BY <1>4 DEF RightSetting
  <2>2. CASE Positional.folder
    <3>1. setting = "positional"
      BY <2>1, <2>2 DEF FromCommandLine
    <3>2. \E i \in DOMAIN arguments :
             arguments[i] = "folder" /\ \A j \in 1..i - 1 : arguments[j] # "special"
      BY <2>2, FolderIs
    <3> QED BY <1>1, <1>4, <3>1, <3>2 DEF SettingsPrecedence, InFile
  <2>3. CASE ~Positional.folder
    <3>1. setting = FromOptions
      BY <2>1, <2>3 DEF FromCommandLine
    <3>2. ~\E i \in DOMAIN arguments :
             arguments[i] = "folder" /\ \A j \in 1..i - 1 : arguments[j] # "special"
      BY <2>3, FolderIs
    <3>3. setting = IF options \ {"threads"} # {} THEN CHOOSE o \in options : TRUE ELSE "default"
      BY <1>4, <3>1, FromOptionsIs
    <3> QED BY <1>1, <1>4, <3>2, <3>3 DEF SettingsPrecedence, InFile
  <2> QED BY <2>2, <2>3
<1> QED BY <1>2, <1>3, <1>4

-----------------------------------------------------------------------------
(* The steps. *)

LEMMA InputsStay ==
    ASSUME SettingsInputs, UNCHANGED Inputs
    PROVE  /\ SettingsInputs' /\ Positional' = Positional /\ FromOptions' = FromOptions
           /\ FromCommandLine' = FromCommandLine /\ FromSystem' = FromSystem
           /\ FromUser' = FromUser
           /\ RightSetting' = RightSetting
<1>1. /\ setting_key' = setting_key /\ system_file' = system_file /\ user_file' = user_file
      /\ options' = options /\ arguments' = arguments
  BY DEF Inputs
<1>2. SettingsInputs' /\ FromOptions' = FromOptions
  BY <1>1 DEF SettingsInputs, FromOptions
<1>3. Positional' = Positional
  BY <1>1 DEF Positional
<1>4. FromSystem' = FromSystem
  BY <1>1 DEF FromSystem, JSONSettingsFromFile
<1>5. FromUser' = FromUser
  BY <1>1, <1>4 DEF FromUser, JSONSettingsFromFile, MergePatch
<1>6. FromCommandLine' = FromCommandLine
  BY <1>2, <1>3 DEF FromCommandLine
<1>7. RightSetting' = RightSetting
  BY <1>1, <1>6 DEF RightSetting, FromFiles, InFile
<1> QED BY <1>2, <1>3, <1>4, <1>5, <1>6, <1>7

LEMMA CommandLineStep ==
    ASSUME SettingsIInv, ApplyCommandLineSettings PROVE SettingsIInv'
<1> USE DEF SettingsIInv
<1>1. /\ stage = "command line" /\ stage' = "system" /\ UNCHANGED Inputs
      /\ setting' = FromCommandLine /\ file_paths' = Positional.paths
      /\ settings_json' = settings_json /\ listener' = listener
  BY Zenon DEF ApplyCommandLineSettings, FromCommandLine
<1>2. SettingsInputs' /\ Positional' = Positional /\ FromCommandLine' = FromCommandLine
  BY <1>1, InputsStay, Zenon
<1>3. FromCommandLine \in {"default", "system", "user", "positional"} \cup UNION {OptionsOf(k) : k \in Keys}
  BY FromOptionsIs DEF FromCommandLine
<1>4. SettingsSoFar'
  BY <1>1, <1>2, <1>3, Zenon DEF SettingsSoFar, Applied
<1>5. PortsTried'
  BY <1>1, Zenon DEF PortsTried
<1> QED BY <1>2, <1>4, <1>5

LEMMA SystemStep ==
    ASSUME SettingsIInv, ReadSystemSettings PROVE SettingsIInv'
<1> USE DEF SettingsIInv
<1>1. /\ stage = "system" /\ stage' = "user" /\ UNCHANGED Inputs
      /\ settings_json' = FromSystem
      /\ setting' = setting /\ file_paths' = file_paths /\ listener' = listener
  BY DEF ReadSystemSettings, FromSystem
<1>2. SettingsInputs' /\ Positional' = Positional /\ FromCommandLine' = FromCommandLine
      /\ FromSystem' = FromSystem
  BY <1>1, InputsStay
<1>3. FromSystem \in {"null", "none", "system"}
  BY Zenon DEF FromSystem, JSONSettingsFromFile, SettingsInputs, Contents
<1>4. SettingsSoFar'
  BY <1>1, <1>2, <1>3 DEF SettingsSoFar, Applied
<1>5. PortsTried'
  BY <1>1 DEF PortsTried
<1> QED BY <1>2, <1>4, <1>5

LEMMA UserStep ==
    ASSUME SettingsIInv, ReadUserSettings PROVE SettingsIInv'
<1> USE DEF SettingsIInv
<1>1. /\ stage = "user" /\ stage' = "json" /\ UNCHANGED Inputs
      /\ settings_json' = FromUser
      /\ setting' = setting /\ file_paths' = file_paths /\ listener' = listener
  BY DEF ReadUserSettings, FromUser, SettingsSoFar
<1>2. SettingsInputs' /\ Positional' = Positional /\ FromCommandLine' = FromCommandLine
      /\ FromUser' = FromUser
  BY <1>1, InputsStay
<1>3. FromUser \in {"null", "none", "system", "user"}
  BY FilesAreMerged, NoFiles DEF FromFiles
<1>4. SettingsSoFar'
  BY <1>1, <1>2, <1>3 DEF SettingsSoFar, Applied
<1>5. PortsTried'
  BY <1>1 DEF PortsTried
<1> QED BY <1>2, <1>4, <1>5

LEMMA JSONStep ==
    ASSUME SettingsIInv, SetSettingsFromJSON PROVE SettingsIInv'
<1> USE DEF SettingsIInv
<1> DEFINE command_line == IF setting_key \in options \ Deprecated THEN "option" ELSE "none"
           json == MergePatch(settings_json, command_line)
<1>1. /\ stage = "json" /\ stage' = "listen" /\ UNCHANGED Inputs
      /\ file_paths' = file_paths /\ listener' = listener
  BY DEF SetSettingsFromJSON
<1>2. /\ settings_json = FromUser /\ setting = FromCommandLine
      /\ file_paths = Positional.paths
  BY <1>1 DEF SettingsSoFar
<1>3. SettingsInputs' /\ Positional' = Positional /\ RightSetting' = RightSetting
  BY <1>1, InputsStay
<1>4. options \ Deprecated # {} <=> setting_key \in options \ Deprecated
  BY DEF SettingsInputs, Deprecated, OptionsOf, Keys
<1>5. FromCommandLine \in {"default", "system", "user", "positional"} \cup UNION {OptionsOf(k) : k \in Keys}
  BY FromOptionsIs DEF FromCommandLine
<1>6. /\ setting' = RightSetting
      /\ settings_json' \in {"null", "none", "system", "user", "option"}
  <2>1. CASE system_file = "missing" /\ user_file = "missing"
    <3>1. UNCHANGED <<setting, settings_json>>
      BY <2>1 DEF SetSettingsFromJSON
    <3>2. options \ Deprecated # {} => FromCommandLine = setting_key
      BY FromOptionsIs, FolderIs DEF FromCommandLine
    <3> QED BY <1>2, <2>1, <3>1, <3>2, NoFiles DEF RightSetting
  <2>2. CASE ~(system_file = "missing" /\ user_file = "missing")
    <3>1. /\ settings_json' = json
          /\ setting' = CASE json = "none" -> setting
                          [] json = "option" -> setting_key
                          [] OTHER -> json
      BY <2>2 DEF SetSettingsFromJSON
    <3>2. FromUser \in {"null", FromFiles} /\ (FromUser = "null" => FromFiles = "none")
      BY <2>2, FilesAreMerged
    <3>3. FromFiles \in {"none", "system", "user"}
      BY DEF FromFiles
    <3>4. json = IF options \ Deprecated # {} THEN "option" ELSE FromFiles
      BY <1>2, <1>4, <3>2, <3>3 DEF MergePatch
    <3> HIDE DEF json
    <3> QED BY <1>2, <3>1, <3>3, <3>4 DEF RightSetting
  <2> QED BY <2>1, <2>2
<1>7. SettingsPrecedence'
  <2>1. (SettingsInputs /\ setting = RightSetting => SettingsPrecedence)'
    BY RightSettingPrecedes, PTL
  <2> QED BY <1>3, <1>6, <2>1
<1>8. setting' \in {"default", "system", "user", "positional"} \cup UNION {OptionsOf(k) : k \in Keys}
  <2>1. options \ Deprecated # {} => setting_key \in UNION {OptionsOf(k) : k \in Keys}
    BY <1>4 DEF SettingsInputs
  <2> QED BY <1>5, <1>6, <2>1 DEF RightSetting, FromFiles
<1>9. SettingsSoFar'
  BY <1>1, <1>2, <1>3, <1>6, <1>7, <1>8 DEF SettingsSoFar
<1>10. PortsTried'
  BY <1>1 DEF PortsTried
<1> QED BY <1>3, <1>9, <1>10

\* Steps after the settings are applied leave them alone.
LEMMA SettingsStay ==
    ASSUME SettingsIInv, Applied, UNCHANGED <<Inputs, setting, settings_json, file_paths>>,
           stage' \in {"listen", "try", "run"}
    PROVE  SettingsInputs' /\ SettingsSoFar'
<1>1. SettingsInputs' /\ Positional' = Positional
  BY InputsStay DEF SettingsIInv
<1>2. SettingsPrecedence' = SettingsPrecedence
  BY DEF SettingsPrecedence, Applied, Inputs
<1>3. setting' = setting /\ settings_json' = settings_json /\ file_paths' = file_paths
  OBVIOUS
<1> QED BY <1>1, <1>2, <1>3, Zenon DEF SettingsIInv, SettingsSoFar, Applied

LEMMA PortEndIsPort ==
    ASSUME NEW ports \in PortLists
    PROVE  PortEnd(ports) \in AllPorts
<1>1. \A wide \in Int : wide % PortModulus \in AllPorts
  BY PortsAssumption DEF AllPorts
<1>2. DefaultPort + PortTrials \in Int /\ PortModulus - 1 \in Int
  BY PortsAssumption DEF AllPorts
<1>3. ports \in Seq(Int) /\ Len(ports) \in Nat
  BY PortsAssumption
<1>4. \A i \in 1..Len(ports) : ports[i] \in Int
  <2>1. \A s \in Seq(Int) : \A i \in 1..Len(s) : s[i] \in Int
    OBVIOUS
  <2> QED BY <1>3, <2>1
<1>5. /\ Len(ports) = 1 => 1 \in 1..Len(ports)
      /\ Len(ports) # 0 /\ Len(ports) # 1 => 2 \in 1..Len(ports)
  <2>1. \A n \in Nat : (n = 1 => 1 \in 1..n) /\ (n # 0 /\ n # 1 => 2 \in 1..n)
    OBVIOUS
  <2> QED BY <1>3, <2>1
<1> QED BY <1>1, <1>2, <1>3, <1>4, <1>5 DEF PortEnd

LEMMA ListenStep ==
    ASSUME SettingsIInv, NEW ports \in PortLists, NEW busy \in SUBSET AllPorts, Listen(ports, busy)
    PROVE  SettingsIInv'
<1> DEFINE first == IF Len(ports) = 0 THEN DefaultPort ELSE ports[1]
           l == [ports |-> ports, busy |-> busy, ok |-> FALSE, end |-> PortEnd(ports), port |-> first]
<1>1. /\ stage = "listen" /\ stage' = "try" /\ listener' = l
      /\ UNCHANGED <<Inputs, setting, settings_json, file_paths>>
  BY DEF Listen
<1>2. SettingsInputs' /\ SettingsSoFar'
  BY <1>1, SettingsStay DEF Applied
<1>3. first \in AllPorts /\ ports \in Seq(Int) /\ first \in Nat
  BY PortsAssumption DEF AllPorts
<1> HIDE DEF first
<1>4. /\ l = [ports |-> l.ports, busy |-> l.busy, port |-> l.port, end |-> l.end, ok |-> l.ok]
      /\ l.ports = ports /\ l.busy = busy /\ l.port = first /\ l.end = PortEnd(ports) /\ l.ok = FALSE
  OBVIOUS
<1>5. FirstPort(l) = first
  BY <1>4 DEF FirstPort, first
<1>6. PortEnd(ports) \in AllPorts /\ busy \subseteq AllPorts
  BY PortEndIsPort
<1> HIDE DEF l
<1>7. ListenerTyped(l) /\ ~l.ok
  BY <1>3, <1>4, <1>5, <1>6 DEF ListenerTyped
<1>8. TriedSoFar(l)
  BY <1>3, <1>4, <1>5 DEF TriedSoFar
<1>9. PortsTried'
  BY <1>1, <1>7, <1>8 DEF PortsTried
<1> QED BY <1>2, <1>9 DEF SettingsIInv

LEMMA RunOn ==
    ASSUME NEW l, ListenerTyped(l), TriedSoFar(l), l.ok => InRange(l) /\ l.port \notin l.busy,
           ~l.ok => ~InRange(l) \/ (Len(l.ports) = 1 /\ l.port \in l.busy)
    PROVE  LET range == FirstPort(l)..l.end
           IN IF l.ok THEN l.port \in range \ l.busy /\ \A p \in range : p < l.port => p \in l.busy
                      ELSE range \subseteq l.busy
<1>1. /\ l.port \in Nat /\ l.end \in Nat /\ FirstPort(l) \in Nat /\ FirstPort(l) <= l.port
      /\ \A p \in FirstPort(l)..l.port - 1 : p \in l.busy
  BY PortsAssumption DEF ListenerTyped, TriedSoFar, AllPorts
<1>2. Len(l.ports) = 1 => l.port = FirstPort(l) /\ l.end = FirstPort(l)
  <2>1. ASSUME Len(l.ports) = 1 PROVE l.end = FirstPort(l)
    <3>1. PortEnd(l.ports) = l.ports[1] % PortModulus /\ FirstPort(l) = l.ports[1]
      BY <2>1 DEF PortEnd, FirstPort
    <3>2. l.ports[1] \in 0..PortModulus - 1 /\ l.end = PortEnd(l.ports)
      BY <3>1 DEF ListenerTyped, AllPorts
    <3>3. \A x \in 0..PortModulus - 1 : x % PortModulus = x
      BY PortsAssumption
    <3> QED BY <3>1, <3>2, <3>3
  <2> QED BY <2>1 DEF TriedSoFar
<1>3. CASE Len(l.ports) = 1
  BY <1>1, <1>2, <1>3 DEF InRange
<1>4. CASE Len(l.ports) # 1
  BY <1>1, <1>4 DEF InRange
<1> QED BY <1>3, <1>4

LEMMA TryStep ==
    ASSUME SettingsIInv, TryPort PROVE SettingsIInv'
<1> DEFINE l == listener
<1>1. stage = "try" /\ UNCHANGED <<Inputs, setting, settings_json, file_paths>>
      /\ stage' \in {"try", "run"}
  BY DEF TryPort
<1>2. SettingsInputs' /\ SettingsSoFar'
  BY <1>1, SettingsStay DEF Applied
<1>3. ListenerTyped(l) /\ TriedSoFar(l) /\ ~l.ok
  BY <1>1 DEF SettingsIInv, PortsTried
<1>4. CASE stage' = "run" /\ UNCHANGED listener /\ (~InRange(l) \/ (Len(l.ports) = 1 /\ l.port \in l.busy))
  <2>1. FirstPort(l)..l.end \subseteq l.busy
    BY <1>3, <1>4, RunOn
  <2>2. LowestFreePort'
    BY <1>3, <1>4, <2>1 DEF LowestFreePort, FirstPort
  <2>3. PortsTried'
    BY <1>1, <1>3, <1>4, <2>2 DEF PortsTried, ListenerTyped
  <2> QED BY <1>2, <2>3 DEF SettingsIInv
<1>5. CASE stage' = "run" /\ listener' = [l EXCEPT !.ok = TRUE] /\ InRange(l) /\ l.port \notin l.busy
  <2> DEFINE n == [ports |-> l.ports, busy |-> l.busy, port |-> l.port, end |-> l.end, ok |-> TRUE]
  <2>1. l = [ports |-> l.ports, busy |-> l.busy, port |-> l.port, end |-> l.end, ok |-> l.ok]
    BY <1>3 DEF ListenerTyped
  <2>2. listener' = n
    BY <1>5, <2>1
  <2>3. n.ports = l.ports /\ n.busy = l.busy /\ n.port = l.port /\ n.end = l.end /\ n.ok = TRUE
        /\ n = [ports |-> n.ports, busy |-> n.busy, port |-> n.port, end |-> n.end, ok |-> n.ok]
    OBVIOUS
  <2> HIDE DEF n, l
  <2>4. FirstPort(n) = FirstPort(l) /\ InRange(n) = InRange(l)
    BY <2>3 DEF FirstPort, InRange
  <2>5. ListenerTyped(n) /\ TriedSoFar(n)
    BY <1>3, <2>3, <2>4 DEF ListenerTyped, TriedSoFar
  <2>6. /\ n.port \in (FirstPort(n)..n.end) \ n.busy
        /\ \A p \in FirstPort(n)..n.end : p < n.port => p \in n.busy
    BY <1>5, <2>3, <2>4, <2>5, RunOn
  <2>7. LowestFreePort'
    BY <1>5, <2>2, <2>3, <2>6 DEF LowestFreePort, FirstPort
  <2>8. n.port \in AllPorts
    BY <2>5, <2>6, PortsAssumption DEF ListenerTyped, AllPorts
  <2>9. PortsTried'
    BY <1>5, <2>2, <2>3, <2>7, <2>8 DEF PortsTried
  <2> QED BY <1>2, <2>9 DEF SettingsIInv
<1>6. CASE stage' = "try" /\ listener' = [l EXCEPT !.port = @ + 1] /\ InRange(l) /\ l.port \in l.busy
           /\ Len(l.ports) # 1
  <2> DEFINE n == [ports |-> l.ports, busy |-> l.busy, port |-> l.port + 1, end |-> l.end, ok |-> l.ok]
  <2>1. l = [ports |-> l.ports, busy |-> l.busy, port |-> l.port, end |-> l.end, ok |-> l.ok]
    BY <1>3 DEF ListenerTyped
  <2>2. listener' = n
    BY <1>6, <2>1
  <2>3. n.ports = l.ports /\ n.busy = l.busy /\ n.port = l.port + 1 /\ n.end = l.end /\ n.ok = l.ok
        /\ n = [ports |-> n.ports, busy |-> n.busy, port |-> n.port, end |-> n.end, ok |-> n.ok]
    OBVIOUS
  <2> HIDE DEF n, l
  <2>4. FirstPort(n) = FirstPort(l)
    BY <2>3 DEF FirstPort
  <2>5. l.port \in Nat /\ FirstPort(l) \in Nat
    BY <1>3, PortsAssumption DEF ListenerTyped, AllPorts
  <2>6. ListenerTyped(n)
    BY <1>3, <2>3, <2>4, <2>5 DEF ListenerTyped
  <2>7. TriedSoFar(n)
    <3>1. \A p \in FirstPort(l)..l.port : p \in FirstPort(l)..l.port - 1 \/ p = l.port
      BY <2>5
    <3>2. \A p \in FirstPort(n)..n.port - 1 : p \in n.busy
      BY <1>3, <1>6, <2>3, <2>4, <2>5, <3>1 DEF TriedSoFar
    <3> QED BY <1>3, <1>6, <2>3, <2>4, <2>5, <3>2 DEF TriedSoFar
  <2>8. PortsTried'
    BY <1>3, <1>6, <2>2, <2>3, <2>6, <2>7 DEF PortsTried
  <2> QED BY <1>2, <2>8 DEF SettingsIInv
<1> QED BY <1>1, <1>4, <1>5, <1>6 DEF TryPort

LEMMA SettingsStart == SettingsInit => SettingsIInv
<1> SUFFICES ASSUME SettingsInit PROVE SettingsIInv
  OBVIOUS
<1>1. SettingsInputs
  <2>1. <<>> \in Seq(ArgumentKinds)
    OBVIOUS
  <2>2. arguments \in IF setting_key = "starting_folder" THEN ArgumentLists ELSE {<<>>}
    BY Zenon DEF SettingsInit
  <2>3. arguments \in Seq(ArgumentKinds) /\ (setting_key # "starting_folder" => arguments = <<>>)
    BY <2>1, <2>2, ArgumentsAssumption
  <2> QED BY <2>3, Zenon DEF SettingsInit, SettingsInputs
<1>2. SettingsSoFar
  BY Zenon DEF SettingsInit, SettingsSoFar, Applied
<1>3. PortsTried
  BY Zenon DEF SettingsInit, PortsTried, NoListener
<1> QED BY <1>1, <1>2, <1>3 DEF SettingsIInv

\* The value of a setting on its way through the files, and the ports that were
\* tried, are an inductive invariant.
THEOREM SettingsInductive == SettingsSpec => []SettingsIInv
<1>1. ASSUME SettingsIInv, [SettingsNext]_settingsVars PROVE SettingsIInv'
  <2>1. CASE UNCHANGED settingsVars
    <3>1. /\ UNCHANGED Inputs
          /\ stage' = stage /\ setting' = setting /\ settings_json' = settings_json
          /\ file_paths' = file_paths /\ listener' = listener
      BY <2>1 DEF settingsVars, Inputs
    <3>2. SettingsInputs' /\ Positional' = Positional /\ FromCommandLine' = FromCommandLine
          /\ FromSystem' = FromSystem /\ FromUser' = FromUser
      BY <1>1, <3>1, InputsStay DEF SettingsIInv
    <3>3. SettingsPrecedence' = SettingsPrecedence
      BY <3>1 DEF SettingsPrecedence, Applied, Inputs
    <3>4. SettingsSoFar'
      BY <1>1, <3>1, <3>2, <3>3, Zenon DEF SettingsIInv, SettingsSoFar, Applied
    <3>5. PortsTried'
      BY <1>1, <3>1 DEF SettingsIInv, PortsTried, LowestFreePort
    <3> QED BY <3>2, <3>4, <3>5 DEF SettingsIInv
  <2>2. CASE SettingsNext
    BY <1>1, <2>2, CommandLineStep, SystemStep, UserStep, JSONStep, TryStep, ListenStep DEF SettingsNext
  <2> QED BY <1>1, <2>1, <2>2
<1> QED BY <1>1, SettingsStart, PTL DEF SettingsSpec

\* ProgramSettings: an option wins over the user's file and that over the
\* system's; the images that are opened are those named last; and the server
\* ends up on the lowest free port of its range, for any settings.
THEOREM SettingsAreRight == SettingsSpec => []SettingsCorrect
<1>1. ASSUME SettingsIInv PROVE SettingsCorrect
  <2>1. SettingsPrecedence
    BY <1>1, Zenon DEF SettingsIInv, SettingsSoFar, SettingsPrecedence
  <2>2. LowestFreePort
    BY <1>1 DEF SettingsIInv, PortsTried, LowestFreePort
  <2>3. OpenedFiles
    <3>1. SUFFICES ASSUME Applied PROVE OpenedFiles
      BY DEF OpenedFiles
    <3>2. file_paths = Positional.paths /\ arguments \in Seq(ArgumentKinds)
      BY <1>1, <3>1, Zenon DEF SettingsIInv, SettingsSoFar, SettingsInputs, Applied
    <3>3. Positional \in Walks /\ RightWalk(Positional, Len(arguments))
      BY <3>2, PositionalResult
    <3> DEFINE ends == {i \in DOMAIN arguments : arguments[i] \in {"folder", "special"}}
               missing == {i \in DOMAIN arguments : arguments[i] = "missing"}
               opened == IF ends # {} THEN {}
                         ELSE {i \in DOMAIN arguments : \A j \in missing : j < i}
    <3>4. DOMAIN arguments = 1..Len(arguments)
      BY <3>2
    <3>5. Positional.ended <=> ends # {}
      BY <3>3, <3>4 DEF RightWalk, EndsList
    <3>6. Collected(Len(arguments)) = {i \in DOMAIN arguments : \A j \in missing : j < i}
      BY <3>4 DEF Collected
    <3>7. Places(file_paths) = opened
      BY <3>2, <3>3, <3>5, <3>6 DEF RightWalk
    <3>8. {file_paths[i] : i \in DOMAIN file_paths} = opened
      BY <3>7 DEF Places
    <3>9. \A i, j \in DOMAIN file_paths : i < j => file_paths[i] < file_paths[j]
      BY <3>2, <3>3 DEF RightWalk, Ascending
    <3> QED BY <3>8, <3>9 DEF OpenedFiles
  <2> QED BY <2>1, <2>2, <2>3 DEF SettingsCorrect
<1> QED BY <1>1, SettingsInductive, PTL

\* Every state of the start has the types declared.
THEOREM SettingsTypeCorrect == SettingsSpec => []SettingsTypeOK
<1>1. ASSUME SettingsIInv PROVE SettingsTypeOK
  <2>1. \A i \in DOMAIN file_paths : file_paths[i] \in DOMAIN arguments
    <3>1. arguments \in Seq(ArgumentKinds)
      BY <1>1 DEF SettingsIInv, SettingsInputs
    <3>2. RightWalk(Positional, Len(arguments))
      BY <3>1, PositionalResult
    <3>3. Places(Positional.paths) \subseteq 1..Len(arguments)
      BY <3>2 DEF RightWalk, Collected
    <3>4. Places(file_paths) \subseteq 1..Len(arguments)
      BY <1>1, <3>3, NothingCollected, Zenon DEF SettingsIInv, SettingsSoFar
    <3> QED BY <3>1, <3>4 DEF Places
  <2>2. listener.ok => listener.port \in AllPorts
    BY <1>1 DEF SettingsIInv, PortsTried
  <2> QED BY <1>1, <2>1, <2>2, Zenon DEF SettingsIInv, SettingsSoFar, SettingsTypeOK
<1> QED BY <1>1, SettingsInductive, PTL

(***************************************************************************)
(* Proofs about Preferences, for any servers, preferences and objects.     *)
(*                                                                         *)
(* A server that writes to a file and overlapped with none has it for      *)
(* itself, and writes what its request makes of the preferences that are   *)
(* meant.                                                                  *)
(***************************************************************************)

FileStates == {"missing", "broken", "list", "good"}
SavedData == Maps \cup PrefValues \cup {NoData}
StoredFiles == [state : FileStates, data : SavedData]
Arguments == SavedData \cup SUBSET PrefKeys
DatabaseRecords ==
    [at : {"idle", "read", "write", "flush"}, file : DatabaseFiles,
     op : {"get", "update", "clear", "save"}, arg : Arguments, data : SavedData,
     overlap : BOOLEAN]

\* Objects are saved, preferences are updated and cleared.
RightRequest(r) ==
    r.at # "idle" =>
        \/ r.op = "save" /\ r.file \in Objects /\ r.arg \in PrefValues /\ r.at # "read"
        \/ /\ r.file = "preferences"
           /\ \/ r.op = "update" /\ r.arg \in Maps
              \/ r.op = "clear" /\ r.arg \subseteq PrefKeys
           /\ r.data \in Maps

\* A file that is not good has no data, the preferences are a map, and what an
\* object is meant to be is good or not there.
RightFile(f, d) ==
    /\ d.state # "good" => d.data = NoData
    /\ f = "preferences" => d.data \in Maps
    /\ f \in Objects => d.data \in PrefValues \cup {NoData}

DatabaseTyped ==
    /\ disk \in [DatabaseFiles -> StoredFiles] /\ meant \in [DatabaseFiles -> StoredFiles]
    /\ backend \in [Backends -> DatabaseRecords]
    /\ spoiled \subseteq DatabaseFiles
    /\ \A b \in Backends : RightRequest(backend[b])
    /\ \A f \in DatabaseFiles : RightFile(f, disk[f]) /\ RightFile(f, meant[f])
    /\ \A f \in Objects : meant[f].state \in {"good", "missing"}

\* A server that writes to a file and overlapped with none has it for itself: it
\* is empty, and no other server has opened it.
FlushAlone ==
    \A b \in Backends : backend[b].at = "flush" /\ ~backend[b].overlap =>
        /\ disk[backend[b].file].state = "broken"
        /\ \A o \in Backends \ {b} : ~(backend[o].at = "flush" /\ backend[o].file = backend[b].file)

\* A server that is to write the preferences and overlapped with none is the only
\* one, and writes what its request makes of those that are meant.
UpdateAlone ==
    \A b \in Backends :
        backend[b].at \in {"write", "flush"} /\ backend[b].op # "save" /\ ~backend[b].overlap =>
            /\ \A o \in Backends \ {b} :
                  ~(backend[o].at \in {"write", "flush"} /\ backend[o].file = backend[b].file)
            /\ backend[b].file \notin spoiled =>
                  backend[b].data = Outcome(meant[backend[b].file].data, backend[b].op, backend[b].arg).data

DatabaseIInv == DatabaseTyped /\ FlushAlone /\ UpdateAlone /\ SavedIsKept

-----------------------------------------------------------------------------
LEMMA NoDataIsMap == NoData \in Maps
<1>1. NoData = [k \in {} |-> k]
  BY DEF NoData
<1>2. [k \in {} |-> k] \in [{} -> PrefValues]
  OBVIOUS
<1>3. {} \in SUBSET PrefKeys
  OBVIOUS
<1> QED BY <1>1, <1>2, <1>3 DEF Maps

LEMMA NotHandlingFits ==
    /\ NotHandling \in DatabaseRecords /\ RightRequest(NotHandling)
    /\ NotHandling.at = "idle"
<1>1. FALSE \in BOOLEAN
  OBVIOUS
<1>2. NotHandling.at = "idle"
  BY DEF NotHandling
<1>3. NotHandling \in DatabaseRecords
  BY <1>1 DEF NotHandling, DatabaseRecords, DatabaseFiles, Arguments, SavedData
<1> QED BY <1>2, <1>3 DEF RightRequest

\* Patching and erasing make a map of a map.
LEMMA OutcomeIsMap ==
    ASSUME NEW data \in Maps, NEW op, NEW arg,
           (op = "update" /\ arg \in Maps) \/ (op = "clear" /\ arg \subseteq PrefKeys)
    PROVE  Outcome(data, op, arg).state = "good" /\ Outcome(data, op, arg).data \in Maps
<1>1. PICK K \in SUBSET PrefKeys : data \in [K -> PrefValues]
  BY DEF Maps
<1>2. CASE op = "update" /\ arg \in Maps
  <2>1. PICK L \in SUBSET PrefKeys : arg \in [L -> PrefValues]
    BY <1>2 DEF Maps
  <2>2. Patched(data, arg) \in [K \cup L -> PrefValues]
    BY <1>1, <2>1 DEF Patched
  <2>3. Patched(data, arg) \in Maps
    BY <1>1, <2>1, <2>2 DEF Maps
  <2>4. Outcome(data, op, arg) = FileOf("good", Patched(data, arg))
    BY <1>2 DEF Outcome
  <2> QED BY <2>3, <2>4 DEF FileOf
<1>3. CASE op = "clear" /\ arg \subseteq PrefKeys
  <2>1. Erased(data, arg) \in [K \ arg -> PrefValues]
    BY <1>1 DEF Erased
  <2>2. Erased(data, arg) \in Maps
    BY <1>1, <2>1 DEF Maps
  <2>3. Outcome(data, op, arg) = FileOf("good", Erased(data, arg))
    BY <1>3 DEF Outcome
  <2> QED BY <2>2, <2>3 DEF FileOf
<1> QED BY <1>2, <1>3

\* What a request makes of a file, as it is stored.
LEMMA OutcomeFits ==
    ASSUME NEW r \in DatabaseRecords, RightRequest(r), r.at # "idle",
           NEW data, r.op # "save" => data \in Maps
    PROVE  /\ Outcome(data, r.op, r.arg) \in StoredFiles
           /\ RightFile(r.file, Outcome(data, r.op, r.arg))
           /\ Outcome(data, r.op, r.arg).state = "good"
           /\ r.op = "save" => Outcome(data, r.op, r.arg) = FileOf("good", r.arg)
           /\ Outcome(data, r.op, r.arg) = FileOf("good", Outcome(data, r.op, r.arg).data)
<1>1. CASE r.op = "save"
  <2>1. r.file \in Objects /\ r.arg \in PrefValues /\ r.file # "preferences"
    BY <1>1, DatabaseAssumption DEF RightRequest
  <2>2. Outcome(data, r.op, r.arg) = FileOf("good", r.arg)
    BY <1>1 DEF Outcome
  <2> QED BY <2>1, <2>2 DEF FileOf, StoredFiles, FileStates, SavedData, RightFile
<1>2. CASE r.op # "save"
  <2>1. /\ r.file = "preferences" /\ r.file \notin Objects
        /\ (r.op = "update" /\ r.arg \in Maps) \/ (r.op = "clear" /\ r.arg \subseteq PrefKeys)
    BY <1>2, DatabaseAssumption DEF RightRequest
  <2>2. Outcome(data, r.op, r.arg).state = "good" /\ Outcome(data, r.op, r.arg).data \in Maps
    BY <1>2, <2>1, OutcomeIsMap
  <2>3. \E d : Outcome(data, r.op, r.arg) = FileOf("good", d)
    BY <2>1 DEF Outcome
  <2> QED BY <1>2, <2>1, <2>2, <2>3 DEF FileOf, StoredFiles, FileStates, SavedData, RightFile
<1> QED BY <1>1, <1>2

\* The other servers as they are, or marked when they write the same file.
LEMMA DatabaseOverlapEffect ==
    ASSUME DatabaseTyped, NEW b \in Backends, NEW f, NEW n \in DatabaseRecords,
           backend' = [Overlapping(b, f) EXCEPT ![b] = n]
    PROVE  /\ backend' \in [Backends -> DatabaseRecords] /\ backend'[b] = n
           /\ \A o \in Backends \ {b} :
                 /\ backend'[o].at = backend[o].at /\ backend'[o].file = backend[o].file
                 /\ backend'[o].op = backend[o].op /\ backend'[o].arg = backend[o].arg
                 /\ backend'[o].data = backend[o].data
                 /\ o \in WriteOthers(b, f) => backend'[o].overlap
                 /\ o \notin WriteOthers(b, f) => backend'[o] = backend[o]
<1>1. /\ backend' = [o \in Backends |-> IF o = b THEN n ELSE Overlapping(b, f)[o]]
      /\ \A o \in Backends : backend[o] \in DatabaseRecords
  BY DEF Overlapping, DatabaseTyped
<1>2. ASSUME NEW o \in Backends \ {b}, o \in WriteOthers(b, f)
      PROVE  /\ backend'[o] \in DatabaseRecords /\ backend'[o].overlap
             /\ backend'[o].at = backend[o].at /\ backend'[o].file = backend[o].file
             /\ backend'[o].op = backend[o].op /\ backend'[o].arg = backend[o].arg
             /\ backend'[o].data = backend[o].data
  <2>1. backend'[o] = [backend[o] EXCEPT !.overlap = TRUE]
    BY <1>1, <1>2 DEF Overlapping
  <2>2. TRUE \in BOOLEAN /\ backend[o] \in DatabaseRecords
    BY <1>1
  <2> DEFINE r == backend[o]
             marked == [r EXCEPT !.overlap = TRUE]
  <2>3. marked \in DatabaseRecords
    BY <2>2, Zenon DEF DatabaseRecords
  <2>4. /\ marked.at = r.at /\ marked.file = r.file /\ marked.op = r.op
        /\ marked.arg = r.arg /\ marked.data = r.data
    BY <2>2 DEF DatabaseRecords
  <2>5. marked.overlap
    BY <2>2, Zenon DEF DatabaseRecords
  <2> QED BY <2>1, <2>3, <2>4, <2>5, Zenon
<1>3. \A o \in Backends \ {b} : o \notin WriteOthers(b, f) => backend'[o] = backend[o]
  BY <1>1 DEF Overlapping
<1> QED BY <1>1, <1>2, <1>3

LEMMA PlainEffect ==
    ASSUME DatabaseTyped, NEW b \in Backends, NEW n \in DatabaseRecords,
           backend' = [backend EXCEPT ![b] = n]
    PROVE  /\ backend' \in [Backends -> DatabaseRecords] /\ backend'[b] = n
           /\ \A o \in Backends \ {b} : backend'[o] = backend[o]
BY DEF DatabaseTyped

\* What a step of one server leaves of the others.
OthersKept(b) ==
    \A o \in Backends \ {b} :
        /\ backend'[o].at = backend[o].at /\ backend'[o].file = backend[o].file
        /\ backend'[o].op = backend[o].op /\ backend'[o].arg = backend[o].arg
        /\ backend'[o].data = backend[o].data
        /\ backend[o].overlap => backend'[o].overlap

FilesFit(kept) ==
    kept \in [DatabaseFiles -> StoredFiles] /\ \A f \in DatabaseFiles : RightFile(f, kept[f])

\* Types, after a step of one server.
LEMMA DatabaseTypesKept ==
    ASSUME DatabaseTyped, NEW b \in Backends, RightRequest(backend'[b]), OthersKept(b),
           backend' \in [Backends -> DatabaseRecords],
           FilesFit(disk'), FilesFit(meant'), spoiled' \subseteq DatabaseFiles,
           \A f \in Objects : meant'[f].state \in {"good", "missing"}
    PROVE  DatabaseTyped'
<1>1. \A o \in Backends \ {b} : RightRequest(backend'[o])
  BY DEF DatabaseTyped, OthersKept, RightRequest
<1> QED BY <1>1 DEF DatabaseTyped, FilesFit

LEMMA FilesAreRight ==
    ASSUME DatabaseTyped
    PROVE  /\ FilesFit(disk) /\ FilesFit(meant)
           /\ \A f \in Objects : f \in DatabaseFiles /\ meant[f].state \in {"good", "missing"}
           /\ \A b \in Backends : /\ backend[b] \in DatabaseRecords /\ RightRequest(backend[b])
                                  /\ backend[b].file \in DatabaseFiles
BY DEF DatabaseTyped, FilesFit, DatabaseRecords, DatabaseFiles

\* A file is put on disk, or meant to be.
LEMMA FilePut ==
    ASSUME NEW kept, FilesFit(kept), NEW f \in DatabaseFiles, NEW d \in StoredFiles, RightFile(f, d)
    PROVE  FilesFit([kept EXCEPT ![f] = d])
BY DEF FilesFit

LEMMA StatesFit ==
    ASSUME NEW f \in DatabaseFiles, NEW s \in {"missing", "broken", "list"}
    PROVE  FileOf(s, NoData) \in StoredFiles /\ RightFile(f, FileOf(s, NoData))
BY NoDataIsMap DEF FileOf, StoredFiles, FileStates, SavedData, RightFile

\* The body of a request has come.
LEMMA HandleKeeps ==
    ASSUME DatabaseIInv, NEW b \in Backends, NEW f \in DatabaseFiles, NEW op, NEW arg,
           \/ f = "preferences" /\ op = "update" /\ arg \in Maps
           \/ f = "preferences" /\ op = "clear" /\ arg \subseteq PrefKeys
           \/ f \in Objects /\ op = "save" /\ arg \in PrefValues,
           HandleRequest(b, f, op, arg)
    PROVE  DatabaseIInv'
<1> DEFINE n == [NotHandling EXCEPT !.file = f, !.op = op, !.arg = arg,
                                    !.at = IF op = "save" THEN "write" ELSE "read"]
<1>1. /\ backend' = [backend EXCEPT ![b] = n] /\ backend[b].at = "idle"
      /\ disk' = disk /\ meant' = meant /\ spoiled' = spoiled /\ DatabaseTyped
  BY NotHandlingFits DEF HandleRequest, DatabaseIInv
<1>2. /\ n \in DatabaseRecords
      /\ n.file = f /\ n.op = op /\ n.arg = arg /\ n.data = NoData
      /\ n.at = IF op = "save" THEN "write" ELSE "read"
  BY NotHandlingFits DEF DatabaseRecords, Arguments, SavedData, NotHandling
<1> HIDE DEF n
<1>3. RightRequest(n)
  BY <1>2, NoDataIsMap DEF RightRequest
<1>4. /\ backend' \in [Backends -> DatabaseRecords] /\ backend'[b] = n
      /\ \A o \in Backends \ {b} : backend'[o] = backend[o]
  BY <1>1, <1>2, PlainEffect
<1>5. DatabaseTyped'
  <2>1. OthersKept(b)
    BY <1>4 DEF OthersKept
  <2> QED BY <1>1, <1>3, <1>4, <2>1, FilesAreRight, DatabaseTypesKept DEF DatabaseTyped
<1>6. FlushAlone'
  BY <1>1, <1>2, <1>4 DEF DatabaseIInv, FlushAlone
<1>7. UpdateAlone'
  <2>1. n.at = "write" => n.op = "save" /\ n.file # "preferences"
    BY <1>2, DatabaseAssumption
  <2>2. \A o \in Backends : backend[o].at \in {"write", "flush"} /\ backend[o].op # "save"
                              => backend[o].file = "preferences"
    BY <1>1 DEF DatabaseTyped, RightRequest
  <2>3. n.at # "flush"
    BY <1>2
  <2> QED BY <1>1, <1>4, <2>1, <2>2, <2>3 DEF DatabaseIInv, UpdateAlone
<1>8. SavedIsKept'
  <2>1. n.at # "flush"
    BY <1>2
  <2>2. \A g : Writing(g) => Writing(g)'
    BY <1>1, <1>4 DEF Writing
  <2> QED BY <1>1, <2>2 DEF DatabaseIInv, SavedIsKept
<1> QED BY <1>5, <1>6, <1>7, <1>8 DEF DatabaseIInv

\* A request is answered and nothing is written: the server was not writing.
LEMMA RefusedKeeps ==
    ASSUME DatabaseIInv, NEW b \in Backends, backend[b].at # "flush", backend' = Answer(b),
           disk' = disk, meant' = meant, spoiled' = spoiled
    PROVE  DatabaseIInv'
<1>1. /\ backend' \in [Backends -> DatabaseRecords] /\ backend'[b] = NotHandling
      /\ \A o \in Backends \ {b} : backend'[o] = backend[o]
      /\ DatabaseTyped
  BY NotHandlingFits, PlainEffect DEF DatabaseIInv, Answer
<1>2. NotHandling.at = "idle" /\ RightRequest(NotHandling)
  BY NotHandlingFits
<1>3. DatabaseTyped'
  <2>1. OthersKept(b)
    BY <1>1 DEF OthersKept
  <2> QED BY <1>1, <1>2, <2>1, FilesAreRight, DatabaseTypesKept DEF DatabaseTyped
<1>4. FlushAlone'
  BY <1>1, <1>2 DEF DatabaseIInv, FlushAlone
<1>5. UpdateAlone'
  BY <1>1, <1>2 DEF DatabaseIInv, UpdateAlone
<1>6. SavedIsKept'
  <2>1. \A g : Writing(g) => Writing(g)'
    BY <1>1 DEF Writing
  <2> QED BY <2>1 DEF DatabaseIInv, SavedIsKept
<1> QED BY <1>3, <1>4, <1>5, <1>6 DEF DatabaseIInv

\* The preferences are read and are to be written.  Where no other server writes
\* them, what is read is what they are meant to be.
LEMMA ReadPreferencesKeeps ==
    ASSUME DatabaseIInv, NEW b \in Backends, ReadPreferences(b)
    PROVE  DatabaseIInv'
<1> DEFINE r == backend[b]
           f == disk[r.file]
           existing == GetExistingPreferences(f)
           changes == IF r.op = "update" THEN r.arg # NoData ELSE r.arg \cap DOMAIN existing # {}
           d == Outcome(existing, r.op, r.arg).data
           alone == WriteOthers(b, r.file) # {}
           n == [r EXCEPT !.at = "write", !.data = d, !.overlap = alone]
<1>1. /\ r.at = "read" /\ disk' = disk /\ meant' = meant /\ spoiled' = spoiled
      /\ DatabaseTyped /\ r \in DatabaseRecords /\ r.file \in DatabaseFiles
  BY FilesAreRight DEF ReadPreferences, DatabaseIInv
<1>2. backend' = IF f.state = "list" \/ ~changes THEN Answer(b)
                 ELSE [Overlapping(b, r.file) EXCEPT ![b] = n]
  BY Zenon DEF ReadPreferences
<1>3. CASE f.state = "list" \/ ~changes
  <2>1. backend' = Answer(b)
    BY <1>2, <1>3
  <2> QED BY <1>1, <2>1, RefusedKeeps
<1>4. CASE ~(f.state = "list" \/ ~changes)
  <2>1. backend' = [Overlapping(b, r.file) EXCEPT ![b] = n]
    BY <1>2, <1>4
  <2>2. /\ r.file = "preferences" /\ r.file \notin Objects
        /\ (r.op = "update" /\ r.arg \in Maps) \/ (r.op = "clear" /\ r.arg \subseteq PrefKeys)
    BY <1>1, FilesAreRight, DatabaseAssumption DEF RightRequest
  <2>3. existing = f.data /\ f.data \in Maps
    BY <1>1, <2>2 DEF DatabaseTyped, RightFile, GetExistingPreferences, DatabaseFiles
  <2>4. d \in Maps /\ d \in SavedData
    BY <2>2, <2>3, OutcomeIsMap DEF SavedData
  <2>5. alone \in BOOLEAN
    OBVIOUS
  <2> HIDE DEF d, alone
  <2>6. /\ n \in DatabaseRecords
        /\ n.at = "write" /\ n.file = r.file /\ n.op = r.op /\ n.arg = r.arg /\ n.data = d
        /\ n.overlap <=> alone
    <3>1. n.at = "write" /\ n.file = r.file /\ n.op = r.op /\ n.arg = r.arg /\ n.data = d
      BY <1>1 DEF DatabaseRecords
    <3>2. n \in DatabaseRecords
      BY <1>1, <2>4, <2>5, ZenonT(30) DEF DatabaseRecords
    <3>3. n.overlap = alone
      BY <1>1, Zenon DEF DatabaseRecords
    <3> QED BY <3>1, <3>2, <3>3
  <2> HIDE DEF n
  <2>7. RightRequest(n)
    BY <2>2, <2>4, <2>6 DEF RightRequest
  <2>8. /\ backend' \in [Backends -> DatabaseRecords] /\ backend'[b] = n
        /\ \A o \in Backends \ {b} :
              /\ backend'[o].at = backend[o].at /\ backend'[o].file = backend[o].file
              /\ backend'[o].op = backend[o].op /\ backend'[o].arg = backend[o].arg
              /\ backend'[o].data = backend[o].data
              /\ o \in WriteOthers(b, r.file) => backend'[o].overlap
              /\ o \notin WriteOthers(b, r.file) => backend'[o] = backend[o]
    BY <1>1, <2>1, <2>6, DatabaseOverlapEffect
  <2>9. OthersKept(b)
    BY <2>8 DEF OthersKept
  <2>10. DatabaseTyped'
    BY <1>1, <2>7, <2>8, <2>9, FilesAreRight, DatabaseTypesKept DEF DatabaseTyped
  <2>11. FlushAlone'
    BY <1>1, <2>6, <2>8, <2>9 DEF DatabaseIInv, FlushAlone, OthersKept
  <2>12. \A g : Writing(g) <=> Writing(g)'
    BY <1>1, <2>6, <2>8 DEF Writing
  <2>13. SavedIsKept'
    BY <1>1, <2>12 DEF DatabaseIInv, SavedIsKept
  <2>14. UpdateAlone'
    <3>1. ASSUME NEW c \in Backends, backend'[c].at \in {"write", "flush"}, backend'[c].op # "save",
                 ~backend'[c].overlap
          PROVE  /\ \A o \in Backends \ {c} :
                        ~(backend'[o].at \in {"write", "flush"} /\ backend'[o].file = backend'[c].file)
                 /\ backend'[c].file \notin spoiled =>
                        backend'[c].data
                          = Outcome(meant[backend'[c].file].data, backend'[c].op, backend'[c].arg).data
      <4>1. CASE c = b
        <5>1. WriteOthers(b, r.file) = {}
          BY <2>6, <2>8, <3>1, <4>1 DEF alone
        <5>2. \A o \in Backends \ {b} :
                  ~(backend[o].at \in {"write", "flush"} /\ backend[o].file = r.file)
          BY <5>1 DEF WriteOthers
        <5>3. ~Writing(r.file)
          BY <1>1, <5>2 DEF Writing
        <5>4. r.file \notin spoiled => meant[r.file] = f
          BY <1>1, <5>3 DEF DatabaseIInv, SavedIsKept
        <5> QED BY <2>3, <2>6, <2>8, <4>1, <5>2, <5>4 DEF d
      <4>2. CASE c # b
        <5>1. backend[c].file = r.file \/ backend[c].file # r.file
          OBVIOUS
        <5>2. backend[c].at \in {"write", "flush"} /\ backend[c].op # "save"
          BY <2>8, <3>1, <4>2
        <5>3. backend[c].file = "preferences"
          BY <1>1, <5>2, FilesAreRight DEF RightRequest
        <5>4. c \in WriteOthers(b, r.file)
          BY <2>2, <4>2, <5>2, <5>3 DEF WriteOthers
        <5> QED BY <2>8, <3>1, <4>2, <5>4
      <4> QED BY <4>1, <4>2
    <3> QED BY <1>1, <3>1 DEF UpdateAlone
  <2> QED BY <2>10, <2>11, <2>13, <2>14 DEF DatabaseIInv
<1> QED BY <1>3, <1>4

\* A server stops handling its request and the file is spoiled, whatever it is
\* meant to be.
LEMMA SpoiledKeeps ==
    ASSUME DatabaseIInv, NEW b \in Backends, backend[b].at \in {"write", "flush"},
           backend' = Answer(b), disk' = disk, spoiled' = spoiled \cup {backend[b].file},
           FilesFit(meant'), \A f \in Objects : meant'[f].state \in {"good", "missing"},
           \A f \in DatabaseFiles \ {backend[b].file} : meant'[f] = meant[f]
    PROVE  DatabaseIInv'
<1>1. /\ backend' \in [Backends -> DatabaseRecords] /\ backend'[b] = NotHandling
      /\ \A o \in Backends \ {b} : backend'[o] = backend[o]
      /\ DatabaseTyped
  BY NotHandlingFits, PlainEffect DEF DatabaseIInv, Answer
<1>2. NotHandling.at = "idle" /\ RightRequest(NotHandling)
  BY NotHandlingFits
<1>3. DatabaseTyped'
  <2>1. OthersKept(b)
    BY <1>1 DEF OthersKept
  <2>2. spoiled' \subseteq DatabaseFiles
    BY <1>1, FilesAreRight DEF DatabaseTyped
  <2> QED BY <1>1, <1>2, <2>1, <2>2, FilesAreRight, DatabaseTypesKept
<1>4. FlushAlone'
  BY <1>1, <1>2 DEF DatabaseIInv, FlushAlone
<1>5. UpdateAlone'
  <2>1. ASSUME NEW c \in Backends \ {b} PROVE backend[c].file \in DatabaseFiles
    BY <1>1, FilesAreRight
  <2> QED BY <1>1, <1>2, <2>1 DEF DatabaseIInv, UpdateAlone
<1>6. SavedIsKept'
  <2>1. \A g : g # backend[b].file /\ Writing(g) => Writing(g)'
    BY <1>1 DEF Writing
  <2> QED BY <2>1 DEF DatabaseIInv, SavedIsKept
<1> QED BY <1>3, <1>4, <1>5, <1>6 DEF DatabaseIInv

\* A request that is accepted is meant to be on disk.
LEMMA AcceptEffect ==
    ASSUME DatabaseTyped, NEW b \in Backends, backend[b].at \in {"write", "flush"},
           Accept(backend[b].file, backend[b].op, backend[b].arg)
    PROVE  /\ FilesFit(meant') /\ \A f \in Objects : meant'[f].state \in {"good", "missing"}
           /\ \A f \in DatabaseFiles \ {backend[b].file} : meant'[f] = meant[f]
           /\ meant'[backend[b].file]
                = Outcome(meant[backend[b].file].data, backend[b].op, backend[b].arg)
<1> DEFINE r == backend[b]
           made == Outcome(meant[r.file].data, r.op, r.arg)
<1>1. /\ r \in DatabaseRecords /\ RightRequest(r) /\ r.at # "idle" /\ r.file \in DatabaseFiles
      /\ FilesFit(meant)
  BY FilesAreRight
<1>2. r.op # "save" => meant[r.file].data \in Maps
  BY <1>1 DEF FilesFit, RightFile, RightRequest
<1>3. made \in StoredFiles /\ RightFile(r.file, made) /\ made.state = "good"
  BY <1>1, <1>2, OutcomeFits
<1>4. meant' = [meant EXCEPT ![r.file] = made]
  BY DEF Accept
<1> HIDE DEF made
<1>5. FilesFit(meant')
  BY <1>1, <1>3, <1>4, FilePut
<1>6. /\ \A f \in DatabaseFiles \ {r.file} : meant'[f] = meant[f]
      /\ meant'[r.file] = made
  BY <1>1, <1>4 DEF FilesFit
<1>7. \A f \in Objects : meant'[f].state \in {"good", "missing"}
  BY <1>3, <1>6, FilesAreRight
<1> QED BY <1>5, <1>6, <1>7 DEF made

\* The stream empties the file; servers that write it as well are marked.
LEMMA OpenFileKeeps ==
    ASSUME DatabaseIInv, NEW b \in Backends, OpenFile(b)
    PROVE  DatabaseIInv'
<1> DEFINE r == backend[b]
           alone == r.overlap \/ WriteOthers(b, r.file) # {}
           n == [r EXCEPT !.at = "flush", !.overlap = alone]
<1>1. /\ r.at = "write" /\ DatabaseTyped /\ r \in DatabaseRecords /\ r.file \in DatabaseFiles
      /\ RightRequest(r)
  BY FilesAreRight DEF OpenFile, DatabaseIInv
<1>2. CASE backend' = Answer(b) /\ UNCHANGED <<disk, meant, spoiled>>
  BY <1>1, <1>2, RefusedKeeps
<1>3. CASE /\ backend' = Answer(b) /\ spoiled' = spoiled \cup {r.file}
           /\ Accept(r.file, r.op, r.arg) /\ UNCHANGED disk
  BY <1>1, <1>3, AcceptEffect, SpoiledKeeps
<1>4. CASE /\ backend' = [Overlapping(b, r.file) EXCEPT ![b] = n]
           /\ disk' = [disk EXCEPT ![r.file] = FileOf("broken", NoData)]
           /\ UNCHANGED <<meant, spoiled>>
  <2>1. r.overlap \in BOOLEAN /\ alone \in BOOLEAN
    BY <1>1 DEF DatabaseRecords
  <2> HIDE DEF alone
  <2>2. /\ n \in DatabaseRecords
        /\ n.at = "flush" /\ n.file = r.file /\ n.op = r.op /\ n.arg = r.arg /\ n.data = r.data
        /\ n.overlap <=> alone
    <3>1. n.at = "flush" /\ n.file = r.file /\ n.op = r.op /\ n.arg = r.arg /\ n.data = r.data
      BY <1>1 DEF DatabaseRecords
    <3>2. n \in DatabaseRecords
      BY <1>1, <2>1, ZenonT(30) DEF DatabaseRecords
    <3>3. n.overlap = alone
      BY <1>1, Zenon DEF DatabaseRecords
    <3> QED BY <3>1, <3>2, <3>3
  <2> HIDE DEF n
  <2>3. RightRequest(n)
    BY <1>1, <2>2 DEF RightRequest
  <2>4. /\ backend' \in [Backends -> DatabaseRecords] /\ backend'[b] = n
        /\ \A o \in Backends \ {b} :
              /\ backend'[o].at = backend[o].at /\ backend'[o].file = backend[o].file
              /\ backend'[o].op = backend[o].op /\ backend'[o].arg = backend[o].arg
              /\ backend'[o].data = backend[o].data
              /\ o \in WriteOthers(b, r.file) => backend'[o].overlap
              /\ o \notin WriteOthers(b, r.file) => backend'[o] = backend[o]
    BY <1>1, <1>4, <2>2, DatabaseOverlapEffect
  <2>5. OthersKept(b)
    BY <2>4 DEF OthersKept
  <2>6. FilesFit(disk') /\ disk'[r.file].state = "broken"
        /\ \A f \in DatabaseFiles \ {r.file} : disk'[f] = disk[f]
    <3>1. FileOf("broken", NoData) \in StoredFiles /\ RightFile(r.file, FileOf("broken", NoData))
      BY <1>1, StatesFit
    <3>2. FileOf("broken", NoData).state = "broken"
      BY DEF FileOf
    <3>3. FilesFit(disk')
      BY <1>1, <1>4, <3>1, FilesAreRight, FilePut
    <3> QED BY <1>1, <1>4, <3>2, <3>3 DEF DatabaseTyped
  <2>7. DatabaseTyped'
    BY <1>1, <1>4, <2>3, <2>4, <2>5, <2>6, FilesAreRight, DatabaseTypesKept DEF DatabaseTyped
  <2>8. ASSUME ~n.overlap
        PROVE  /\ ~r.overlap
               /\ \A o \in Backends \ {b} :
                     ~(backend[o].at \in {"write", "flush"} /\ backend[o].file = r.file)
    BY <2>2, <2>8 DEF alone, WriteOthers
  <2>9. ASSUME NEW o \in Backends \ {b}, backend[o].at \in {"write", "flush"}, ~backend'[o].overlap
        PROVE  backend[o].file # r.file /\ backend'[o] = backend[o]
    BY <2>4, <2>9 DEF WriteOthers
  <2>10. FlushAlone'
    <3>1. ASSUME NEW c \in Backends, backend'[c].at = "flush", ~backend'[c].overlap
          PROVE  /\ disk'[backend'[c].file].state = "broken"
                 /\ \A o \in Backends \ {c} :
                       ~(backend'[o].at = "flush" /\ backend'[o].file = backend'[c].file)
      <4>1. CASE c = b
        BY <2>2, <2>4, <2>6, <2>8, <3>1, <4>1
      <4>2. CASE c # b
        <5>1. backend'[c] = backend[c] /\ backend[c].at = "flush" /\ backend[c].file # r.file
          BY <2>4, <2>9, <3>1, <4>2
        <5>2. disk'[backend[c].file] = disk[backend[c].file]
          BY <1>1, <2>6, <5>1, FilesAreRight
        <5> QED BY <2>2, <2>4, <3>1, <5>1, <5>2 DEF DatabaseIInv, FlushAlone
      <4> QED BY <4>1, <4>2
    <3> QED BY <3>1 DEF FlushAlone
  <2>11. UpdateAlone'
    <3>1. ASSUME NEW c \in Backends, backend'[c].at \in {"write", "flush"}, backend'[c].op # "save",
                 ~backend'[c].overlap
          PROVE  /\ \A o \in Backends \ {c} :
                        ~(backend'[o].at \in {"write", "flush"} /\ backend'[o].file = backend'[c].file)
                 /\ backend'[c].file \notin spoiled =>
                        backend'[c].data
                          = Outcome(meant[backend'[c].file].data, backend'[c].op, backend'[c].arg).data
      <4>1. CASE c = b
        BY <1>1, <2>2, <2>4, <2>8, <3>1, <4>1 DEF DatabaseIInv, UpdateAlone
      <4>2. CASE c # b
        <5>1. backend'[c] = backend[c] /\ backend[c].file # r.file
          BY <2>4, <2>9, <3>1, <4>2
        <5> QED BY <2>2, <2>4, <3>1, <5>1 DEF DatabaseIInv, UpdateAlone
      <4> QED BY <4>1, <4>2
    <3> QED BY <1>4, <3>1 DEF UpdateAlone
  <2>12. SavedIsKept'
    <3>1. \A f : f = r.file => Writing(f)'
      BY <2>2, <2>4 DEF Writing
    <3>2. \A f : Writing(f) => Writing(f)'
      BY <1>1, <2>4 DEF Writing
    <3> QED BY <1>4, <2>6, <3>1, <3>2 DEF DatabaseIInv, SavedIsKept
  <2> QED BY <2>7, <2>10, <2>11, <2>12 DEF DatabaseIInv
<1> QED BY <1>2, <1>3, <1>4, Zenon DEF OpenFile

\* A server that overlapped with none writes what is meant to be there.
LEMMA WriteFileKeeps ==
    ASSUME DatabaseIInv, NEW b \in Backends, WriteFile(b)
    PROVE  DatabaseIInv'
<1> DEFINE r == backend[b]
           content == IF r.op = "save" THEN r.arg ELSE r.data
<1>1. /\ r.at = "flush" /\ DatabaseTyped /\ r \in DatabaseRecords /\ r.file \in DatabaseFiles
      /\ RightRequest(r) /\ backend' = Answer(b) /\ Accept(r.file, r.op, r.arg)
  BY FilesAreRight DEF WriteFile, DatabaseIInv
<1>2. PICK result \in {FileOf("good", content)} \cup IF disk[r.file].state = "good"
                                                   THEN {FileOf("broken", NoData)} ELSE {} :
          disk' = [disk EXCEPT ![r.file] = result]
  BY Zenon DEF WriteFile
<1>3. /\ r.overlap => spoiled' = spoiled \cup {r.file}
      /\ ~r.overlap /\ r.op = "save" => spoiled' = spoiled \ {r.file}
      /\ ~r.overlap /\ r.op # "save" => spoiled' = spoiled
  BY DEF WriteFile
<1>4. /\ backend' \in [Backends -> DatabaseRecords] /\ backend'[b] = NotHandling
      /\ \A o \in Backends \ {b} : backend'[o] = backend[o]
  BY <1>1, NotHandlingFits, PlainEffect DEF Answer
<1>5. NotHandling.at = "idle" /\ RightRequest(NotHandling)
  BY NotHandlingFits
<1>6. /\ FilesFit(meant') /\ \A f \in Objects : meant'[f].state \in {"good", "missing"}
      /\ \A f \in DatabaseFiles \ {r.file} : meant'[f] = meant[f]
      /\ meant'[r.file] = Outcome(meant[r.file].data, r.op, r.arg)
  BY <1>1, AcceptEffect
<1>7. FilesFit(disk') /\ disk'[r.file] = result
      /\ \A f \in DatabaseFiles \ {r.file} : disk'[f] = disk[f]
  <2>1. content \in SavedData /\ RightFile(r.file, FileOf("good", content))
    BY <1>1, DatabaseAssumption DEF RightRequest, RightFile, FileOf, SavedData
  <2>2. FileOf("good", content) \in StoredFiles
    BY <2>1 DEF FileOf, StoredFiles, FileStates
  <2>3. result \in StoredFiles /\ RightFile(r.file, result)
    <3>1. result = FileOf("good", content) \/ result = FileOf("broken", NoData)
      BY <1>2
    <3> QED BY <1>1, <2>1, <2>2, <3>1, StatesFit
  <2>4. FilesFit(disk')
    BY <1>1, <1>2, <2>3, FilesAreRight, FilePut
  <2> QED BY <1>1, <1>2, <2>4 DEF DatabaseTyped
<1>8. DatabaseTyped'
  <2>1. OthersKept(b)
    BY <1>4 DEF OthersKept
  <2>2. spoiled' \subseteq DatabaseFiles
    BY <1>1, <1>3 DEF DatabaseTyped
  <2> QED BY <1>1, <1>4, <1>5, <1>6, <1>7, <2>1, <2>2, DatabaseTypesKept
<1>9. \A f \in DatabaseFiles \ {r.file} : f \in spoiled' <=> f \in spoiled
  BY <1>3
<1>10. FlushAlone'
  <2>1. ASSUME NEW c \in Backends, backend'[c].at = "flush", ~backend'[c].overlap
        PROVE  /\ disk'[backend'[c].file].state = "broken"
               /\ \A o \in Backends \ {c} :
                     ~(backend'[o].at = "flush" /\ backend'[o].file = backend'[c].file)
    <3>1. c # b /\ backend'[c] = backend[c]
      BY <1>4, <1>5, <2>1
    <3>2. backend[c].file # r.file /\ disk[backend[c].file].state = "broken"
      BY <1>1, <2>1, <3>1 DEF DatabaseIInv, FlushAlone
    <3>3. disk'[backend[c].file] = disk[backend[c].file]
      BY <1>1, <1>7, <3>2, FilesAreRight
    <3> QED BY <1>4, <1>5, <2>1, <3>1, <3>2, <3>3 DEF DatabaseIInv, FlushAlone
  <2> QED BY <2>1 DEF FlushAlone
<1>11. UpdateAlone'
  <2>1. ASSUME NEW c \in Backends, backend'[c].at \in {"write", "flush"}, backend'[c].op # "save",
               ~backend'[c].overlap
        PROVE  /\ \A o \in Backends \ {c} :
                      ~(backend'[o].at \in {"write", "flush"} /\ backend'[o].file = backend'[c].file)
               /\ backend'[c].file \notin spoiled' =>
                      backend'[c].data
                        = Outcome(meant'[backend'[c].file].data, backend'[c].op, backend'[c].arg).data
    <3>1. c # b /\ backend'[c] = backend[c]
      BY <1>4, <1>5, <2>1
    <3>2. backend[c].file # r.file
      BY <1>1, <2>1, <3>1 DEF DatabaseIInv, UpdateAlone
    <3>3. /\ meant'[backend[c].file] = meant[backend[c].file]
          /\ backend[c].file \in spoiled' <=> backend[c].file \in spoiled
      BY <1>1, <1>6, <1>9, <3>2, FilesAreRight
    <3> QED BY <1>4, <1>5, <2>1, <3>1, <3>2, <3>3 DEF DatabaseIInv, UpdateAlone
  <2> QED BY <2>1 DEF UpdateAlone
<1>12. SavedIsKept'
  <2>1. ASSUME r.file \notin spoiled' PROVE disk'[r.file] = meant'[r.file]
    <3>1. ~r.overlap
      BY <1>3, <2>1
    <3>2. disk[r.file].state = "broken"
      BY <1>1, <3>1 DEF DatabaseIInv, FlushAlone
    <3>3. result = FileOf("good", content)
      BY <1>2, <3>2
    <3>4. CASE r.op = "save"
      BY <1>6, <1>7, <3>3, <3>4 DEF Outcome
    <3>5. CASE r.op # "save"
      <4>1. r.file \notin spoiled
        BY <1>3, <2>1, <3>1, <3>5
      <4>2. r.data = Outcome(meant[r.file].data, r.op, r.arg).data
        BY <1>1, <3>1, <3>5, <4>1 DEF DatabaseIInv, UpdateAlone
      <4>3. meant[r.file].data \in Maps
        BY <1>1, <3>5, FilesAreRight DEF FilesFit, RightFile, RightRequest
      <4>4. Outcome(meant[r.file].data, r.op, r.arg)
              = FileOf("good", Outcome(meant[r.file].data, r.op, r.arg).data)
        BY <1>1, <4>3, OutcomeFits
      <4> QED BY <1>6, <1>7, <3>3, <3>5, <4>2, <4>4
    <3> QED BY <3>4, <3>5
  <2>2. \A f : f # r.file /\ Writing(f) => Writing(f)'
    BY <1>4 DEF Writing
  <2> QED BY <1>6, <1>7, <1>9, <2>1, <2>2 DEF DatabaseIInv, SavedIsKept
<1> QED BY <1>8, <1>10, <1>11, <1>12 DEF DatabaseIInv

\* An object is removed; servers that write it are marked.
LEMMA RemoveObjectKeeps ==
    ASSUME DatabaseIInv, NEW b \in Backends, NEW f \in Objects, RemoveObject(b, f)
    PROVE  DatabaseIInv'
<1>1. /\ backend[b].at = "idle" /\ DatabaseTyped /\ backend[b] \in DatabaseRecords
      /\ f \in DatabaseFiles /\ f # "preferences"
  BY FilesAreRight, NotHandlingFits, DatabaseAssumption DEF RemoveObject, DatabaseIInv
<1>2. CASE UNCHANGED <<disk, meant, spoiled, backend>>
  BY <1>2 DEF DatabaseIInv, DatabaseTyped, FlushAlone, UpdateAlone, SavedIsKept, Writing
<1>3. CASE /\ disk' = [disk EXCEPT ![f] = FileOf("missing", NoData)]
           /\ meant' = [meant EXCEPT ![f] = FileOf("missing", NoData)]
           /\ spoiled' = IF WriteOthers(b, f) = {} THEN spoiled \ {f} ELSE spoiled \cup {f}
           /\ backend' = Overlapping(b, f)
  <2>1. backend' = [Overlapping(b, f) EXCEPT ![b] = backend[b]]
    BY <1>3 DEF Overlapping, WriteOthers
  <2>2. /\ backend' \in [Backends -> DatabaseRecords] /\ backend'[b] = backend[b]
        /\ \A o \in Backends \ {b} :
              /\ backend'[o].at = backend[o].at /\ backend'[o].file = backend[o].file
              /\ backend'[o].op = backend[o].op /\ backend'[o].arg = backend[o].arg
              /\ backend'[o].data = backend[o].data
              /\ o \in WriteOthers(b, f) => backend'[o].overlap
              /\ o \notin WriteOthers(b, f) => backend'[o] = backend[o]
    BY <1>1, <2>1, DatabaseOverlapEffect
  <2>3. OthersKept(b)
    BY <2>2 DEF OthersKept
  <2>4. /\ FilesFit(disk') /\ FilesFit(meant')
        /\ disk'[f] = FileOf("missing", NoData) /\ meant'[f] = FileOf("missing", NoData)
        /\ \A g \in DatabaseFiles \ {f} : disk'[g] = disk[g] /\ meant'[g] = meant[g]
    <3>1. FileOf("missing", NoData) \in StoredFiles /\ RightFile(f, FileOf("missing", NoData))
      BY <1>1, StatesFit
    <3> QED BY <1>1, <1>3, <3>1, FilesAreRight, FilePut DEF DatabaseTyped
  <2>5. \A g \in DatabaseFiles \ {f} : g \in spoiled' <=> g \in spoiled
    BY <1>3
  <2>6. DatabaseTyped'
    <3>1. spoiled' \subseteq DatabaseFiles
      BY <1>1, <1>3 DEF DatabaseTyped
    <3>2. \A g \in Objects : meant'[g].state \in {"good", "missing"}
      BY <1>1, <2>4, FilesAreRight DEF FileOf
    <3>3. RightRequest(backend'[b])
      BY <1>1, <2>2, FilesAreRight
    <3> QED BY <1>1, <2>2, <2>3, <2>4, <3>1, <3>2, <3>3, DatabaseTypesKept
  <2>7. FlushAlone'
    <3>1. ASSUME NEW c \in Backends, backend'[c].at = "flush", ~backend'[c].overlap
          PROVE  /\ disk'[backend'[c].file].state = "broken"
                 /\ \A o \in Backends \ {c} :
                       ~(backend'[o].at = "flush" /\ backend'[o].file = backend'[c].file)
      <4>1. c # b /\ backend[c].at = "flush" /\ c \notin WriteOthers(b, f)
        BY <1>1, <2>2, <3>1
      <4>2. backend'[c] = backend[c] /\ backend[c].file # f
        BY <2>2, <4>1 DEF WriteOthers
      <4>3. disk'[backend[c].file] = disk[backend[c].file]
        BY <1>1, <2>4, <4>2, FilesAreRight
      <4> QED BY <1>1, <2>2, <3>1, <4>1, <4>2, <4>3 DEF DatabaseIInv, FlushAlone
    <3> QED BY <3>1 DEF FlushAlone
  <2>8. UpdateAlone'
    <3>1. ASSUME NEW c \in Backends, backend'[c].at \in {"write", "flush"}, backend'[c].op # "save",
                 ~backend'[c].overlap
          PROVE  /\ \A o \in Backends \ {c} :
                        ~(backend'[o].at \in {"write", "flush"} /\ backend'[o].file = backend'[c].file)
                 /\ backend'[c].file \notin spoiled' =>
                        backend'[c].data
                          = Outcome(meant'[backend'[c].file].data, backend'[c].op, backend'[c].arg).data
      <4>1. c # b /\ backend[c].at \in {"write", "flush"} /\ backend[c].op # "save"
        BY <1>1, <2>2, <3>1
      <4>2. backend[c].file = "preferences" /\ backend[c].file \in DatabaseFiles
        BY <1>1, <4>1, FilesAreRight DEF RightRequest
      <4>3. c \notin WriteOthers(b, f) /\ backend'[c] = backend[c]
        BY <1>1, <2>2, <4>1, <4>2 DEF WriteOthers
      <4>4. /\ meant'[backend[c].file] = meant[backend[c].file]
            /\ backend[c].file \in spoiled' <=> backend[c].file \in spoiled
        BY <1>1, <2>4, <2>5, <4>2
      <4> QED BY <1>1, <2>2, <3>1, <4>1, <4>3, <4>4 DEF DatabaseIInv, UpdateAlone
    <3> QED BY <3>1 DEF UpdateAlone
  <2>9. SavedIsKept'
    <3>1. \A g : Writing(g) => Writing(g)'
      BY <1>1, <2>2 DEF Writing
    <3> QED BY <2>4, <2>5, <3>1 DEF DatabaseIInv, SavedIsKept
  <2> QED BY <2>6, <2>7, <2>8, <2>9 DEF DatabaseIInv
<1> QED BY <1>2, <1>3, Zenon DEF RemoveObject

LEMMA CrashKeeps ==
    ASSUME DatabaseIInv, NEW b \in Backends, Crash(b)
    PROVE  DatabaseIInv'
<1>1. /\ backend[b].at = "flush" /\ backend' = Answer(b)
      /\ spoiled' = spoiled \cup {backend[b].file} /\ disk' = disk /\ meant' = meant
  BY DEF Crash
<1>2. DatabaseTyped
  BY DEF DatabaseIInv
<1> QED BY <1>1, <1>2, FilesAreRight, SpoiledKeeps

-----------------------------------------------------------------------------
LEMMA DatabaseStarts == DatabaseInit => DatabaseIInv
<1> SUFFICES ASSUME DatabaseInit PROVE DatabaseIInv
  OBVIOUS
<1>1. PICK p \in {FileOf(s, NoData) : s \in {"missing", "broken", "list"}}
                \cup {FileOf("good", m) : m \in Maps} :
          disk = [f \in DatabaseFiles |-> IF f = "preferences" THEN p
                                         ELSE FileOf("missing", NoData)]
  BY DEF DatabaseInit
<1>2. p \in StoredFiles /\ RightFile("preferences", p)
  <2>1. CASE \E s \in {"missing", "broken", "list"} : p = FileOf(s, NoData)
    BY <2>1, StatesFit DEF DatabaseFiles
  <2>2. CASE \E m \in Maps : p = FileOf("good", m)
    BY <2>2, DatabaseAssumption DEF FileOf, StoredFiles, FileStates, SavedData, RightFile
  <2> QED BY <2>1, <2>2
<1>3. \A f \in DatabaseFiles : /\ FileOf("missing", NoData) \in StoredFiles
                               /\ RightFile(f, FileOf("missing", NoData))
  BY StatesFit
<1>4. /\ disk \in [DatabaseFiles -> StoredFiles] /\ \A f \in DatabaseFiles : RightFile(f, disk[f])
      /\ \A f \in Objects : disk[f] = FileOf("missing", NoData)
  BY <1>1, <1>2, <1>3, DatabaseAssumption DEF DatabaseFiles
<1>5. /\ backend = [b \in Backends |-> NotHandling] /\ meant = disk /\ spoiled = {}
  BY DEF DatabaseInit
<1>6. DatabaseTyped
  BY <1>4, <1>5, NotHandlingFits DEF DatabaseTyped, FileOf
<1>7. FlushAlone /\ UpdateAlone
  BY <1>5, NotHandlingFits DEF FlushAlone, UpdateAlone
<1>8. SavedIsKept
  BY <1>5 DEF SavedIsKept
<1> QED BY <1>6, <1>7, <1>8 DEF DatabaseIInv

\* What the servers are to write, whom they overlapped with, and what each file
\* is meant to be are an inductive invariant.
THEOREM DatabaseInductive == DatabaseSpec => []DatabaseIInv
<1>1. ASSUME DatabaseIInv, [DatabaseNext]_databaseVars PROVE DatabaseIInv'
  <2>1. CASE UNCHANGED databaseVars
    BY <1>1, <2>1 DEF databaseVars, DatabaseIInv, DatabaseTyped, FlushAlone, UpdateAlone,
       SavedIsKept, Writing
  <2>2. CASE DatabaseNext
    <3>1. PICK b \in Backends :
              \/ \E m \in Maps : HandleRequest(b, "preferences", "update", m)
              \/ \E K \in SUBSET PrefKeys \ {{}} : HandleRequest(b, "preferences", "clear", K)
              \/ \E f \in Objects, v \in PrefValues : HandleRequest(b, f, "save", v)
              \/ ReadPreferences(b) \/ OpenFile(b) \/ WriteFile(b)
              \/ \E f \in Objects : RemoveObject(b, f)
              \/ Crash(b)
      BY <2>2 DEF DatabaseNext
    <3>2. /\ "preferences" \in DatabaseFiles /\ \A f \in Objects : f \in DatabaseFiles
      BY DEF DatabaseFiles
    <3>3. CASE \E m \in Maps : HandleRequest(b, "preferences", "update", m)
      BY <1>1, <3>2, <3>3, HandleKeeps
    <3>4. CASE \E K \in SUBSET PrefKeys \ {{}} : HandleRequest(b, "preferences", "clear", K)
      BY <1>1, <3>2, <3>4, HandleKeeps
    <3>5. CASE \E f \in Objects, v \in PrefValues : HandleRequest(b, f, "save", v)
      BY <1>1, <3>2, <3>5, HandleKeeps
    <3> QED BY <1>1, <3>1, <3>3, <3>4, <3>5, ReadPreferencesKeeps, OpenFileKeeps, WriteFileKeeps,
               RemoveObjectKeeps, CrashKeeps
  <2> QED BY <1>1, <2>1, <2>2
<1> QED BY <1>1, DatabaseStarts, PTL DEF DatabaseSpec

\* Every state of the servers and their files has the types declared.
THEOREM DatabaseTypeCorrect == DatabaseSpec => []DatabaseTypeOK
<1>1. DatabaseIInv => DatabaseTypeOK
  BY DEF DatabaseIInv, DatabaseTyped, DatabaseTypeOK, RightFile, DatabaseFiles, StoredFiles,
     FileStates, DatabaseRecords
<1> QED BY <1>1, DatabaseInductive, PTL

\* What was saved with success is on disk, and what is listed can be read, for
\* any number of servers that write the same files (HttpServer).
THEOREM SavedFilesAreKept == DatabaseSpec => []DatabaseCorrect
<1>1. ASSUME DatabaseIInv PROVE DatabaseCorrect
  <2>1. ASSUME NEW f \in GetExistingObjectList
        PROVE  f \in GetExistingObjects \cup spoiled \/ Writing(f)
    <3>1. f \in Objects /\ disk[f].state # "missing" /\ f \in DatabaseFiles
      BY <2>1 DEF GetExistingObjectList, DatabaseFiles
    <3>2. meant[f].state \in {"good", "missing"}
      BY <1>1, <3>1 DEF DatabaseIInv, DatabaseTyped
    <3> QED BY <1>1, <3>1, <3>2 DEF DatabaseIInv, SavedIsKept, GetExistingObjects
  <2> QED BY <1>1, <2>1 DEF DatabaseIInv, DatabaseCorrect, ListedIsReadable
<1> QED BY <1>1, DatabaseInductive, PTL

(***************************************************************************)
(* Proofs about Tables, for any catalogs, filters, columns and chunks.     *)
(*                                                                         *)
(* A view lists each row that passes its filters once: a filter keeps what *)
(* passes of a list, a sort permutes it, and the chunks of a response are  *)
(* pieces of it that cover what was asked for.                             *)
(***************************************************************************)

\* A sequence that has each member of S in one place.
ListOf(s, S) ==
    /\ s \in Seq(S)
    /\ \A i, j \in DOMAIN s : s[i] = s[j] => i = j
    /\ S = {s[i] : i \in DOMAIN s}

\* It is as long as S is large.
LEMMA ListCounts ==
    ASSUME NEW S, NEW s, ListOf(s, S)
    PROVE  /\ Len(s) \in Nat /\ DOMAIN s = 1..Len(s)
           /\ IsFiniteSet(S) /\ Cardinality(S) = Len(s)
<1>1. Len(s) \in Nat /\ DOMAIN s = 1..Len(s) /\ s \in [1..Len(s) -> S]
  BY DEF ListOf
<1>2. IsFiniteSet(1..Len(s)) /\ Cardinality(1..Len(s)) = Len(s)
  BY <1>1, FS_Interval, SMTT(30)
<1>3. s \in Bijection(1..Len(s), S)
  BY <1>1 DEF ListOf, Bijection, Injection, Surjection, IsInjective
<1>4. ExistsBijection(1..Len(s), S)
  BY <1>3 DEF ExistsBijection
<1> HIDE DEF ListOf
<1> QED BY <1>1, <1>2, <1>4, FS_Bijection

\* A list of as many numbers as there are up to n has them all.
LEMMA FullList ==
    ASSUME NEW n \in Nat, NEW S \in SUBSET (1..n), NEW s, ListOf(s, S), Len(s) = n
    PROVE  S = 1..n
<1>1. IsFiniteSet(1..n) /\ Cardinality(1..n) = n
  BY FS_Interval
<1>2. Cardinality(S) = n
  BY ListCounts
<1> QED BY <1>1, <1>2, FS_Subset

\* The numbers up to n in their order.
LEMMA NumbersInOrder ==
    ASSUME NEW n \in Nat
    PROVE  ListOf([i \in 1..n |-> i], 1..n)
<1> DEFINE s == [i \in 1..n |-> i]
<1>1. s \in Seq(1..n) /\ DOMAIN s = 1..n /\ \A i \in 1..n : s[i] = i
  BY IsASeq
<1> HIDE DEF s
<1> QED BY <1>1 DEF ListOf

LEMMA EmptyList == ListOf(<<>>, {})
<1> DEFINE s == <<>>
<1>1. s \in Seq({}) /\ DOMAIN s = {}
  OBVIOUS
<1> HIDE DEF s
<1>2. {s[i] : i \in DOMAIN s} = {}
  BY <1>1
<1>3. \A i, j \in DOMAIN s : s[i] = s[j] => i = j
  BY <1>1
<1>4. ListOf(s, {})
  BY <1>1, <1>2, <1>3, Zenon DEF ListOf
<1> QED BY <1>4 DEF s

LEMMA ListWithLast ==
    ASSUME NEW S, NEW s, ListOf(s, S), NEW e, e \notin S
    PROVE  ListOf(Append(s, e), S \cup {e})
<1> DEFINE r == Append(s, e)
           n == Len(s)
<1>1. n \in Nat /\ DOMAIN s = 1..n /\ s \in Seq(S) /\ S = {s[i] : i \in 1..n}
      /\ \A i, j \in 1..n : s[i] = s[j] => i = j
  BY DEF ListOf
<1>2. r \in Seq(S \cup {e}) /\ Len(r) = n + 1 /\ DOMAIN r = 1..n + 1
      /\ r[n + 1] = e /\ \A i \in 1..n : r[i] = s[i]
  <2>1. s \in Seq(S \cup {e})
    BY <1>1
  <2> QED BY <1>1, <2>1
<1> HIDE DEF r, n
<1>3. \A i \in 1..n + 1 : i = n + 1 \/ i \in 1..n
  BY <1>1
<1>4. n + 1 \in 1..n + 1 /\ 1..n \subseteq 1..n + 1
  BY <1>1
<1>5. S \cup {e} = {r[i] : i \in 1..n + 1}
  BY <1>1, <1>2, <1>3, <1>4
<1>6. \A i \in 1..n : s[i] # e
  BY <1>1
<1>7. \A i, j \in 1..n + 1 : r[i] = r[j] => i = j
  BY <1>1, <1>2, <1>3, <1>6
<1> QED BY <1>2, <1>5, <1>7 DEF ListOf, r

-----------------------------------------------------------------------------
\* Views of a table of n rows, and the rows they show.

Views(n) == {WholeTable} \cup {[subset |-> TRUE, rows |-> s] : s \in Seq(1..n)}
Shows(t, view, S) ==
    /\ view \in Views(NumRows(t)) /\ S \subseteq 1..NumRows(t)
    /\ ListOf(ViewRows(t, view), S)

LEMMA WholeTableShows ==
    ASSUME NEW t, NumRows(t) \in Nat
    PROVE  Shows(t, WholeTable, 1..NumRows(t))
<1>1. ViewRows(t, WholeTable) = [i \in 1..NumRows(t) |-> i]
  BY Zenon DEF ViewRows, WholeTable
<1> QED BY <1>1, NumbersInOrder DEF Shows, Views

LEMMA SubsetShows ==
    ASSUME NEW t, NEW S \in SUBSET (1..NumRows(t)), NEW s, ListOf(s, S)
    PROVE  /\ Shows(t, [subset |-> TRUE, rows |-> s], S)
           /\ ViewRows(t, [subset |-> TRUE, rows |-> s]) = s
<1> DEFINE view == [subset |-> TRUE, rows |-> s]
<1>1. ViewRows(t, view) = s
  BY Zenon DEF ViewRows
<1>2. s \in Seq(1..NumRows(t))
  <2> DEFINE T == 1..NumRows(t)
  <2>1. s \in Seq(S) /\ S \subseteq T
    BY DEF ListOf
  <2> HIDE DEF T
  <2>2. s \in Seq(T)
    BY <2>1, SeqMonotonic
  <2> QED BY <2>2 DEF T
<1>3. view \in Views(NumRows(t))
  BY <1>2 DEF Views
<1> HIDE DEF view
<1>4. Shows(t, view, S)
  BY <1>1, <1>3 DEF Shows
<1> QED BY <1>1, <1>4 DEF view

-----------------------------------------------------------------------------
\* The rows of the first places that pass.
PassedUpTo(rows, passing, n) == {rows[i] : i \in 1..n} \cap passing

\* A filter that keeps the rows that pass shows those of a view that do.
LEMMA KeptRows ==
    ASSUME NEW t, NumRows(t) \in Nat, NEW view, NEW S, Shows(t, view, S), NEW passing
    PROVE  Shows(t, KeepRows(t, view, passing), S \cap passing)
<1> DEFINE rows == ViewRows(t, view)
           N == NumRows(t)
           n == Len(rows)
           Next(r, i) == IF rows[i] \in passing THEN Append(r, rows[i]) ELSE r
           Body(f) == [i \in 0..n |-> IF i = 0 THEN <<>> ELSE Next(f[i - 1], i)]
           matching == CHOOSE f : f = Body(f)
           X == Seq(S)
           z == <<>>
           step == [i \in 1..n |-> [r \in X |-> Next(r, i)]]
<1>1. /\ ListOf(rows, S) /\ n \in Nat /\ DOMAIN rows = 1..n /\ S \subseteq 1..N
      /\ \A i \in 1..n : rows[i] \in S
      /\ \A i, j \in 1..n : rows[i] = rows[j] => i = j
  <2>1. ListOf(rows, S) /\ S \subseteq 1..N
    BY DEF Shows
  <2>2. n \in Nat /\ DOMAIN rows = 1..n
    BY <2>1, ListCounts
  <2> QED BY <2>1, <2>2 DEF ListOf
<1>2. KeepRows(t, view, passing) = IF Len(matching[n]) = N THEN WholeTable ELSE [subset |-> TRUE, rows |-> matching[n]]
  BY DEF KeepRows
<1> HIDE DEF rows, N
<1>3. \A r \in X : \A i \in 1..n : Next(r, i) \in X
  BY <1>1
<1>4. step \in [1..n -> [X -> X]] /\ z \in X
  <2> HIDE DEF Next
  <2>1. step \in [1..n -> [X -> X]]
    BY <1>3
  <2> QED BY <2>1
<1> HIDE DEF n, X, z
<1>5. PICK g \in [0..n -> X] : Recursive(g, n, z, step)
  <2> HIDE DEF step
  <2> QED BY <1>1, <1>4, RecursionTo
<1>6. \A i \in 1..n : g[i] = Next(g[i - 1], i)
  <2>1. \A i \in 1..n : g[i - 1] \in X
    BY <1>1
  <2> HIDE DEF Next
  <2> QED BY <1>5, <2>1 DEF Recursive
<1> HIDE DEF Next
<1>7. g = Body(g)
  <2>1. \A i \in 0..n : g[i] = Body(g)[i]
    BY <1>1, <1>5, <1>6 DEF Recursive, z
  <2> QED BY <1>5, <2>1
<1>8. matching = Body(matching)
  <2> HIDE DEF Body
  <2> QED BY <1>7
<1>9. matching[0] = <<>> /\ \A i \in 1..n : matching[i] = Next(matching[i - 1], i)
  <2> HIDE DEF matching
  <2>1. \A i \in 0..n : matching[i] = IF i = 0 THEN <<>> ELSE Next(matching[i - 1], i)
    BY <1>8
  <2> QED BY <2>1, <1>1
<1> HIDE DEF matching
<1> DEFINE Passed(i) == PassedUpTo(rows, passing, i)
           G == {i \in 0..n : ListOf(matching[i], Passed(i))}
<1>10. 0 \in G
  <2>1. Passed(0) = {}
    BY DEF PassedUpTo
  <2>2. ListOf(matching[0], {})
    BY <1>9, EmptyList, Zenon
  <2> HIDE DEF Passed
  <2>3. ListOf(matching[0], Passed(0))
    BY <2>1, <2>2, Zenon
  <2>4. 0 \in 0..n
    BY <1>1
  <2> QED BY <2>3, <2>4
<1>11. ASSUME NEW i \in 0..n - 1, i \in G PROVE i + 1 \in G
  <2> DEFINE r == matching[i]
             e == rows[i + 1]
  <2>1. i \in Nat /\ i + 1 \in 1..n /\ 1..i + 1 = 1..i \cup {i + 1} /\ i + 1 \in 0..n
    BY <1>1
  <2>2. matching[i + 1] = Next(r, i + 1)
    <3>1. matching[i + 1] = Next(matching[(i + 1) - 1], i + 1) /\ (i + 1) - 1 = i
      BY <1>9, <2>1
    <3> QED BY <3>1
  <2>3. ListOf(r, Passed(i))
    BY <1>11
  <2>4. CASE e \in passing
    <3>1. Passed(i + 1) = Passed(i) \cup {e}
      BY <2>1, <2>4 DEF PassedUpTo
    <3>2. matching[i + 1] = Append(r, e)
      BY <2>2, <2>4 DEF Next
    <3>3. e \notin Passed(i)
      <4>1. \A j \in 1..i : j \in 1..n /\ j # i + 1
        BY <2>1, <1>1
      <4>2. \A j \in 1..i : rows[j] # e
        BY <1>1, <2>1, <4>1
      <4> QED BY <4>2 DEF PassedUpTo
    <3>4. ListOf(Append(r, e), Passed(i) \cup {e})
      <4> HIDE DEF r, e, Passed
      <4> QED BY <2>3, <3>3, ListWithLast
    <3> HIDE DEF Passed
    <3> QED BY <2>1, <3>1, <3>2, <3>4
  <2>5. CASE e \notin passing
    <3>1. Passed(i + 1) = Passed(i)
      BY <2>1, <2>5 DEF PassedUpTo
    <3>2. matching[i + 1] = r
      BY <2>2, <2>5 DEF Next
    <3> HIDE DEF Passed
    <3> QED BY <2>1, <2>3, <3>1, <3>2
  <2> QED BY <2>4, <2>5
<1>12. 0..n \subseteq G
  <2> HIDE DEF G
  <2> QED BY <1>1, <1>10, <1>11, InductionTo
<1> DEFINE m == matching[n]
<1>13. ListOf(m, S \cap passing)
  <2>1. Passed(n) = S \cap passing
    <3>1. S = {rows[i] : i \in 1..n}
      BY <1>1 DEF ListOf
    <3> QED BY <3>1 DEF PassedUpTo
  <2>2. n \in G
    BY <1>1, <1>12
  <2> HIDE DEF Passed
  <2> QED BY <2>1, <2>2
<1> HIDE DEF m, G, Passed
<1>14. CASE Len(m) = N
  <2>1. S \cap passing = 1..N
    BY <1>1, <1>13, <1>14, FullList DEF N
  <2>2. KeepRows(t, view, passing) = WholeTable
    BY <1>2, <1>14 DEF m
  <2> QED BY <2>1, <2>2, WholeTableShows DEF N
<1>15. CASE Len(m) # N
  <2>1. KeepRows(t, view, passing) = [subset |-> TRUE, rows |-> m]
    BY <1>2, <1>15 DEF m
  <2>2. S \cap passing \in SUBSET (1..NumRows(t))
    BY <1>1 DEF N
  <2> QED BY <2>1, <2>2, <1>13, SubsetShows
<1> QED BY <1>14, <1>15

-----------------------------------------------------------------------------
\* A table has columns and rows, with numbers in the columns of numbers; the
\* filters of a request are a sequence of those assumed.

TableTyped(t) ==
    /\ NumRows(t) \in Nat
    /\ \E k \in Nat : DOMAIN t.fields = 1..k
    /\ \A row \in 1..NumRows(t), c \in DOMAIN t.fields :
          t.fields[c].type \in Numeric => t.cells[row][c] \in Int

FilterTyped(filter) == filter.value \in Nat /\ filter.second \in Nat /\ filter.op \in Comparisons
FiltersTyped(filters) ==
    /\ Len(filters) \in Nat /\ DOMAIN filters = 1..Len(filters)
    /\ \A n \in DOMAIN filters : FilterTyped(filters[n])

LEMMA FiltersAreTyped ==
    ASSUME NEW filters \in Filters
    PROVE  FiltersTyped(filters)
<1> DEFINE F == {filters[n] : n \in DOMAIN filters}
<1>1. filters \in Seq(F)
  BY FiltersAssumption
<1> HIDE DEF F
<1>2. Len(filters) \in Nat /\ DOMAIN filters = 1..Len(filters)
  BY <1>1
<1> QED BY <1>2, FiltersAssumption DEF FiltersTyped, FilterTyped

\* A column that is found is one of the table; none is without a name.
LEMMA ColumnFound ==
    ASSUME NEW t, TableTyped(t), NEW name
    PROVE  GetColumnByName(t, name) \in {0} \cup DOMAIN t.fields
<1> DEFINE named == {c \in DOMAIN t.fields : t.fields[c].name = name /\ name # NoName}
<1>1. PICK k \in Nat : DOMAIN t.fields = 1..k
  BY DEF TableTyped
<1>2. CASE named = {}
  BY <1>2 DEF GetColumnByName
<1>3. CASE named # {}
  <2>1. named \subseteq 0..k
    BY <1>1
  <2>2. GetColumnByName(t, name) = CHOOSE c \in named : \A d \in named : d <= c
    BY <1>3 DEF GetColumnByName
  <2>3. named \subseteq DOMAIN t.fields
    OBVIOUS
  <2> HIDE DEF named
  <2>4. \E c \in named : \A d \in named : d <= c
    BY <1>3, <2>1, GreatestNumber
  <2> QED BY <2>2, <2>3, <2>4
<1> QED BY <1>2, <1>3

LEMMA ColumnWithoutName ==
    ASSUME NEW t
    PROVE  GetColumnByName(t, NoName) = 0
<1>1. {c \in DOMAIN t.fields : t.fields[c].name = NoName /\ NoName # NoName} = {}
  OBVIOUS
<1> QED BY <1>1 DEF GetColumnByName

-----------------------------------------------------------------------------
\* The filters keep what they mean.

LEMMA ComparesAsMeant ==
    ASSUME NEW op \in Comparisons, NEW val \in Int, NEW low \in Int, NEW high \in Int
    PROVE  Compares(op, val, low, high) <=> MeantBy(op, val, low, high)
<1>1. CASE val = NaN
  BY <1>1 DEF Compares, MeantBy
<1>2. CASE val # NaN
  <2>1. CASE op = "Equal"
    BY <1>2, <2>1 DEF Compares, MeantBy
  <2>2. CASE op = "NotEqual"
    BY <1>2, <2>2 DEF Compares, MeantBy
  <2>3. CASE op = "Lesser"
    BY <1>2, <2>3 DEF Compares, MeantBy
  <2>4. CASE op = "GreaterOrEqual"
    BY <1>2, <2>4 DEF Compares, MeantBy
  <2>5. CASE op = "RangeClosed"
    BY <1>2, <2>5 DEF Compares, MeantBy
  <2>6. CASE op = "RangeOpen"
    BY <1>2, <2>6 DEF Compares, MeantBy
  <2>7. CASE op = "Greater"
    BY <1>2, <2>7 DEF Compares, MeantBy
  <2>8. CASE op = "LessorOrEqual"
    BY <1>2, <2>8 DEF Compares, MeantBy
  <2> QED BY <2>1, <2>2, <2>3, <2>4, <2>5, <2>6, <2>7, <2>8 DEF Comparisons
<1> QED BY <1>1, <1>2

LEMMA TypedAsMeant ==
    ASSUME NEW type, NEW value \in Nat
    PROVE  Typed(type, value) \in Int /\ Typed(type, value) = MeantValue(type, value)
BY DEF Typed, MeantValue

MeantRows(t, filter) == {row \in 1..NumRows(t) : Meant(t, filter, row)}

LEMMA ApplyFilterShows ==
    ASSUME NEW t, TableTyped(t), NEW filter, FilterTyped(filter), NEW view, NEW S, Shows(t, view, S)
    PROVE  Shows(t, ApplyFilter(filter, t, view), S \cap MeantRows(t, filter))
<1> DEFINE column == GetColumnByName(t, filter.column)
           type == t.fields[column].type
<1>1. column \in {0} \cup DOMAIN t.fields
  BY ColumnFound
<1>2. NumRows(t) \in Nat /\ S \subseteq 1..NumRows(t)
  BY DEF TableTyped, Shows
<1>3. CASE column = 0 \/ type \notin Supported
  <2>1. MeantRows(t, filter) = 1..NumRows(t)
    BY <1>3 DEF MeantRows, Meant
  <2>2. ApplyFilter(filter, t, view) = view
    BY <1>3, Zenon DEF ApplyFilter
  <2>3. S \cap MeantRows(t, filter) = S
    BY <1>2, <2>1
  <2> QED BY <2>2, <2>3
<1>4. CASE column # 0 /\ type = "string"
  <2> DEFINE passing == {row \in 1..NumRows(t) : filter.value \in t.strings[t.cells[row][column]]}
  <2>1. type \in Supported
    BY <1>4, Zenon DEF Supported
  <2>2. MeantRows(t, filter) = passing
    BY <1>4, <2>1, Zenon DEF MeantRows, Meant
  <2>3. ApplyFilter(filter, t, view) = KeepRows(t, view, passing)
    BY <1>4, <2>1, Zenon DEF ApplyFilter, StringFilter
  <2> HIDE DEF passing
  <2> QED BY <1>2, <2>2, <2>3, KeptRows
<1>5. CASE column # 0 /\ type \in Numeric
  <2> DEFINE Passes(row) == Compares(filter.op, t.cells[row][column],
                                     Typed(type, filter.value), Typed(type, filter.second))
             passing == {row \in 1..NumRows(t) : Passes(row)}
  <2>1. type \in Supported /\ type # "string"
    BY <1>5 DEF Supported, Numeric
  <2>2. ASSUME NEW row \in 1..NumRows(t) PROVE Meant(t, filter, row) <=> Passes(row)
    <3>1. t.cells[row][column] \in Int
      BY <1>1, <1>5 DEF TableTyped
    <3>2. Meant(t, filter, row) = MeantBy(filter.op, t.cells[row][column], MeantValue(type, filter.value),
                                          MeantValue(type, filter.second))
      BY <1>5, <2>1, Zenon DEF Meant
    <3>3. /\ Typed(type, filter.value) \in Int /\ Typed(type, filter.value) = MeantValue(type, filter.value)
          /\ Typed(type, filter.second) \in Int /\ Typed(type, filter.second) = MeantValue(type, filter.second)
      BY TypedAsMeant DEF FilterTyped
    <3> HIDE DEF type, column
    <3>4. Passes(row) <=> MeantBy(filter.op, t.cells[row][column], MeantValue(type, filter.value),
                                  MeantValue(type, filter.second))
      BY <3>1, <3>3, ComparesAsMeant DEF FilterTyped
    <3> QED BY <3>2, <3>4
  <2>3. ApplyFilter(filter, t, view) = KeepRows(t, view, passing)
    BY <1>5, <2>1, Zenon DEF ApplyFilter, NumericFilter
  <2>4. MeantRows(t, filter) = passing
    <3> HIDE DEF Passes
    <3> QED BY <2>2 DEF MeantRows
  <2> HIDE DEF passing
  <2> QED BY <1>2, <2>3, <2>4, KeptRows
<1> QED BY <1>3, <1>4, <1>5, Zenon DEF Supported

\* The rows that pass the first n filters.
PassFilters(t, filters, n) == {row \in 1..NumRows(t) : \A i \in 1..n : Meant(t, filters[i], row)}

LEMMA FilteredShows ==
    ASSUME NEW t, TableTyped(t), NEW filters, FiltersTyped(filters)
    PROVE  Shows(t, Filtered(t, filters), PassFilters(t, filters, Len(filters)))
<1> DEFINE N == NumRows(t)
           n == Len(filters)
           Body(f) == [i \in 0..n |-> IF i = 0 THEN WholeTable ELSE ApplyFilter(filters[i], t, f[i - 1])]
           after == CHOOSE f : f = Body(f)
           X == {view \in Views(N) : \E S \in SUBSET (1..N) : Shows(t, view, S)}
           z == WholeTable
           step == [i \in 1..n |-> [view \in X |-> ApplyFilter(filters[i], t, view)]]
           Passed(i) == PassFilters(t, filters, i)
<1>1. n \in Nat /\ N \in Nat /\ \A i \in 1..n : FilterTyped(filters[i])
  BY DEF FiltersTyped, TableTyped
<1>2. Filtered(t, filters) = after[n]
  BY DEF Filtered
<1> HIDE DEF n
<1>3. ASSUME NEW view \in X, NEW i \in 1..n PROVE ApplyFilter(filters[i], t, view) \in X
  <2>1. PICK S \in SUBSET (1..N) : Shows(t, view, S)
    BY <1>3
  <2>2. Shows(t, ApplyFilter(filters[i], t, view), S \cap MeantRows(t, filters[i]))
    BY <1>1, <2>1, ApplyFilterShows
  <2>3. S \cap MeantRows(t, filters[i]) \in SUBSET (1..N)
    OBVIOUS
  <2> QED BY <2>2, <2>3 DEF Shows
<1>4. Shows(t, z, 1..N)
  BY <1>1, WholeTableShows
<1>5. z \in X
  BY <1>4 DEF Shows
<1> HIDE DEF X, z
<1>6. step \in [1..n -> [X -> X]]
  BY <1>3
<1>7. PICK g \in [0..n -> X] : Recursive(g, n, z, step)
  <2> HIDE DEF step
  <2> QED BY <1>1, <1>5, <1>6, RecursionTo
<1>8. \A i \in 1..n : g[i] = ApplyFilter(filters[i], t, g[i - 1])
  <2>1. \A i \in 1..n : g[i - 1] \in X
    BY <1>1
  <2> QED BY <1>7, <2>1 DEF Recursive
<1>9. g = Body(g)
  <2>1. \A i \in 0..n : g[i] = Body(g)[i]
    BY <1>1, <1>7, <1>8 DEF Recursive, z
  <2> QED BY <1>7, <2>1
<1>10. after = Body(after)
  <2> HIDE DEF Body
  <2> QED BY <1>9
<1>11. after[0] = z /\ \A i \in 1..n : after[i] = ApplyFilter(filters[i], t, after[i - 1])
  <2> HIDE DEF after
  <2>1. \A i \in 0..n : after[i] = IF i = 0 THEN WholeTable ELSE ApplyFilter(filters[i], t, after[i - 1])
    BY <1>10
  <2> QED BY <2>1, <1>1 DEF z
<1> HIDE DEF after
<1> DEFINE G == {i \in 0..n : Shows(t, after[i], Passed(i))}
<1>12. 0 \in G
  <2>1. Passed(0) = 1..N
    BY DEF PassFilters
  <2> HIDE DEF Passed
  <2>2. Shows(t, after[0], Passed(0))
    BY <1>4, <1>11, <2>1
  <2> QED BY <1>1, <2>2
<1>13. ASSUME NEW i \in 0..n - 1, i \in G PROVE i + 1 \in G
  <2>1. i \in Nat /\ i + 1 \in 1..n /\ 1..i + 1 = 1..i \cup {i + 1} /\ i + 1 \in 0..n
    BY <1>1
  <2>2. after[i + 1] = ApplyFilter(filters[i + 1], t, after[i])
    <3>1. after[i + 1] = ApplyFilter(filters[i + 1], t, after[(i + 1) - 1]) /\ (i + 1) - 1 = i
      BY <1>11, <2>1
    <3> QED BY <3>1
  <2>3. Shows(t, after[i], Passed(i))
    BY <1>13
  <2>4. Passed(i + 1) = Passed(i) \cap MeantRows(t, filters[i + 1])
    BY <2>1 DEF PassFilters, MeantRows
  <2> HIDE DEF Passed
  <2>5. Shows(t, after[i + 1], Passed(i + 1))
    BY <1>1, <2>1, <2>2, <2>3, <2>4, ApplyFilterShows
  <2> QED BY <2>1, <2>5
<1>14. 0..n \subseteq G
  <2> HIDE DEF G
  <2> QED BY <1>1, <1>12, <1>13, InductionTo
<1>15. Shows(t, after[n], Passed(n))
  BY <1>1, <1>14
<1> QED BY <1>2, <1>15 DEF n

-----------------------------------------------------------------------------
\* Sorting.

\* Rows are in the order of a column, if it is one that can be sorted.
InOrderOf(t, rows, name, ascending) ==
    GetColumnByName(t, name) # 0 /\ t.fields[GetColumnByName(t, name)].type \in Supported =>
        Sorted(t, GetColumnByName(t, name), ascending, rows)

\* As many places as there are: each is taken once.
LEMMA Permutation ==
    ASSUME NEW n \in Nat, NEW p \in [1..n -> 1..n], Cardinality({p[i] : i \in 1..n}) = n
    PROVE  /\ {p[i] : i \in 1..n} = 1..n
           /\ \A i, j \in 1..n : p[i] = p[j] => i = j
<1> DEFINE T == {p[i] : i \in 1..n}
           D == 1..n
<1>1. IsFiniteSet(D) /\ Cardinality(D) = n
  BY FS_Interval
<1>2. T \in SUBSET D
  OBVIOUS
<1>3. T = D
  <2> HIDE DEF T, D
  <2> QED BY <1>1, <1>2, FS_Subset DEF T, D
<1>4. p \in Surjection(D, D)
  BY <1>3 DEF Surjection
<1> HIDE DEF D
<1>5. p \in Injection(D, D)
  BY <1>1, <1>4, FS_SurjSameCardinalityImpliesInj
<1> QED BY <1>3, <1>5 DEF D, Injection, IsInjective

LEMMA SortedRows ==
    ASSUME NEW t, NEW view, NEW S, Shows(t, view, S), NEW name, NEW ascending,
           NEW v \in SortByColumn(t, view, name, ascending)
    PROVE  Shows(t, v, S) /\ InOrderOf(t, ViewRows(t, v), name, ascending)
<1> DEFINE column == GetColumnByName(t, name)
           rows == ViewRows(t, view)
           n == Len(rows)
           Order(p) == [i \in DOMAIN rows |-> rows[p[i]]]
           orders == {p \in [DOMAIN rows -> DOMAIN rows] : Cardinality({p[i] : i \in DOMAIN rows}) = Len(rows)}
<1>1. CASE column = 0 \/ t.fields[column].type \notin Supported
  <2>1. v = view
    BY <1>1 DEF SortByColumn
  <2> QED BY <1>1, <2>1 DEF InOrderOf
<1>2. CASE column # 0 /\ t.fields[column].type \in Supported
  <2>1. PICK p \in orders : v = [subset |-> TRUE, rows |-> Order(p)] /\ Sorted(t, column, ascending, Order(p))
    BY <1>2 DEF SortByColumn
  <2>2. ListOf(rows, S) /\ S \subseteq 1..NumRows(t)
    BY DEF Shows
  <2> HIDE DEF rows
  <2>3. n \in Nat /\ DOMAIN rows = 1..n
    BY <2>2, ListCounts
  <2>4. p \in [1..n -> 1..n] /\ Cardinality({p[i] : i \in 1..n}) = n
    BY <2>1, <2>3
  <2>5. /\ {p[i] : i \in 1..n} = 1..n
        /\ \A i, j \in 1..n : p[i] = p[j] => i = j
    BY <2>3, <2>4, Permutation
  <2> DEFINE r == Order(p)
  <2>6. r = [i \in 1..n |-> rows[p[i]]] /\ DOMAIN r = 1..n /\ \A i \in 1..n : r[i] = rows[p[i]]
    BY <2>3
  <2>7. /\ S = {rows[i] : i \in 1..n} /\ \A i \in 1..n : rows[i] \in S
        /\ \A i, j \in 1..n : rows[i] = rows[j] => i = j
    BY <2>2, <2>3 DEF ListOf
  <2> HIDE DEF r, n
  <2>8. \A i \in 1..n : p[i] \in 1..n
    BY <2>4
  <2>9. r \in [1..n -> S]
    BY <2>6, <2>7, <2>8
  <2>10. r \in Seq(S)
    BY <2>3, <2>9, SeqDef
  <2>11. S = {r[i] : i \in 1..n}
    BY <2>5, <2>6, <2>7, <2>8, SMTT(30)
  <2>12. ListOf(r, S)
    <3>1. \A i, j \in 1..n : r[i] = r[j] => i = j
      BY <2>5, <2>6, <2>7, <2>8, ZenonT(40)
    <3> QED BY <2>6, <2>10, <2>11, <3>1 DEF ListOf
  <2>13. Shows(t, v, S) /\ ViewRows(t, v) = r
    BY <2>1, <2>2, <2>12, SubsetShows DEF r
  <2> QED BY <2>1, <2>13 DEF InOrderOf, r
<1> QED BY <1>1, <1>2

-----------------------------------------------------------------------------
\* Responses in chunks.

ChunkFits(chunk, start, size) ==
    /\ chunk.from \in Nat /\ chunk.to \in Nat
    /\ start <= chunk.from /\ chunk.from <= chunk.to /\ chunk.to <= start + size
InChunk(chunk, place) == chunk.from < place /\ place <= chunk.to

\* The chunks lie within what is asked for, and each place of it is in one.
LEMMA ChunksCover ==
    ASSUME NEW start \in Nat, NEW size \in Nat
    PROVE  /\ \A c \in DOMAIN Chunks(start, size) : ChunkFits(Chunks(start, size)[c], start, size)
           /\ \A i \in 1..size : \E c \in DOMAIN Chunks(start, size) : InChunk(Chunks(start, size)[c], start + i)
<1>1. CASE size = 0
  <2>1. Chunks(start, size) = <<[from |-> start, to |-> start]>>
    BY <1>1 DEF Chunks
  <2> QED BY <1>1, <2>1 DEF ChunkFits
<1>2. CASE size # 0
  <2> DEFINE M == MaxChunk
             m == Ceil(size, M)
             From(c) == start + (c - 1) * M
             To(c) == IF c * M < size THEN start + c * M ELSE start + size
             chunks == [c \in 1..m |-> [from |-> From(c), to |-> To(c)]]
  <2>1. M \in Nat \ {0}
    BY PagesAssumption
  <2>2. m \in Nat /\ Chunks(start, size) = chunks
    <3>1. m \in Nat
      BY <2>1, CeilIs
    <3> QED BY <1>2, <3>1 DEF Chunks, Ceil
  <2> HIDE DEF M, m
  <2>3. ASSUME NEW c \in 1..m PROVE From(c) \in Nat /\ To(c) \in Nat /\ From(c) <= To(c) /\ To(c) <= start + size
    <3>1. c \in Int /\ c - 1 \in Nat /\ c \in Nat /\ ~(m <= c - 1)
      BY <2>2
    <3>2. ~(size <= (c - 1) * M)
      BY <2>1, <3>1, CeilOrder DEF m
    <3>3. (c - 1) * M \in Nat /\ c * M \in Nat /\ (c - 1) * M <= c * M
      <4>1. (c - 1) * M \in Nat /\ c * M \in Nat
        BY <2>1, <3>1
      <4> QED BY <2>1, <3>1, <4>1, MultiplesAscend
    <3> DEFINE a == (c - 1) * M
               b == c * M
    <3>4. a \in Nat /\ b \in Nat /\ a <= b /\ ~(size <= a)
      BY <3>2, <3>3
    <3> HIDE DEF a, b
    <3>5. /\ start + a \in Nat
          /\ (IF b < size THEN start + b ELSE start + size) \in Nat
          /\ start + a <= (IF b < size THEN start + b ELSE start + size)
          /\ (IF b < size THEN start + b ELSE start + size) <= start + size
      BY <3>4
    <3> QED BY <3>5 DEF a, b
  <2>4. ASSUME NEW i \in 1..size PROVE \E c \in 1..m : From(c) < start + i /\ start + i <= To(c)
    <3> DEFINE c == Ceil(i, M)
    <3>1. i \in Nat /\ i <= size /\ i # 0
      OBVIOUS
    <3>2. c \in Nat /\ c * M \in Int /\ i <= c * M /\ c <= m
      BY <2>1, <3>1, CeilIs, CeilAscends DEF m
    <3>3. ~(c <= c - 1) /\ c - 1 \in Int
      BY <3>2
    <3>4. ~(i <= (c - 1) * M)
      BY <2>1, <3>1, <3>3, CeilOrder
    <3>5. c # 0
      <4>1. ~(i <= 0 * M)
        BY <2>1, <3>1
      <4> QED BY <3>2, <4>1
    <3> HIDE DEF c
    <3>6. c \in 1..m
      BY <2>2, <3>2, <3>5
    <3>7. (c - 1) * M \in Int
      BY <2>1, <3>3
    <3> DEFINE a == (c - 1) * M
               b == c * M
    <3>8. a \in Int /\ b \in Int /\ a < i /\ i <= b
      BY <3>2, <3>4, <3>7, <3>1
    <3> HIDE DEF a, b
    <3>9. start + a < start + i /\ start + i <= (IF b < size THEN start + b ELSE start + size)
      BY <3>1, <3>8
    <3> QED BY <3>6, <3>9 DEF a, b
  <2>5. ASSUME NEW c \in 1..m PROVE chunks[c].from = From(c) /\ chunks[c].to = To(c)
    <3> HIDE DEF From, To
    <3> QED OBVIOUS
  <2>6. DOMAIN chunks = 1..m
    OBVIOUS
  <2>7. \A c \in 1..m : start <= From(c)
    BY <2>1, <2>2
  <2> HIDE DEF chunks, From, To
  <2> QED BY <2>2, <2>3, <2>4, <2>5, <2>6, <2>7 DEF ChunkFits, InChunk
<1> QED BY <1>1, <1>2

\* A response is made of pieces of the rows, which together are those asked for.
PieceOf(rows, piece) ==
    \E from \in Nat : /\ \A i \in DOMAIN piece : i \in Nat /\ from + i \in 1..Len(rows) /\ piece[i] = rows[from + i]

RowsSent(sent) == UNION {{sent[c][i] : i \in DOMAIN sent[c]} : c \in DOMAIN sent}
RowsShown(rows, start, n) == {rows[start + i] : i \in 1..n}

LEMMA SentRows ==
    ASSUME NEW S, NEW rows, ListOf(rows, S), NEW start \in Nat, NEW size \in Nat, start + size <= Len(rows)
    PROVE  /\ \A c \in DOMAIN PartialResults(rows, start, size) : PieceOf(rows, PartialResults(rows, start, size)[c])
           /\ RowsSent(PartialResults(rows, start, size)) = RowsShown(rows, start, size)
<1> DEFINE n == Len(rows)
           chunks == Chunks(start, size)
           sent == PartialResults(rows, start, size)
<1>1. n \in Nat /\ DOMAIN rows = 1..n /\ rows \in Seq(S)
  BY ListCounts DEF ListOf
<1>2. sent = [c \in DOMAIN chunks |-> RowsFrom(rows, chunks[c].from, chunks[c].to)]
  BY DEF PartialResults
<1>3. /\ \A c \in DOMAIN chunks : ChunkFits(chunks[c], start, size)
      /\ \A i \in 1..size : \E c \in DOMAIN chunks : InChunk(chunks[c], start + i)
  BY ChunksCover
<1> HIDE DEF chunks, sent
<1>4. ASSUME NEW c \in DOMAIN chunks
      PROVE  /\ chunks[c].from \in Nat /\ chunks[c].to \in Nat
             /\ DOMAIN sent[c] = 1..chunks[c].to - chunks[c].from
             /\ \A i \in 1..chunks[c].to - chunks[c].from :
                   /\ chunks[c].from + i \in 1..n /\ chunks[c].from + i - start \in 1..size
                   /\ sent[c][i] = rows[chunks[c].from + i]
  <2> DEFINE from == chunks[c].from
             to == chunks[c].to
  <2>1. from \in Nat /\ to \in Nat /\ start <= from /\ from <= to /\ to <= start + size
    BY <1>3 DEF ChunkFits
  <2>2. sent[c] = RowsFrom(rows, from, to)
    BY <1>2
  <2> HIDE DEF from, to, n
  <2>3. RowsFrom(rows, from, to) = SubSeq(rows, from + 1, to)
    BY <1>1, <2>1 DEF RowsFrom, n
  <2>4. /\ from + 1 \in Nat /\ from + 1 \in 1..n + 1 /\ to \in from..n
    BY <1>1, <2>1 DEF n
  <2>5. /\ DOMAIN SubSeq(rows, from + 1, to) = 1..to - from
        /\ \A i \in 1..to - from : SubSeq(rows, from + 1, to)[i] = rows[from + i]
    <3> DEFINE m == from + 1
               q == SubSeq(rows, m, to)
    <3>1. m \in Int /\ to \in Int /\ \A i \in m..to : rows[i] \in S
      BY <1>1, <2>1, <2>4 DEF n
    <3>2. /\ (IF m <= to THEN to - m + 1 ELSE 0) = to - from /\ to - m + 1 = to - from
          /\ \A i \in 1..to - from : m + i - 1 = from + i
      BY <2>1
    <3> HIDE DEF m
    <3>3. /\ q \in Seq(S) /\ Len(q) = (IF m <= to THEN to - m + 1 ELSE 0)
          /\ \A i \in 1..to - m + 1 : q[i] = rows[m + i - 1]
      BY <3>1, SubSeqProperties
    <3> HIDE DEF q
    <3>4. DOMAIN q = 1..to - from
      BY <3>2, <3>3
    <3>5. \A i \in 1..to - from : q[i] = rows[from + i]
      BY <3>2, <3>3
    <3> QED BY <3>4, <3>5 DEF q, m
  <2>6. \A i \in 1..to - from : from + i \in 1..n /\ from + i - start \in 1..size
    BY <1>1, <2>1 DEF n
  <2> QED BY <2>1, <2>2, <2>3, <2>5, <2>6 DEF from, to
<1>5. DOMAIN sent = DOMAIN chunks
  BY <1>2
<1>6. \A c \in DOMAIN sent : PieceOf(rows, sent[c])
  <2>1. ASSUME NEW c \in DOMAIN chunks PROVE PieceOf(rows, sent[c])
    <3> DEFINE from == chunks[c].from
               m == chunks[c].to - from
    <3>1. from \in Nat /\ DOMAIN sent[c] = 1..m
          /\ \A i \in 1..m : from + i \in 1..n /\ sent[c][i] = rows[from + i]
      BY <1>4
    <3>2. \A i \in 1..m : i \in Nat
      BY <1>4
    <3> HIDE DEF from, m
    <3> QED BY <3>1, <3>2 DEF PieceOf, n
  <2> QED BY <1>5, <2>1
<1>7. RowsSent(sent) \subseteq RowsShown(rows, start, size)
  <2>1. ASSUME NEW c \in DOMAIN chunks, NEW i \in DOMAIN sent[c] PROVE sent[c][i] \in RowsShown(rows, start, size)
    <3> DEFINE k == chunks[c].from + i - start
    <3>1. i \in 1..chunks[c].to - chunks[c].from
      BY <1>4
    <3>2. chunks[c].from \in Nat /\ chunks[c].to \in Nat /\ i \in Int
      BY <1>4, <3>1
    <3>3. k \in 1..size /\ sent[c][i] = rows[chunks[c].from + i]
      BY <1>4, <3>1
    <3>4. start + k = chunks[c].from + i
      BY <3>2
    <3> HIDE DEF k
    <3> QED BY <3>3, <3>4 DEF RowsShown
  <2> QED BY <1>5, <2>1 DEF RowsSent
<1>8. ASSUME NEW i \in 1..size PROVE rows[start + i] \in RowsSent(sent)
  <2>1. PICK c \in DOMAIN chunks : InChunk(chunks[c], start + i)
    BY <1>3
  <2> DEFINE k == start + i - chunks[c].from
  <2>2. k \in 1..chunks[c].to - chunks[c].from /\ chunks[c].from + k = start + i
    BY <1>4, <2>1, SMTT(30) DEF InChunk
  <2> HIDE DEF k
  <2>3. k \in DOMAIN sent[c] /\ sent[c][k] = rows[start + i]
    BY <1>4, <2>2
  <2> QED BY <1>5, <2>3 DEF RowsSent
<1>9. RowsSent(sent) = RowsShown(rows, start, size)
  BY <1>7, <1>8 DEF RowsShown
<1> QED BY <1>6, <1>9 DEF sent

-----------------------------------------------------------------------------
\* The invariant: a view shows the rows that pass its filters, in its order; the
\* pages are places of it, and the last response is made of it.

ViewIs(t, cache) ==
    /\ TableTyped(t) /\ FiltersTyped(cache.filters)
    /\ Shows(t, cache.view, PassFilters(t, cache.filters, Len(cache.filters)))
    /\ InOrderOf(t, ViewRows(t, cache.view), cache.sort, cache.ascending)

PagesOf(rows, sent) == sent \subseteq {<<i, rows[i]>> : i \in 1..Len(rows)}

RespondsFrom(t, cache, r) ==
    /\ r.filters = cache.filters /\ r.sort = cache.sort /\ r.ascending = cache.ascending
    /\ r.start \in Nat /\ r.size \in Nat
    /\ r.total = Len(ViewRows(t, cache.view))
    /\ r.sent = PartialResults(ViewRows(t, cache.view), r.start,
                               ResponseSize(ViewRows(t, cache.view), r.start, r.size))

TablesIInv ==
    /\ DOMAIN tables \subseteq Catalogs /\ DOMAIN view_cache \subseteq DOMAIN tables
    /\ pages \in [Catalogs -> SUBSET UNION {pages[id] : id \in Catalogs}]
    /\ \A id \in DOMAIN tables : TableTyped(tables[id])
    /\ \A id \in DOMAIN view_cache :
          /\ ViewIs(tables[id], view_cache[id])
          /\ PagesOf(ViewRows(tables[id], view_cache[id].view), pages[id])
    /\ \A id \in Catalogs \ DOMAIN view_cache : pages[id] = {}
    /\ Replied => /\ table_reply.id \in DOMAIN view_cache
                  /\ RespondsFrom(tables[table_reply.id], view_cache[table_reply.id], table_reply)

\* What a table that was opened holds.
OpenedTable(file) == [fields |-> file.fields, strings |-> file.strings, cells |-> PopulateRows(file)]
FreshView == [view |-> WholeTable, filters |-> <<>>, sort |-> NoName, ascending |-> TRUE]

LEMMA OpenedIsTyped ==
    ASSUME NEW file \in TableFiles
    PROVE  TableTyped(OpenedTable(file))
<1> DEFINE t == OpenedTable(file)
           F == {file.fields[c] : c \in DOMAIN file.fields}
           R == {file.rows[row] : row \in DOMAIN file.rows}
           Cell(row, c) == IF c <= Len(file.rows[row]) THEN file.rows[row][c] ELSE SetEmpty(file.fields[c].type)
           Row(row) == [c \in DOMAIN file.fields |-> Cell(row, c)]
           cells == [row \in DOMAIN file.rows |-> Row(row)]
           k == Len(file.rows)
           w == Len(file.fields)
<1>1. file.fields \in Seq(F) /\ file.rows \in Seq(R)
  BY TableFilesAssumption
<1>2. t.fields = file.fields /\ t.cells = cells
  BY DEF OpenedTable, PopulateRows
<1> HIDE DEF F, R, t
<1>3. k \in Nat /\ DOMAIN file.rows = 1..k /\ w \in Nat /\ DOMAIN file.fields = 1..w
  BY <1>1
<1> HIDE DEF k, w
<1>4. Len(cells) = k
  <2> DEFINE C == {Row(row) : row \in 1..k}
  <2>1. cells \in [1..k -> C] /\ DOMAIN cells = 1..k
    BY <1>3
  <2> HIDE DEF cells, C
  <2>2. cells \in Seq(C)
    BY <1>3, <2>1, SeqDef
  <2> QED BY <1>3, <2>1, <2>2
<1>5. ASSUME NEW row \in 1..k, NEW c \in 1..w, file.fields[c].type \in Numeric
      PROVE  cells[row][c] \in Int
  <2>1. cells[row][c] = Cell(row, c)
    BY <1>3
  <2> HIDE DEF cells
  <2>2. CASE c <= Len(file.rows[row])
    <3> DEFINE r == file.rows[row]
               S == {r[i] : i \in DOMAIN r}
    <3>1. r \in Seq(S)
      BY <1>3, TableFilesAssumption
    <3> HIDE DEF S
    <3>2. c \in DOMAIN r
      BY <2>2, <3>1
    <3>3. r[c] \in Int
      BY <1>3, <1>5, <3>2, TableFilesAssumption DEF Numeric
    <3> QED BY <2>1, <2>2, <3>3
  <2>3. CASE ~(c <= Len(file.rows[row]))
    <3>1. SetEmpty(file.fields[c].type) \in Int
      BY <1>5 DEF SetEmpty, Numeric, NaN, NoCell
    <3> QED BY <2>1, <2>3, <3>1
  <2> QED BY <2>2, <2>3
<1> HIDE DEF cells
<1>6. TableTyped(t)
  BY <1>2, <1>3, <1>4, <1>5 DEF TableTyped, NumRows
<1> QED BY <1>6 DEF t

LEMMA FreshViewIs ==
    ASSUME NEW t, TableTyped(t)
    PROVE  ViewIs(t, FreshView)
<1> DEFINE none == <<>>
<1>1. /\ FreshView.view = WholeTable /\ FreshView.filters = none /\ FreshView.sort = NoName
      /\ FreshView.ascending = TRUE
  BY Zenon DEF FreshView
<1>2. Len(none) = 0 /\ DOMAIN none = 1..0
  OBVIOUS
<1> HIDE DEF none
<1>3. FiltersTyped(none)
  BY <1>2 DEF FiltersTyped
<1>4. PassFilters(t, none, Len(none)) = 1..NumRows(t)
  BY <1>2 DEF PassFilters
<1>5. Shows(t, WholeTable, PassFilters(t, none, Len(none)))
  BY <1>4, WholeTableShows DEF TableTyped
<1>6. InOrderOf(t, ViewRows(t, WholeTable), NoName, TRUE)
  BY ColumnWithoutName, Zenon DEF InOrderOf
<1> QED BY <1>1, <1>3, <1>5, <1>6, Zenon DEF ViewIs

\* A request: the view is made again when it is not that of the request.
NewCache(v, filters, sort, ascending) == [view |-> v, filters |-> filters, sort |-> sort, ascending |-> ascending]
LEMMA NewViewIs ==
    ASSUME NEW t, NEW cache, ViewIs(t, cache), NEW filters \in Filters, NEW sort, NEW ascending,
           NEW v \in IF FilterParamsChanged(cache, filters, sort, ascending)
                     THEN SortByColumn(t, Filtered(t, filters), sort, ascending) ELSE {cache.view}
    PROVE  ViewIs(t, NewCache(v, filters, sort, ascending))
<1> DEFINE new == NewCache(v, filters, sort, ascending)
<1>1. new.view = v /\ new.filters = filters /\ new.sort = sort /\ new.ascending = ascending
  BY Zenon DEF NewCache
<1> HIDE DEF new
<1>2. CASE FilterParamsChanged(cache, filters, sort, ascending)
  <2>1. TableTyped(t) /\ FiltersTyped(filters)
    BY FiltersAreTyped DEF ViewIs
  <2>2. Shows(t, Filtered(t, filters), PassFilters(t, filters, Len(filters)))
    BY <2>1, FilteredShows
  <2>3. v \in SortByColumn(t, Filtered(t, filters), sort, ascending)
    BY <1>2, Zenon
  <2>4. Shows(t, v, PassFilters(t, filters, Len(filters))) /\ InOrderOf(t, ViewRows(t, v), sort, ascending)
    BY <2>2, <2>3, SortedRows
  <2>5. ViewIs(t, new)
    BY <1>1, <2>1, <2>4, Zenon DEF ViewIs
  <2> QED BY <2>5 DEF new
<1>3. CASE ~FilterParamsChanged(cache, filters, sort, ascending)
  <2>1. v \in {cache.view}
    BY <1>3, Zenon
  <2>2. v = cache.view
    BY <2>1, Zenon
  <2>3. cache.filters = filters /\ cache.sort = sort /\ cache.ascending = ascending
    BY <1>3, Zenon DEF FilterParamsChanged
  <2>4. ViewIs(t, new)
    BY <1>1, <2>2, <2>3, Zenon DEF ViewIs
  <2> QED BY <2>4 DEF new
<1> QED BY <1>2, <1>3

\* With the view kept, the pages go on; else they begin again.
LEMMA NewPagesOf ==
    ASSUME NEW rows, Len(rows) \in Nat, NEW start \in Nat, NEW size \in Nat, NEW old, old = {} \/ PagesOf(rows, old)
    PROVE  PagesOf(rows, old \cup {<<start + i, rows[start + i]>> : i \in 1..ResponseSize(rows, start, size)})
<1>1. ASSUME NEW i \in 1..ResponseSize(rows, start, size) PROVE start + i \in 1..Len(rows)
  <2> DEFINE n == Len(rows)
             m == IF size < n - start THEN size ELSE n - start
  <2>1. i \in 1..m
    BY <1>1 DEF ResponseSize
  <2>2. n \in Nat
    OBVIOUS
  <2> HIDE DEF n
  <2> QED BY <2>1, <2>2 DEF n
<1> QED BY <1>1 DEF PagesOf

-----------------------------------------------------------------------------
\* The steps.

LEMMA TablesInitStep == TablesInit => TablesIInv
<1> DEFINE none == <<>>
<1>1. DOMAIN none = {}
  OBVIOUS
<1> HIDE DEF none
<1> SUFFICES ASSUME TablesInit PROVE TablesIInv
  OBVIOUS
<1>2. /\ tables = none /\ view_cache = none /\ pages = [id \in Catalogs |-> {}]
      /\ table_reply = NoReply
  BY DEF TablesInit, none
<1>3. ~Replied
  BY <1>2 DEF Replied, NoReply
<1> QED BY <1>1, <1>2, <1>3 DEF TablesIInv

\* The files of other ids, and their views and pages, stay as they are.
LEMMA CloseKept ==
    ASSUME TablesIInv, NEW id \in Catalogs, OnCloseFileRequest(id)
    PROVE  TablesIInv'
<1>1. /\ DOMAIN tables' = DOMAIN tables \ {id} /\ \A y \in DOMAIN tables \ {id} : tables'[y] = tables[y]
      /\ DOMAIN view_cache' = DOMAIN view_cache \ {id}
      /\ \A y \in DOMAIN view_cache \ {id} : view_cache'[y] = view_cache[y]
  BY DEF OnCloseFileRequest, CloseTable, Erase
<1>2. pages' = [pages EXCEPT ![id] = {}]
  BY DEF OnCloseFileRequest
<1>3. ~Replied'
  BY DEF OnCloseFileRequest, Replied, NoReply
<1>4. /\ DOMAIN pages' = Catalogs /\ pages'[id] = {} /\ \A y \in Catalogs \ {id} : pages'[y] = pages[y]
      /\ pages' = [y \in Catalogs |-> pages'[y]]
  BY <1>2 DEF TablesIInv
<1>5. pages' \in [Catalogs -> SUBSET UNION {pages'[y] : y \in Catalogs}]
  BY <1>4
<1>6. DOMAIN view_cache \subseteq DOMAIN tables /\ DOMAIN tables \subseteq Catalogs
  BY DEF TablesIInv
<1> QED BY <1>1, <1>3, <1>4, <1>5, <1>6 DEF TablesIInv

LEMMA OpenKept ==
    ASSUME TablesIInv, NEW id \in Catalogs, NEW file \in TableFiles, OnOpenFileRequest(id, file)
    PROVE  TablesIInv'
<1>1. ~Replied'
  BY DEF OnOpenFileRequest, Replied, NoReply
<1>2. CASE ~file.exists
  <2>1. UNCHANGED <<tables, view_cache, pages>>
    BY <1>2, Zenon DEF OnOpenFileRequest
  <2> QED BY <1>1, <2>1 DEF TablesIInv
<1>3. CASE file.exists
  <2> DEFINE t == OpenedTable(file)
  <2>1. /\ tables' = Set(tables, id, t) /\ pages' = [pages EXCEPT ![id] = {}]
        /\ view_cache' = IF file.valid THEN Emplace(ViewsKept(id), id, FreshView) ELSE ViewsKept(id)
    BY <1>3, Zenon DEF OnOpenFileRequest, OpenedTable, FreshView
  <2>2. TableTyped(t)
    BY OpenedIsTyped
  <2> HIDE DEF t
  <2>3. DOMAIN tables' = DOMAIN tables \cup {id} /\ tables'[id] = t /\ \A y \in DOMAIN tables \ {id} : tables'[y] = tables[y]
    BY <2>1 DEF Set
  <2>4. /\ DOMAIN pages' = Catalogs /\ pages'[id] = {} /\ \A y \in Catalogs \ {id} : pages'[y] = pages[y]
        /\ pages' = [y \in Catalogs |-> pages'[y]]
    BY <2>1 DEF TablesIInv
  <2>5. pages' \in [Catalogs -> SUBSET UNION {pages'[y] : y \in Catalogs}]
    BY <2>4
  <2>6. /\ DOMAIN ViewsKept(id) = DOMAIN view_cache \ {id}
        /\ \A y \in DOMAIN view_cache \ {id} : ViewsKept(id)[y] = view_cache[y]
    BY DEF ViewsKept, Erase
  <2>7. /\ DOMAIN view_cache \ {id} \subseteq DOMAIN view_cache'
        /\ DOMAIN view_cache' \subseteq DOMAIN view_cache \cup {id}
        /\ \A y \in DOMAIN view_cache \ {id} : view_cache'[y] = view_cache[y]
        /\ id \in DOMAIN view_cache' => view_cache'[id] = FreshView
    <3>1. CASE file.valid
      <4>1. view_cache' = Set(ViewsKept(id), id, FreshView)
        BY <2>1, <2>6, <3>1, Zenon DEF Emplace
      <4> QED BY <2>6, <4>1 DEF Set
    <3>2. CASE ~file.valid
      <4>1. view_cache' = ViewsKept(id)
        BY <2>1, <3>2, Zenon
      <4> QED BY <2>6, <4>1
    <3> QED BY <3>1, <3>2
  <2>8. ViewIs(t, FreshView)
    BY <2>2, FreshViewIs
  <2>9. DOMAIN view_cache \subseteq DOMAIN tables /\ DOMAIN tables \subseteq Catalogs
    BY DEF TablesIInv
  <2>10. \A y \in DOMAIN view_cache' :
            ViewIs(tables[y], view_cache[y])' /\ PagesOf(ViewRows(tables[y], view_cache[y].view), pages[y])'
    <3>1. ASSUME NEW y \in DOMAIN view_cache', y # id
          PROVE  ViewIs(tables'[y], view_cache'[y]) /\ PagesOf(ViewRows(tables'[y], view_cache'[y].view), pages'[y])
      <4>1. y \in DOMAIN view_cache /\ y \in DOMAIN tables /\ y \in Catalogs
        BY <2>7, <2>9, <3>1
      <4>2. tables'[y] = tables[y] /\ view_cache'[y] = view_cache[y] /\ pages'[y] = pages[y]
        BY <2>3, <2>4, <2>7, <3>1, <4>1
      <4> QED BY <4>1, <4>2 DEF TablesIInv
    <3>2. PagesOf(ViewRows(tables'[id], view_cache'[id].view), pages'[id])
      BY <2>4 DEF PagesOf
    <3> QED BY <2>3, <2>7, <2>8, <3>1, <3>2
  <2> QED BY <1>1, <2>2, <2>3, <2>4, <2>5, <2>7, <2>9, <2>10 DEF TablesIInv
<1> QED BY <1>2, <1>3

LEMMA FilterKept ==
    ASSUME TablesIInv, NEW id \in Catalogs, NEW filters \in Filters, NEW sort, NEW ascending,
           NEW start \in Nat, NEW size \in Nat, OnFilterRequest(id, filters, sort, ascending, start, size)
    PROVE  TablesIInv'
<1>1. UNCHANGED tables /\ id \in DOMAIN tables
  BY Zenon DEF OnFilterRequest
<1>2. CASE id \notin DOMAIN view_cache
  <2>1. table_reply' = [to |-> "throws"] /\ UNCHANGED <<view_cache, pages>>
    BY <1>2, Zenon DEF OnFilterRequest
  <2>2. ~Replied'
    BY <2>1 DEF Replied
  <2> QED BY <1>1, <2>1, <2>2 DEF TablesIInv
<1>3. CASE id \in DOMAIN view_cache
  <2> DEFINE t == tables[id]
             cache == view_cache[id]
             ViewChoices == IF FilterParamsChanged(cache, filters, sort, ascending)
                            THEN SortByColumn(t, Filtered(t, filters), sort, ascending) ELSE {cache.view}
             Shown(v) == {<<start + i, ViewRows(t, v)[start + i]>> : i \in 1..ResponseSize(ViewRows(t, v), start, size)}
             PagesKept == IF cache.filters = filters /\ cache.sort = sort /\ cache.ascending = ascending
                          THEN pages[id] ELSE {}
  <2>1. PICK v \in ViewChoices :
           /\ view_cache' = [view_cache EXCEPT ![id] = NewCache(v, filters, sort, ascending)]
           /\ table_reply' = [to |-> "filter", id |-> id, filters |-> filters, sort |-> sort,
                              ascending |-> ascending, start |-> start, size |-> size,
                              total |-> Len(ViewRows(t, v)),
                              sent |-> PartialResults(ViewRows(t, v), start, ResponseSize(ViewRows(t, v), start, size))]
           /\ pages' = [pages EXCEPT ![id] =
                  (IF cache.filters = filters /\ cache.sort = sort /\ cache.ascending = ascending THEN @ ELSE {})
                  \cup Shown(v)]
    BY <1>3, Zenon DEF OnFilterRequest, NewCache
  <2> DEFINE rows == ViewRows(t, v)
             new == NewCache(v, filters, sort, ascending)
  <2>2. ViewIs(t, cache) /\ PagesOf(ViewRows(t, cache.view), pages[id])
    BY <1>3, Zenon DEF TablesIInv
  <2>3. ViewIs(t, new)
    <3> HIDE DEF t, cache
    <3> QED BY <2>1, <2>2, NewViewIs
  <2>4. new.view = v /\ new.filters = filters /\ new.sort = sort /\ new.ascending = ascending
    BY Zenon DEF NewCache
  <2>5. Len(rows) \in Nat
    <3>1. ListOf(rows, PassFilters(t, filters, Len(filters)))
      BY <2>3, <2>4, Zenon DEF ViewIs, Shows
    <3> HIDE DEF rows
    <3> QED BY <3>1, ListCounts
  <2>6. PagesKept = {} \/ PagesOf(rows, PagesKept)
    <3>1. CASE cache.filters = filters /\ cache.sort = sort /\ cache.ascending = ascending
      <4>1. ~FilterParamsChanged(cache, filters, sort, ascending)
        BY <3>1, Zenon DEF FilterParamsChanged
      <4>2. v \in {cache.view}
        BY <2>1, <4>1, Zenon
      <4>3. v = cache.view /\ PagesKept = pages[id]
        BY <3>1, <4>2, Zenon
      <4> QED BY <2>2, <4>3, Zenon
    <3>2. CASE ~(cache.filters = filters /\ cache.sort = sort /\ cache.ascending = ascending)
      BY <3>2, Zenon
    <3> QED BY <3>1, <3>2
  <2>7. PagesOf(rows, PagesKept \cup Shown(v))
    <3> HIDE DEF PagesKept, rows
    <3>1. PagesOf(rows, PagesKept \cup {<<start + i, rows[start + i]>> : i \in 1..ResponseSize(rows, start, size)})
      BY <2>5, <2>6, NewPagesOf
    <3> QED BY <3>1 DEF rows
  <2>8. pages' = [pages EXCEPT ![id] = PagesKept \cup Shown(v)]
    BY <2>1, Zenon
  <2> HIDE DEF PagesKept, Shown
  <2>9. /\ DOMAIN pages' = Catalogs /\ pages'[id] = PagesKept \cup Shown(v)
        /\ \A y \in Catalogs \ {id} : pages'[y] = pages[y]
        /\ pages' = [y \in Catalogs |-> pages'[y]]
    BY <2>8 DEF TablesIInv
  <2>10. pages' \in [Catalogs -> SUBSET UNION {pages'[y] : y \in Catalogs}]
    BY <2>9
  <2>11. /\ DOMAIN view_cache' = DOMAIN view_cache /\ view_cache'[id] = new
         /\ \A y \in DOMAIN view_cache \ {id} : view_cache'[y] = view_cache[y]
    BY <1>3, <2>1
  <2>12. table_reply'.id = id /\ RespondsFrom(t, new, table_reply')
    BY <2>1, <2>4, Zenon DEF RespondsFrom
  <2> HIDE DEF new, rows
  <2>13. PagesOf(ViewRows(t, new.view), pages'[id])
    BY <2>4, <2>7, <2>9 DEF rows
  <2>14. \A y \in DOMAIN view_cache' :
            /\ ViewIs(tables'[y], view_cache'[y])
            /\ PagesOf(ViewRows(tables'[y], view_cache'[y].view), pages'[y])
    <3>1. ASSUME NEW y \in DOMAIN view_cache, y # id
          PROVE  ViewIs(tables'[y], view_cache'[y]) /\ PagesOf(ViewRows(tables'[y], view_cache'[y].view), pages'[y])
      <4>1. tables'[y] = tables[y] /\ view_cache'[y] = view_cache[y]
        BY <1>1, <2>11, <3>1
      <4>2. y \in Catalogs /\ pages'[y] = pages[y]
        BY <2>9, <3>1 DEF TablesIInv
      <4> QED BY <4>1, <4>2 DEF TablesIInv
    <3>2. ViewIs(tables'[id], view_cache'[id]) /\ PagesOf(ViewRows(tables'[id], view_cache'[id].view), pages'[id])
      BY <1>1, <2>3, <2>11, <2>13
    <3> QED BY <2>11, <3>1, <3>2
  <2>15. RespondsFrom(tables'[table_reply'.id], view_cache'[table_reply'.id], table_reply') /\ table_reply'.id \in DOMAIN view_cache'
    BY <1>1, <1>3, <2>11, <2>12
  <2> HIDE DEF t, cache
  <2> QED BY <1>1, <1>3, <2>9, <2>10, <2>11, <2>14, <2>15 DEF TablesIInv
<1> QED BY <1>2, <1>3

\* Views show what their filters let pass, and responses are made of them.
THEOREM TablesInductive == TablesSpec => []TablesIInv
<1>1. ASSUME TablesIInv, [TablesNext]_tableVars PROVE TablesIInv'
  <2>1. CASE UNCHANGED tableVars
    BY <1>1, <2>1 DEF tableVars, TablesIInv, Replied
  <2>2. ASSUME NEW id \in Catalogs, NEW file \in TableFiles, OnOpenFileRequest(id, file) PROVE TablesIInv'
    BY <1>1, <2>2, OpenKept
  <2>3. ASSUME NEW id \in Catalogs, OnCloseFileRequest(id) PROVE TablesIInv'
    BY <1>1, <2>3, CloseKept
  <2>4. ASSUME NEW id \in Catalogs, NEW filters \in Filters, NEW sort \in SortColumns, NEW ascending \in BOOLEAN,
               NEW start \in {0} \cup PageSizes, NEW size \in PageSizes,
               OnFilterRequest(id, filters, sort, ascending, start, size)
        PROVE  TablesIInv'
    <3>1. start \in Nat /\ size \in Nat
      BY PagesAssumption
    <3> QED BY <1>1, <2>4, <3>1, FilterKept
  <2> QED BY <1>1, <2>1, <2>2, <2>3, <2>4 DEF TablesNext
<1> QED BY <1>1, TablesInitStep, PTL DEF TablesSpec

-----------------------------------------------------------------------------
\* What a response that is made of a view says.

LEMMA FilteredAreCurrent ==
    ASSUME TablesIInv, Replied
    PROVE  FilteredRowsCurrent
<1> DEFINE r == table_reply
           t == tables[r.id]
           cache == view_cache[r.id]
           rows == ViewRows(t, cache.view)
           S == PassFilters(t, cache.filters, Len(cache.filters))
           n == ResponseSize(rows, r.start, r.size)
           column == GetColumnByName(t, r.sort)
           CanSort == column # 0 /\ t.fields[column].type \in Supported
<1>1. ViewIs(t, cache) /\ RespondsFrom(t, cache, r)
  BY Zenon DEF TablesIInv
<1>2. ListOf(rows, S) /\ FiltersTyped(cache.filters) /\ InOrderOf(t, rows, r.sort, r.ascending)
  BY <1>1, Zenon DEF ViewIs, Shows, RespondsFrom
<1>3. r.filters = cache.filters /\ r.start \in Nat /\ r.size \in Nat /\ r.total = Len(rows)
      /\ r.sent = PartialResults(rows, r.start, n)
  BY <1>1, Zenon DEF RespondsFrom
<1>4. Matching(r) = S
  BY <1>2, <1>3 DEF Matching, Answered, PassFilters, FiltersTyped
<1>5. r.total = Cardinality(Matching(r))
  <2> HIDE DEF rows, S
  <2> QED BY <1>2, <1>3, <1>4, ListCounts
<1>6. CanSort => Sorted(t, column, r.ascending, rows)
  BY <1>2, Zenon DEF InOrderOf
<1> HIDE DEF t, cache, rows, S, n, r, column
<1>7. Len(rows) \in Nat /\ DOMAIN rows = 1..Len(rows) /\ \A i \in 1..Len(rows) : rows[i] \in S
  <2>1. Len(rows) \in Nat /\ DOMAIN rows = 1..Len(rows)
    BY <1>2, ListCounts
  <2> QED BY <1>2, <2>1 DEF ListOf
<1>8. ASSUME NEW k \in DOMAIN r.sent
      PROVE  /\ \A i \in DOMAIN r.sent[k] : r.sent[k][i] \in S
             /\ CanSort => Sorted(t, column, r.ascending, r.sent[k])
  <2>1. n \in Nat /\ r.start + n <= Len(rows)
    <3>1. n \in Int /\ r.start + n <= Len(rows)
      BY <1>3, <1>7 DEF n, ResponseSize
    <3>2. CASE n < 0
      <4>1. r.sent = <<>>
        BY <1>3, <3>2 DEF PartialResults
      <4> QED BY <1>8, <4>1
    <3> QED BY <3>1, <3>2
  <2>2. PieceOf(rows, r.sent[k])
    BY <1>2, <1>3, <2>1, SentRows, <1>8
  <2>3. PICK from \in Nat : \A i \in DOMAIN r.sent[k] :
           i \in Nat /\ from + i \in 1..Len(rows) /\ r.sent[k][i] = rows[from + i]
    BY <2>2 DEF PieceOf
  <2>4. \A i \in DOMAIN r.sent[k] : r.sent[k][i] \in S
    BY <1>7, <2>3
  <2>5. ASSUME CanSort PROVE Sorted(t, column, r.ascending, r.sent[k])
    <3>1. \A i, j \in DOMAIN r.sent[k] : i < j => from + i < from + j
      BY <2>3
    <3>2. \A i, j \in 1..Len(rows) : i < j => ~Before(t, column, r.ascending, rows[j], rows[i])
      BY <1>6, <1>7, <2>5 DEF Sorted
    <3> QED BY <2>3, <3>1, <3>2 DEF Sorted
  <2> QED BY <2>4, <2>5
<1>9. Answered(r) = t
  BY DEF Answered, r, t
<1> QED BY <1>4, <1>5, <1>8, <1>9, Zenon DEF FilteredRowsCurrent, r, column

LEMMA PagesAreComplete ==
    ASSUME TablesIInv, Replied
    PROVE  PagesComplete
<1> DEFINE r == table_reply
           t == tables[r.id]
           cache == view_cache[r.id]
           rows == ViewRows(t, cache.view)
           S == PassFilters(t, cache.filters, Len(cache.filters))
           n == ResponseSize(rows, r.start, r.size)
           shown == pages[r.id]
           asked == {i \in 1..r.size : r.start + i <= r.total}
<1>1. ViewIs(t, cache) /\ RespondsFrom(t, cache, r) /\ PagesOf(rows, shown)
  BY Zenon DEF TablesIInv
<1>2. ListOf(rows, S)
  BY <1>1, Zenon DEF ViewIs, Shows
<1>3. /\ r.start \in Nat /\ r.size \in Nat /\ r.total = Len(rows)
      /\ r.sent = PartialResults(rows, r.start, n)
  BY <1>1, Zenon DEF RespondsFrom
<1> HIDE DEF t, cache, rows, S, n, r, shown
<1>4. /\ Len(rows) \in Nat /\ \A i \in 1..Len(rows) : rows[i] \in S
      /\ \A i, j \in 1..Len(rows) : rows[i] = rows[j] => i = j
  <2>1. Len(rows) \in Nat /\ DOMAIN rows = 1..Len(rows)
    BY <1>2, ListCounts
  <2> QED BY <1>2, <2>1 DEF ListOf
<1>5. {p[1] : p \in shown} \subseteq 1..r.total
  BY <1>1, <1>3 DEF PagesOf
<1>6. \A p, q \in shown : (p[1] = q[1]) = (p[2] = q[2])
  <2>1. \A p \in shown : p[1] \in 1..Len(rows) /\ p[2] = rows[p[1]]
    BY <1>1 DEF PagesOf
  <2> QED BY <1>4, <2>1
<1>7. ASSUME r.start <= r.total PROVE Cardinality(RowsSent(r.sent)) = Cardinality(asked)
  <2>1. n \in Nat /\ r.start + n <= Len(rows) /\ asked = 1..n
    BY <1>3, <1>4, <1>7 DEF n, ResponseSize
  <2>2. RowsSent(r.sent) = RowsShown(rows, r.start, n)
    BY <1>2, <1>3, <2>1, SentRows
  <2> DEFINE T == RowsShown(rows, r.start, n)
             s == [i \in 1..n |-> rows[r.start + i]]
  <2>3. DOMAIN s = 1..n /\ \A i \in 1..n : s[i] = rows[r.start + i]
    OBVIOUS
  <2>4. T = {s[i] : i \in 1..n}
    BY DEF RowsShown
  <2>5. s \in [1..n -> T]
    BY <2>3, <2>4
  <2> HIDE DEF s, T
  <2>6. s \in Seq(T)
    BY <2>1, <2>5, SeqDef
  <2>7. \A i, j \in 1..n : s[i] = s[j] => i = j
    <3>1. \A i \in 1..n : i \in Int /\ r.start + i \in 1..Len(rows)
      BY <1>3, <1>4, <2>1
    <3>2. \A i, j \in 1..n : s[i] = s[j] => r.start + i = r.start + j
      BY <1>4, <2>3, <3>1
    <3> QED BY <1>3, <3>1, <3>2
  <2>8. ListOf(s, T)
    BY <2>3, <2>4, <2>6, <2>7 DEF ListOf
  <2>9. Cardinality(T) = n
    <3>1. Cardinality(T) = Len(s)
      BY <2>8, ListCounts
    <3>2. Len(s) = n
      BY <2>1, <2>3, <2>6
    <3> QED BY <3>1, <3>2
  <2>10. Cardinality(asked) = n
    <3> HIDE DEF asked
    <3>1. Cardinality(1..n) = n
      BY <2>1, FS_Interval
    <3> QED BY <2>1, <3>1
  <2> QED BY <2>2, <2>9, <2>10 DEF T
<1> QED BY <1>5, <1>6, <1>7, Zenon DEF PagesComplete, RowsSent, r, shown

\* A response counts and holds the rows that pass its filters, in its order, and
\* the pages of a view hold each row once, for any tables, filters and chunks
\* (TableController::OnFilterRequest).
THEOREM TablesAreRight == TablesSpec => []TablesCorrect
<1>1. TablesIInv => TablesCorrect
  <2>1. CASE Replied
    BY <2>1, FilteredAreCurrent, PagesAreComplete DEF TablesCorrect
  <2>2. CASE ~Replied
    BY <2>2 DEF TablesCorrect, FilteredRowsCurrent, PagesComplete
  <2> QED BY <2>1, <2>2
<1> QED BY <1>1, TablesInductive, PTL

\* A view is of a table that is open, and its rows are rows of it.
THEOREM TablesTypeCorrect == TablesSpec => []TablesTypeOK
<1>1. ASSUME TablesIInv PROVE TablesTypeOK
  <2>1. ASSUME NEW id \in DOMAIN view_cache, NEW i \in DOMAIN view_cache[id].view.rows
        PROVE  view_cache[id].view.rows[i] \in 1..NumRows(tables[id])
    <3> DEFINE N == NumRows(tables[id])
               view == view_cache[id].view
    <3>1. view \in Views(N)
      BY <1>1, <2>1, Zenon DEF TablesIInv, ViewIs, Shows
    <3>2. i \in DOMAIN view.rows
      BY <2>1
    <3> HIDE DEF view, N
    <3>3. CASE view = WholeTable
      <4>1. view.rows = <<>>
        BY <3>3 DEF WholeTable
      <4> QED BY <3>2, <4>1
    <3>4. CASE view # WholeTable
      <4>1. PICK s \in Seq(1..N) : view = [subset |-> TRUE, rows |-> s]
        BY <3>1, <3>4 DEF Views
      <4>2. view.rows = s
        BY <4>1
      <4>3. view.rows[i] \in 1..N
        <5> DEFINE T == 1..N
        <5>1. s \in Seq(T)
          OBVIOUS
        <5> HIDE DEF T
        <5>2. s[i] \in T
          BY <3>2, <4>2, <5>1
        <5> QED BY <4>2, <5>2 DEF T
      <4> QED BY <4>3 DEF view, N
    <3> QED BY <3>3, <3>4
  <2> QED BY <1>1, <2>1 DEF TablesIInv, TablesTypeOK
<1> QED BY <1>1, TablesInductive, PTL

(***************************************************************************)
(* Proofs about Services: side by side, every service runs as it does alone. *)
(***************************************************************************)

\* A step of the services is one of each, or leaves it alone.
LEMMA OneServiceMoves ==
    ASSUME [ServicesNext]_serviceVars
    PROVE  /\ [RegionsNext]_regionVars
           /\ [RegionAppliedNext]_appliedVars
           /\ [PvPreviewNext]_previewVars
           /\ [LineProfilesNext]_lineVars
           /\ [CursorProfilesNext]_cursorVars
           /\ [GeneratorsNext]_generatorVars
           /\ [ScriptingNext]_scriptVars
           /\ [FileListsNext]_listVars
           /\ [LoaderCacheNext]_loaderVars
           /\ [RegionFilesNext]_regionFileVars
           /\ [TablesNext]_tableVars
           /\ [SettingsNext]_settingsVars
           /\ [DatabaseNext]_databaseVars
           /\ [CubeHistogramsNext]_histogramVars
           /\ [SpatialProfilesNext]_spatialVars
           /\ [SaveFilesNext]_saveVars
           /\ [HypercubesNext]_hypercubeVars
BY Zenon DEF ServicesNext, StepOf, serviceVars

\* The specification of the services implies that of each of those whose
\* behaviours are specified.
THEOREM ServicesRunAlone ==
    ServicesSpec => /\ RegionsSpec
                    /\ RegionAppliedSpec
                    /\ PvPreviewSpec
                    /\ LineProfilesSpec
                    /\ CursorProfilesSpec
                    /\ GeneratorsSpec
                    /\ ScriptingSpec
                    /\ FileListsSpec
                    /\ LoaderCacheSpec
                    /\ RegionFilesSpec
                    /\ TablesSpec
                    /\ SettingsSpec
                    /\ DatabaseSpec
                    /\ CubeHistogramsSpec
                    /\ SpatialProfilesSpec
                    /\ SaveFilesSpec
                    /\ HypercubesSpec
<1>1. ServicesInit => RegionsInit /\ RegionAppliedInit /\ PvPreviewInit /\ LineProfilesInit
                      /\ CursorProfilesInit /\ GeneratorsInit /\ ScriptingInit /\ FileListsInit
                      /\ LoaderCacheInit /\ RegionFilesInit /\ TablesInit /\ SettingsInit
                      /\ DatabaseInit /\ CubeHistogramsInit /\ SpatialProfilesInit
                      /\ SaveFilesInit /\ HypercubesInit
  BY DEF ServicesInit
<1>2. [ServicesNext]_serviceVars =>
         /\ [RegionsNext]_regionVars
         /\ [RegionAppliedNext]_appliedVars
         /\ [PvPreviewNext]_previewVars
         /\ [LineProfilesNext]_lineVars
         /\ [CursorProfilesNext]_cursorVars
         /\ [GeneratorsNext]_generatorVars
         /\ [ScriptingNext]_scriptVars
         /\ [FileListsNext]_listVars
         /\ [LoaderCacheNext]_loaderVars
         /\ [RegionFilesNext]_regionFileVars
         /\ [TablesNext]_tableVars
         /\ [SettingsNext]_settingsVars
         /\ [DatabaseNext]_databaseVars
         /\ [CubeHistogramsNext]_histogramVars
         /\ [SpatialProfilesNext]_spatialVars
         /\ [SaveFilesNext]_saveVars
         /\ [HypercubesNext]_hypercubeVars
  BY OneServiceMoves
<1> QED
  BY <1>1, <1>2, PTL
     DEF ServicesSpec, RegionsSpec, RegionAppliedSpec, PvPreviewSpec, LineProfilesSpec, CursorProfilesSpec,
         GeneratorsSpec, ScriptingSpec, FileListsSpec, LoaderCacheSpec, RegionFilesSpec, TablesSpec,
         SettingsSpec, DatabaseSpec, CubeHistogramsSpec, SpatialProfilesSpec, SaveFilesSpec,
         HypercubesSpec

\* The results that RegionHandler caches, sends and calculates with, and the
\* lattice regions it applies, are those of the regions as they are, whatever
\* the other services do.
THEOREM RegionHandlerIsRight == ServicesSpec => []RegionHandlerCorrect
<1>1. RegionsCorrect /\ RegionAppliedCorrect => RegionHandlerCorrect
  BY DEF RegionHandlerCorrect
<1> QED BY <1>1, ServicesRunAlone, RegionsAreRight, AppliedRegionsAreRight, PTL

\* The server runs with the settings it was given, and what was saved with it is
\* kept, whatever the other services do.
THEOREM ConfigurationIsRight == ServicesSpec => []ConfigurationCorrect
<1>1. SettingsCorrect /\ DatabaseCorrect => ConfigurationCorrect
  BY DEF ConfigurationCorrect
<1> QED BY <1>1, ServicesRunAlone, SettingsAreRight, SavedFilesAreKept, PTL

\* Loaders of watched files are of the files as they are, a saved file is what
\* was asked for and others are kept, and a hypercube has the files it was asked
\* of, whatever the other services do.
THEOREM ImageFilesAreRight == ServicesSpec => []ImageFilesCorrect
<1>1. LoaderCacheCorrect /\ SaveFilesCorrect /\ HypercubesCorrect => ImageFilesCorrect
  BY DEF ImageFilesCorrect
<1> QED
  BY <1>1, ServicesRunAlone, LoaderQueueIsRight, SavedFilesAreRight, HypercubesAreRight, PTL

\* The profiles the client has are those of the present line and cursor and
\* show the pixels they are asked of, cube histograms are whole, and neither
\* they nor PV images are sent when they were stopped, whatever the other
\* services do.
THEOREM ProfilesAreRight == ServicesSpec => []ProfilesCorrect
<1>1. LineProfilesCorrect /\ RequiredProfilesComplete /\ CubeHistogramsCorrect /\ SpatialProfilesCorrect =>
         ProfilesCorrect
  BY DEF ProfilesCorrect
<1> QED
  BY <1>1, ServicesRunAlone, LineProfilesAreRight, CursorProfilesComplete, CubeHistogramsAreRight,
     SpatialProfilesAreRight, PTL

\* Previews are cut from whole cubes, generated images are kept, scripting
\* requests are answered once, lists meet their stops, regions are read as they
\* were written, and rows of catalogs are those asked for, whatever the other
\* services do.
THEOREM RequestsAreMet ==
    ServicesSpec => [](/\ PvPreviewCorrect /\ GeneratorsCorrect /\ ScriptingCorrect
                       /\ FileListsCorrect /\ RegionFilesCorrect /\ TablesCorrect)
BY ServicesRunAlone, PreviewsAreWhole, ImagesAreKept, RequestsAnswered, ListsMeetTheirStops,
   RegionFilesAreRead, TablesAreRight, PTL

\* The variables of every service have their types, whichever of them moves.
THEOREM ServicesTypeCorrect == ServicesSpec => []ServicesTypeOK
<1>1. ServicesInit => service \in ServiceNames
  BY DEF ServicesInit
<1>2. service \in ServiceNames /\ [ServicesNext]_serviceVars => (service \in ServiceNames)'
  BY Zenon DEF ServicesNext, StepOf, serviceVars, ServiceNames
<1>3. ServicesSpec => [](service \in ServiceNames)
  BY <1>1, <1>2, PTL DEF ServicesSpec
<1> DEFINE TypesOfRegions == RegionsTypeOK /\ RegionAppliedTypeOK /\ RegionFilesTypeOK
           TypesOfProfiles == /\ LineProfilesTypeOK /\ CursorProfilesTypeOK /\ CubeHistogramsTypeOK
                              /\ SpatialProfilesTypeOK
           TypesOfImages == /\ PvPreviewTypeOK /\ GeneratorsTypeOK /\ LoaderCacheTypeOK
                            /\ SaveFilesTypeOK /\ HypercubesTypeOK
           TypesOfOthers == /\ ScriptingTypeOK /\ FileListsTypeOK /\ TablesTypeOK /\ SettingsTypeOK
                            /\ DatabaseTypeOK
<1>4. service \in ServiceNames /\ TypesOfRegions /\ TypesOfProfiles /\ TypesOfImages /\ TypesOfOthers
         => ServicesTypeOK
  BY Zenon DEF ServicesTypeOK
<1>5. ServicesSpec => []TypesOfRegions
  BY ServicesRunAlone, RegionsTypeCorrect, AppliedTypeCorrect, RegionFilesTypeCorrect, PTL
<1>6. ServicesSpec => []TypesOfProfiles
  BY ServicesRunAlone, LineProfilesTypeCorrect, CursorProfilesTypeCorrect, CubeHistogramsTypeCorrect,
     SpatialProfilesTypeCorrect, PTL
<1>7. ServicesSpec => []TypesOfImages
  BY ServicesRunAlone, PreviewTypeCorrect, GeneratorsTypeCorrect, LoaderCacheTypeCorrect,
     SaveFilesTypeCorrect, HypercubesTypeCorrect, PTL
<1>8. ServicesSpec => []TypesOfOthers
  BY ServicesRunAlone, ScriptingTypeCorrect, ListsTypeCorrect, TablesTypeCorrect, SettingsTypeCorrect,
     DatabaseTypeCorrect, PTL
<1> HIDE DEF TypesOfRegions, TypesOfProfiles, TypesOfImages, TypesOfOthers
<1> QED BY <1>3, <1>4, <1>5, <1>6, <1>7, <1>8, PTL
=============================================================================
