------------------------------ MODULE Scripting ------------------------------
(***************************************************************************)
(* The scripting interface: an HTTP request is sent to the frontend of a   *)
(* session as a message and answered when the frontend's response comes.   *)
(* HttpServer, SessionManager and Session run it on the main thread; the   *)
(* end of a session may come twice, at its disconnection and when its last *)
(* task ends.                                                              *)
(***************************************************************************)
EXTENDS Naturals

CONSTANTS HttpRequests,         \* the HTTP connections
          ScriptSessions        \* sessions of frontends

VARIABLES http,                 \* [status, id, session] of the requests
          scripting_request_id, \* _scripting_request_id
          scripting_callbacks,  \* _scripting_callbacks: session -> {[id, request]}
          script_session,       \* "open", "closing" (has tasks) or "gone"
          frontend              \* messages the frontends have: {[session, id]}

VARIABLES dead_writes,          \* history: requests written to after their end
          misdirected           \* history: ids erased, and requests that lost
                                \* their own abort, to another's abort

scriptVars == <<http, scripting_request_id, scripting_callbacks, script_session,
                frontend, dead_writes, misdirected>>

NoId == 0
NewHttp == [status |-> "new", id |-> NoId, session |-> NoId]

ScriptingTypeOK ==
    /\ \A r \in HttpRequests :
          http[r].status \in {"new", "open", "answered", "aborted"}
    /\ scripting_request_id \in Nat
    /\ \A s \in ScriptSessions : \A c \in scripting_callbacks[s] :
          c.id \in 1..scripting_request_id /\ c.request \in HttpRequests
    /\ script_session \in [ScriptSessions -> {"open", "closing", "gone"}]
    /\ dead_writes \subseteq HttpRequests /\ misdirected \subseteq HttpRequests

ScriptingInit ==
    /\ http = [r \in HttpRequests |-> NewHttp]
    /\ scripting_request_id = 0
    /\ scripting_callbacks = [s \in ScriptSessions |-> {}]
    /\ script_session = [s \in ScriptSessions |-> "open"]
    /\ frontend = {}
    /\ dead_writes = {} /\ misdirected = {}

\* A response is written and the HTTP connection ended.
EndHttp(requests, status) ==
    /\ http' = [r \in HttpRequests |->
                   IF r \in requests THEN [http[r] EXCEPT !.status = status] ELSE http[r]]
    /\ dead_writes' = dead_writes \cup {r \in requests : http[r].status # "open"}

AnswerHttp(requests) == EndHttp(requests, "answered")

Requests(callbacks) == {c.request : c \in callbacks}

-----------------------------------------------------------------------------

\* HandleScriptingAction and SendScriptingRequest: an id is taken, then a field
\* may be missing (400) or the session not in the map (404); a session that is
\* closing takes requests.
SendScriptingRequest(r, s, complete) ==
    /\ http[r].status = "new"
    /\ scripting_request_id' = scripting_request_id + 1
    /\ IF ~complete \/ script_session[s] = "gone"
       THEN /\ http' = [http EXCEPT ![r].status = "answered"]
            /\ UNCHANGED <<scripting_callbacks, frontend>>
       ELSE /\ http' = [http EXCEPT ![r] = [status |-> "open", session |-> s,
                                            id |-> scripting_request_id']]
            /\ scripting_callbacks' = [scripting_callbacks EXCEPT
                   ![s] = @ \cup {[id |-> scripting_request_id', request |-> r]}]
            /\ frontend' = IF script_session[s] = "closing" THEN frontend
                           ELSE frontend \cup {[session |-> s, id |-> scripting_request_id']}
    /\ UNCHANGED <<script_session, dead_writes, misdirected>>

\* Mutant of OnScriptingResponse: the callback is kept.
KeepCallback(s) ==
    /\ script_session[s] = "open"
    /\ \E m \in {n \in frontend : n.session = s} :
          LET found == {c \in scripting_callbacks[s] : c.id = m.id}
          IN  /\ AnswerHttp(Requests(found))
              /\ UNCHANGED <<scripting_callbacks, frontend>>
    /\ UNCHANGED <<scripting_request_id, script_session, misdirected>>

\* The frontend answers a message it has; an id without a callback is ignored.
OnScriptingResponse(s) ==
    /\ script_session[s] = "open"
    /\ \E m \in {n \in frontend : n.session = s} :
          LET found == {c \in scripting_callbacks[s] : c.id = m.id}
          IN  /\ AnswerHttp(Requests(found))
              /\ scripting_callbacks' = [scripting_callbacks EXCEPT ![s] = @ \ found]
              /\ UNCHANGED frontend
    /\ UNCHANGED <<scripting_request_id, script_session, misdirected>>

\* Mutant of OnScriptingAbort: the callback is not erased.
AbortOnly(r) ==
    /\ http[r].status = "open"
    /\ EndHttp({r}, "aborted")
    /\ UNCHANGED <<scripting_request_id, scripting_callbacks, script_session, frontend,
                   misdirected>>

\* The client goes away.  The callback that is erased is that of the number in
\* the counter, the id of the newest request; then the handler writes a 500 to
\* the response, which it still has.
OnScriptingAbort(r) ==
    LET s == http[r].session
        erased == {c \in scripting_callbacks[s] : c.id = scripting_request_id}
    IN  /\ http[r].status = "open"
        /\ EndHttp({r}, "aborted")
        /\ scripting_callbacks' = IF script_session[s] = "gone" THEN scripting_callbacks
                                  ELSE [scripting_callbacks EXCEPT ![s] = @ \ erased]
        /\ misdirected' = misdirected \cup
               (IF http[r].id = scripting_request_id THEN {} ELSE {r} \cup Requests(erased))
        /\ UNCHANGED <<scripting_request_id, script_session, frontend>>

\* DeleteSession: 404 for the session's requests; it stays in the map while
\* tasks refer to it, and is deleted after the last of them.
CloseAllScriptingRequests(s) ==
    /\ AnswerHttp(Requests(scripting_callbacks[s]))
    /\ scripting_callbacks' = [scripting_callbacks EXCEPT ![s] = {}]
    /\ UNCHANGED <<scripting_request_id, frontend, misdirected>>

\* Mutant of DeleteSession: requests that came while it was closing are lost.
DeleteOnly(s) ==
    /\ script_session[s] = "closing"
    /\ script_session' = [script_session EXCEPT ![s] = "gone"]
    /\ scripting_callbacks' = [scripting_callbacks EXCEPT ![s] = {}]
    /\ UNCHANGED <<http, dead_writes, scripting_request_id, frontend, misdirected>>

OnDisconnect(s) ==
    /\ script_session[s] = "open"
    /\ \E left \in {"closing", "gone"} : script_session' = [script_session EXCEPT ![s] = left]
    /\ CloseAllScriptingRequests(s)

DeleteSession(s) ==
    /\ script_session[s] = "closing"
    /\ script_session' = [script_session EXCEPT ![s] = "gone"]
    /\ CloseAllScriptingRequests(s)

ScriptingNext ==
    \/ \E r \in HttpRequests, s \in ScriptSessions, complete \in BOOLEAN :
          SendScriptingRequest(r, s, complete)
    \/ \E r \in HttpRequests : OnScriptingAbort(r)
    \/ \E s \in ScriptSessions : OnScriptingResponse(s) \/ OnDisconnect(s) \/ DeleteSession(s)

ScriptingSpec == ScriptingInit /\ [][ScriptingNext]_scriptVars

-----------------------------------------------------------------------------
(***************************************************************************)
(* Properties.                                                             *)
(***************************************************************************)

\* An HTTP response is written once, by an answer or by the handler of its
\* abort: the response object is gone then.  A request that was not the newest when its
\* client went away escapes, its abort erased the callback of the newest.
AnsweredOnce == dead_writes \subseteq misdirected

\* An open request can still be answered: its callback is kept until the
\* session ends, unless the abort of another request erased it.  No request
\* is left open by the end of its session.
OpenRequestKnown ==
    \A r \in HttpRequests : http[r].status = "open" =>
        \/ [id |-> http[r].id, request |-> r] \in scripting_callbacks[http[r].session]
        \/ r \in misdirected

\* A scripting request is answered, and answered once.
ScriptingCorrect == AnsweredOnce /\ OpenRequestKnown
=============================================================================
