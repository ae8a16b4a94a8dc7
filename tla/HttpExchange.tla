---------------------------- MODULE HttpExchange ----------------------------
(***************************************************************************)
(* A Broadcast and the servers it posts to: the client of broadcast.go,    *)
(* one request after the other and no timeout, and the endpoint of         *)
(* serverendpoint.go, which runs a handler in a goroutine of its own and   *)
(* turns its result into a response.  What a handler does is left to the   *)
(* module that extends this one.  A connection may break at any time.      *)
(***************************************************************************)
EXTENDS Naturals, Sequences, FiniteSets

CONSTANTS
    Call,     \* broadcasts
    Urls      \* how many servers each posts to

Url == 1..Urls

VARIABLES
    client,   \* [call -> at: where Broadcast is; url: the server it is at; msg]
    server,   \* [call -> [url -> where the goroutine of the request is]]
    answer    \* [call -> the response on its way, or NoAnswer]

exchangeVars == <<client, server, answer>>

(* Handlers by path, with the methods their endpoints allow. *)
Routes ==
    [path \in {"testinfo", "recBlock"} |->
        IF path = "testinfo" THEN {"GET", "POST", "HEAD"} ELSE {"POST"}]

-----------------------------------------------------------------------------
(* A response: its status, whether its body is JSON, whether that lists    *)
(* errors, and its field success.                                          *)
NoAnswer == [status |-> 0, body |-> "none", errors |-> FALSE, success |-> FALSE]

(* net/http closes the connection of a handler that panics. *)
Aborted == [NoAnswer EXCEPT !.body = "aborted"]

(* The answer of the router for a path that nobody registered: not JSON. *)
NotFound == [NoAnswer EXCEPT !.status = 404, !.body = "text"]

(* Errors of package caerrors bring their status along. *)
NoErr == [type |-> "nil", scode |-> 0]

CreateHTTPErr(scode) == [type |-> "caerrors", scode |-> scode]

(* The status for an error: one that is not of caerrors, as that of        *)
(* newHTTPErr in lib/net, is answered 500 whatever status it has.          *)
GetHTTPErr(err) == IF err.type \in {"nil", "caerrors"} THEN err.scode ELSE 500

(* ServeHTTP: header, then {"result":...,"errors":[...],"success":...}; a   *)
(* HEAD request gets the header only.                                      *)
ServeHTTP(method, err) ==
    LET he == GetHTTPErr(err)
    IN  [status |-> IF he = 0 THEN 200 ELSE he,
         body |-> IF method = "HEAD" THEN "none" ELSE "json",
         errors |-> he # 0,
         success |-> he = 0]

(* SendReq: nil only for a JSON body without errors that reports success.  *)
SendReq(resp) ==
    /\ resp.body = "json"
    /\ ~resp.errors
    /\ resp.status < 400
    /\ resp.success

-----------------------------------------------------------------------------
ExchangeInit(Msgs) ==
    /\ client \in [Call -> [at : {"next"}, url : {1}, msg : Msgs]]
    /\ server = [k \in Call |-> [u \in Url |-> "none"]]
    /\ answer = [k \in Call |-> NoAnswer]

ServerAt(k, u, from, to) == server[k][u] = from /\ server' = [server EXCEPT ![k][u] = to]

ClientAt(k, from, to) == client[k].at = from /\ client' = [client EXCEPT ![k].at = to]

(* The response goes to the client if it still waits for this server. *)
Respond(k, u, resp) ==
    answer' = IF client[k].at = "waiting" /\ client[k].url = u
              THEN [answer EXCEPT ![k] = resp] ELSE answer

(* Broadcast takes the next client; after the last it returns nil. *)
Post(k) ==
    LET u == client[k].url
    IN  /\ IF u \in Url
           THEN \/ ClientAt(k, "next", "waiting") /\ ServerAt(k, u, "none", "arrived")
                \/ ClientAt(k, "next", "error") /\ UNCHANGED server
           ELSE ClientAt(k, "next", "ok") /\ UNCHANGED server
        /\ UNCHANGED answer

(* The router, then validateMethod. *)
Dispatch(k, u) ==
    LET msg == client[k].msg
    IN  /\ IF msg.path \notin DOMAIN Routes
           THEN ServerAt(k, u, "arrived", "refused") /\ Respond(k, u, NotFound)
           ELSE IF msg.method \notin Routes[msg.path]
           THEN /\ ServerAt(k, u, "arrived", "refused")
                /\ Respond(k, u, ServeHTTP(msg.method, CreateHTTPErr(405)))
           ELSE ServerAt(k, u, "arrived", "running") /\ UNCHANGED answer
        /\ UNCHANGED client

HandlerReturns(k, u, err) ==
    /\ ServerAt(k, u, "running", "done")
    /\ Respond(k, u, ServeHTTP(client[k].msg.method, err))
    /\ UNCHANGED client

HandlerPanics(k, u) ==
    /\ ServerAt(k, u, "running", "dead")
    /\ Respond(k, u, Aborted)
    /\ UNCHANGED client

SwallowErrorBug(k) ==
    /\ client[k].at = "waiting" /\ answer[k] # NoAnswer
    /\ client' = [client EXCEPT ![k].at = "next", ![k].url = @ + 1]
    /\ answer' = [answer EXCEPT ![k] = NoAnswer]
    /\ UNCHANGED server

(* SendReq returns: on to the next client, or Broadcast returns the error. *)
Receive(k) ==
    /\ client[k].at = "waiting" /\ answer[k] # NoAnswer
    /\ client' = IF SendReq(answer[k])
                 THEN [client EXCEPT ![k].at = "next", ![k].url = @ + 1]
                 ELSE [client EXCEPT ![k].at = "error"]
    /\ answer' = [answer EXCEPT ![k] = NoAnswer]
    /\ UNCHANGED server

(* The connection breaks under a request: the client has its error, the    *)
(* server goes on with its handler.                                        *)
Break(k) ==
    /\ ClientAt(k, "waiting", "error")
    /\ answer' = [answer EXCEPT ![k] = NoAnswer]
    /\ UNCHANGED server
=============================================================================
