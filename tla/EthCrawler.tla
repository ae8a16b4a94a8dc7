----------------------------- MODULE EthCrawler -----------------------------
(***************************************************************************)
(* EthCrawler.go: Start collects addresses from pages and puts them in the *)
(* channel urls, getSourceCode gets each and puts the sources found in the *)
(* channel sourceCode, showCode counts them and tells main to end.  The    *)
(* site answers as it likes; a failed request is answered too.             *)
(***************************************************************************)
EXTENDS Naturals

CONSTANTS
    Pages,     \* pages
    Capacity,  \* 100: what a channel holds
    MaxFound   \* bound: addresses on a page, sources at an address

VARIABLES
    urls,        \* a channel: how many it holds, and whether it is closed
    sourceCode,  \* the same
    start,       \* [at; page; left: addresses of the page still to put]
    getter,      \* [at; left: sources of the address still to put]
    show,        \* where showCode is
    found,       \* history: addresses and sources found, and taken
    failed,      \* history: a request or a body has failed
    end          \* "running" as long as the program runs, then "ended" or "panic"

vars == <<urls, sourceCode, start, getter, show, found, failed, end>>

Channel == [held |-> 0, closed |-> FALSE]

Init ==
    /\ urls = Channel /\ sourceCode = Channel
    /\ start = [at |-> "get", page |-> 1, left |-> 0]
    /\ getter = [at |-> "range", left |-> 0]
    /\ show = "range"
    /\ found = [addresses |-> 0, got |-> 0, sources |-> 0, count |-> 0]
    /\ failed = FALSE /\ end = "running"

Panic ==
    /\ end' = "panic"
    /\ UNCHANGED <<urls, sourceCode, start, getter, show, found>>

(* firstStart: an error leaves no response, and its Body is closed all the *)
(* same; a body that ends early is searched as far as it came.             *)
GetPage ==
    /\ start.at = "get" /\ start.page <= Pages
    /\ \/ failed' = TRUE /\ Panic
       \/ \E n \in 0..MaxFound, whole \in BOOLEAN :
            /\ start' = [start EXCEPT !.at = "put", !.left = n]
            /\ found' = [found EXCEPT !.addresses = @ + n]
            /\ failed' = (failed \/ ~whole)
            /\ UNCHANGED <<urls, sourceCode, getter, show, end>>

PutAddress ==
    /\ start.at = "put" /\ start.left > 0 /\ urls.held < Capacity
    /\ urls' = [urls EXCEPT !.held = @ + 1]
    /\ start' = [start EXCEPT !.left = @ - 1]
    /\ UNCHANGED <<sourceCode, getter, show, found, failed, end>>

NextPage ==
    /\ start.at = "put" /\ start.left = 0
    /\ start' = [start EXCEPT !.at = "get", !.page = @ + 1]
    /\ UNCHANGED <<urls, sourceCode, getter, show, found, failed, end>>

(* A definition whose name ends in Bug is a faulty variant of the one that *)
(* follows it; nothing uses it.                                            *)
ForgetCloseBug ==
    /\ start.at = "get" /\ start.page > Pages
    /\ start' = [start EXCEPT !.at = "done"]
    /\ UNCHANGED <<urls, sourceCode, getter, show, found, failed, end>>

CloseUrls ==
    /\ start.at = "get" /\ start.page > Pages
    /\ start' = [start EXCEPT !.at = "done"]
    /\ urls' = [urls EXCEPT !.closed = TRUE]
    /\ UNCHANGED <<sourceCode, getter, show, found, failed, end>>

(* Closing a closed channel is a panic. *)
CloseSource ==
    /\ sourceCode' = [sourceCode EXCEPT !.closed = TRUE]
    /\ end' = IF sourceCode.closed THEN "panic" ELSE end

(* getSource: an error closes sourceCode and is no reason to return, so    *)
(* that the missing response is touched next; an error of the body closes  *)
(* it too, and what came of the body is searched.                          *)
GetAddress ==
    /\ getter.at = "range" /\ urls.held > 0
    /\ urls' = [urls EXCEPT !.held = @ - 1]
    /\ \/ /\ failed' = TRUE /\ CloseSource
          /\ getter' = [getter EXCEPT !.at = "nilResponse"]
          /\ UNCHANGED found
       \/ \E n \in 0..MaxFound, whole \in BOOLEAN :
            /\ getter' = [at |-> "put", left |-> n]
            /\ found' = [found EXCEPT !.got = @ + 1, !.sources = @ + n]
            /\ IF whole THEN UNCHANGED <<sourceCode, failed, end>>
                        ELSE failed' = TRUE /\ CloseSource
    /\ UNCHANGED <<start, show>>

NilResponse == getter.at = "nilResponse" /\ Panic /\ UNCHANGED failed

PutSource ==
    /\ getter.at = "put" /\ getter.left > 0
    /\ \/ sourceCode.closed /\ Panic /\ UNCHANGED failed
       \/ /\ ~sourceCode.closed /\ sourceCode.held < Capacity
          /\ sourceCode' = [sourceCode EXCEPT !.held = @ + 1]
          /\ getter' = [getter EXCEPT !.left = @ - 1]
          /\ UNCHANGED <<urls, start, show, found, failed, end>>

NextAddress ==
    /\ getter.at = "put" /\ getter.left = 0
    /\ getter' = [getter EXCEPT !.at = "range"]
    /\ UNCHANGED <<urls, sourceCode, start, show, found, failed, end>>

CloseEarlyBug ==
    /\ getter.at = "range" /\ urls.held = 0
    /\ getter' = [getter EXCEPT !.at = "done"]
    /\ CloseSource
    /\ UNCHANGED <<urls, start, show, found, failed>>

EndOfUrls ==
    /\ getter.at = "range" /\ urls.held = 0 /\ urls.closed
    /\ getter' = [getter EXCEPT !.at = "done"]
    /\ CloseSource
    /\ UNCHANGED <<urls, start, show, found, failed>>

(* showCode; its last send meets main, which ends the program. *)
ShowOne ==
    /\ show = "range" /\ sourceCode.held > 0
    /\ sourceCode' = [sourceCode EXCEPT !.held = @ - 1]
    /\ found' = [found EXCEPT !.count = @ + 1]
    /\ UNCHANGED <<urls, start, getter, show, failed, end>>

EndOfSources ==
    /\ show = "range" /\ sourceCode.held = 0 /\ sourceCode.closed
    /\ show' = "killsign"
    /\ UNCHANGED <<urls, sourceCode, start, getter, found, failed, end>>

KillSign ==
    /\ show = "killsign"
    /\ end' = "ended"
    /\ UNCHANGED <<urls, sourceCode, start, getter, show, found, failed>>

Starting == end = "running" /\ (GetPage \/ PutAddress \/ NextPage \/ CloseUrls)

Getting == end = "running" /\ (GetAddress \/ NilResponse \/ PutSource
                            \/ NextAddress \/ EndOfUrls)

Showing == end = "running" /\ (ShowOne \/ EndOfSources \/ KillSign)

Next == Starting \/ Getting \/ Showing

(* Goroutines are scheduled, and the site answers every request. *)
Spec == /\ Init /\ [][Next]_vars
        /\ WF_vars(Starting) /\ WF_vars(Getting) /\ WF_vars(Showing)

----------------------------------------------------------------------------
(* What must hold.                                                         *)

(* Unless a request has failed, the program ends only when every address   *)
(* and every source found has been taken from its channel.                 *)
EndsDrained ==
    end = "ended" /\ ~failed =>
        /\ urls.held = 0 /\ sourceCode.held = 0
        /\ found.got = found.addresses /\ found.count = found.sources

(* The three goroutines and main do not wait for one another for ever,     *)
(* though both channels may be full; what fails ends in a panic at worst.  *)
CrawlerEnds == <>(end # "running")

(* Only a failed request makes it panic. *)
PanicsOnFailure == end = "panic" => failed
=============================================================================
