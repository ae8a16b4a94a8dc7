--------------------------- MODULE ServicesProofs ---------------------------
(***************************************************************************)
(* The safety properties of Services, from the invariants of its           *)
(* components.  First PortInv and StopInv: a step of ServerLifecycle is    *)
(* turned into what it does to the fields of the server, its callers and   *)
(* serve, and the parts of the invariants follow.  Then the other          *)
(* components; a step of one leaves the variables of the others alone, so  *)
(* each invariant is shown for the steps of its own.                       *)
(***************************************************************************)
EXTENDS ServicesInvariant, FiniteSetTheorems, TLAPS

(* The types of the server, of its callers and of serve. *)
ServerFields ==
    [listener : 0..MaxStarts, wait : 0..MaxStarts, open : 0..MaxStarts,
     closed : SUBSET (0..MaxStarts), db : BOOLEAN, leader : BOOLEAN,
     starts : 0..MaxStarts]

CallerFields ==
    [at : {"idle", "starting", "listening", "listens", "serving",
           "stopped", "poll", "received"},
     mine : 0..MaxStarts, polls : 0..Polls]

ServeFields ==
    [at : {"none", "enter", "accepting", "ended", "closing", "tell",
           "sending", "done", "dead"},
     by : 0..MaxStarts, ch : 0..MaxStarts]

ServerTyped ==
    /\ build \in {"blocking", "caller", "spawned"}
    /\ srv \in ServerFields
    /\ caller \in [Caller -> CallerFields]
    /\ serve \in [Server!Run -> ServeFields]
    /\ upset \in BOOLEAN /\ panicked \in BOOLEAN

(* The type invariant, with the sets of its records by their names. *)
LEMMA ServerTypes == (Server!TypeOK <=> ServerTyped) /\ (Server!TypeOK' <=> ServerTyped')
<1>1. {upset, panicked} \subseteq BOOLEAN <=> upset \in BOOLEAN /\ panicked \in BOOLEAN
  OBVIOUS
<1>2. {upset', panicked'} \subseteq BOOLEAN <=> upset' \in BOOLEAN /\ panicked' \in BOOLEAN
  OBVIOUS
<1>3. Server!TypeOK <=> ServerTyped
  BY <1>1, Zenon DEF Server!TypeOK, ServerTyped, ServerFields, CallerFields, ServeFields
<1>4. Server!TypeOK' <=> ServerTyped'
  BY <1>2, Zenon DEF Server!TypeOK, ServerTyped, ServerFields, CallerFields, ServeFields
<1> QED
  BY <1>3, <1>4

(* An assignment to one field of the server. *)
LEMMA ServerKeepsFields ==
    ASSUME NEW sv \in ServerFields
    PROVE  /\ \A x \in 0..MaxStarts :
                /\ [sv EXCEPT !.listener = x] \in ServerFields
                /\ [sv EXCEPT !.wait = x] \in ServerFields
                /\ [sv EXCEPT !.open = x] \in ServerFields
                /\ [sv EXCEPT !.starts = x] \in ServerFields
           /\ \A x \in SUBSET (0..MaxStarts) : [sv EXCEPT !.closed = x] \in ServerFields
           /\ \A x \in BOOLEAN :
                /\ [sv EXCEPT !.db = x] \in ServerFields
                /\ [sv EXCEPT !.leader = x] \in ServerFields
BY DEF ServerFields

(* What closeListener leaves. *)
LEMMA ListenerCloses ==
    ASSUME NEW sv \in ServerFields
    PROVE  /\ Server!CloseListener(sv) \in ServerFields
           /\ Server!CloseListener(sv).listener = 0
           /\ Server!CloseListener(sv).open = IF sv.open = sv.listener THEN 0 ELSE sv.open
           /\ Server!CloseListener(sv).wait = sv.wait
           /\ Server!CloseListener(sv).closed = sv.closed
           /\ Server!CloseListener(sv).db = sv.db
           /\ Server!CloseListener(sv).starts = sv.starts
<1> DEFINE open == IF sv.open = sv.listener THEN 0 ELSE sv.open
           sv1 == [sv EXCEPT !.open = open]
<1>1. open \in 0..MaxStarts /\ 0 \in 0..MaxStarts
  BY ServicesAssumption DEF ServerFields
<1>2. sv1 \in ServerFields
  BY <1>1, ServerKeepsFields
<1>3. Server!CloseListener(sv) = [sv1 EXCEPT !.listener = 0]
  BY DEF Server!CloseListener, ServerFields
<1>4. /\ sv1.open = open /\ sv1.wait = sv.wait /\ sv1.closed = sv.closed
      /\ sv1.db = sv.db /\ sv1.starts = sv.starts
  BY DEF ServerFields
<1> HIDE DEF sv1
<1>5. Server!CloseListener(sv) \in ServerFields
  BY <1>1, <1>2, <1>3, ServerKeepsFields
<1> QED
  BY <1>2, <1>3, <1>4, <1>5 DEF ServerFields

(* The number of a Start is 0 or one of Run. *)
LEMMA Numbers ==
    /\ \A x : x \in 0..MaxStarts <=> x = 0 \/ x \in Server!Run
    /\ \A x \in Server!Run : x \in Nat /\ x # 0 /\ x \in 0..MaxStarts
    /\ 0 \in 0..MaxStarts
BY ServicesAssumption DEF Server!Run

(* What PortInv says, with the sets of the types by their names. *)
LEMMA PortFacts ==
    ASSUME PortInv
    PROVE  /\ srv \in ServerFields /\ caller \in [Caller -> CallerFields]
           /\ serve \in [Server!Run -> ServeFields]
           /\ OneOpens /\ Listening /\ Server!PortIsServed /\ ServerTyped
           /\ {srv.listener, srv.wait, srv.open, srv.starts} \subseteq 0..MaxStarts
           /\ srv.closed \subseteq 0..MaxStarts
BY ServerTypes DEF PortInv, ServerTyped, ServerFields

(* A caller is called, returns, or is refused: nothing a server looks at   *)
(* changes.                                                                *)
LEMMA CallersMove ==
    ASSUME PortInv, NEW c \in Caller,
           caller' \in [Caller -> CallerFields],
           \A d \in Caller \ {c} : caller'[d] = caller[d],
           caller'[c].mine = caller[c].mine,
           caller[c].at \in {"idle", "starting", "serving"},
           caller'[c].at \in {"idle", "starting"},
           srv' \in ServerFields,
           srv'.listener = srv.listener, srv'.wait = srv.wait, srv'.open = srv.open,
           srv'.closed = srv.closed, srv'.starts = srv.starts, srv.db \/ ~srv'.db,
           UNCHANGED <<build, serve, upset, panicked>>,
           \/ caller'[c].at \in {"idle", caller[c].at}
           \/ srv.listener = 0 /\ \A d \in Caller : caller[d].at \in {"idle", "serving"}
    PROVE  PortInv' /\ (StopInv => StopInv')
<1> DEFINE from == caller[c].at
           to == caller'[c].at
<1>1. /\ srv \in ServerFields /\ caller \in [Caller -> CallerFields]
      /\ serve \in [Server!Run -> ServeFields]
      /\ OneOpens /\ Listening /\ Server!PortIsServed
  BY ServerTypes DEF PortInv, ServerTyped
<1>2. \A d \in Caller :
        /\ caller'[d].at = IF d = c THEN to ELSE caller[d].at
        /\ caller'[d].mine = caller[d].mine
        /\ d # c => caller'[d].polls = caller[d].polls
  OBVIOUS
<1>3. Server!TypeOK'
  BY <1>1, ServerTypes DEF PortInv, ServerTyped, Server!Run
<1>4. OneOpens'
  BY <1>1, <1>2 DEF OneOpens, Opening, Server!Stopping
<1>5. Listening'
  BY <1>1, <1>2 DEF Listening
<1>6. Server!PortIsServed'
  BY <1>1, <1>2 DEF Server!PortIsServed
<1>7. PortInv'
  BY <1>3, <1>4, <1>5, <1>6 DEF PortInv
<1>8. ASSUME NoWait PROVE NoWait'
  BY <1>2, <1>8 DEF NoWait
<1>9. ASSUME LastIsLive, StopIsOfLast, WaitIsOfLast
      PROVE  LastIsLive' /\ StopIsOfLast' /\ WaitIsOfLast'
  <2>1. to = "starting" /\ from # to =>
          srv.wait = 0 /\ \A g \in Server!Run : ~Live(g)
    <3> SUFFICES ASSUME to = "starting", from # to
                 PROVE  srv.wait = 0 /\ \A g \in Server!Run : ~Live(g)
      OBVIOUS
    <3>1. srv.listener = 0 /\ \A d \in Caller : caller[d].at \in {"idle", "serving"}
      OBVIOUS
    <3>2. \A g \in Server!Run : g # 0 /\ (srv.wait # 0 => srv.wait \in Server!Run)
      BY <1>1, ServicesAssumption DEF Server!Run, ServerFields
    <3>3. \A g \in Server!Run : ~Live(g)
      BY <1>9, <3>1, <3>2 DEF LastIsLive
    <3>4. srv.wait # 0 => srv.wait \in Server!Run
      BY <1>1, ServicesAssumption DEF Server!Run, ServerFields
    <3> QED
      BY <1>9, <3>1, <3>3, <3>4 DEF WaitIsOfLast, Server!Stopping
  <2>2. LastIsLive'
    BY <1>2, <1>9, <2>1 DEF LastIsLive, Live, Opening
  <2>3. StopIsOfLast'
    BY <1>2, <1>9 DEF StopIsOfLast, Server!Stopping, Opening
  <2>4. WaitIsOfLast'
    BY <1>2, <1>9, <2>1 DEF WaitIsOfLast, Server!Stopping, Opening, Live
  <2> QED
    BY <2>2, <2>3, <2>4
<1> QED
  BY <1>7, <1>8, <1>9 DEF StopInv

(* net.Listen succeeds: there is a listener to serve, and no server to stop. *)
LEMMA ListenOpens ==
    ASSUME PortInv, NEW c \in Caller, NEW leader \in BOOLEAN,
           srv.open = 0, srv.starts < MaxStarts, Server!CallerAt(c, "starting", "listening"),
           srv' = [[[srv EXCEPT !.leader = leader] EXCEPT !.starts = srv.starts + 1]
                     EXCEPT !.open = srv.starts + 1],
           UNCHANGED <<build, serve, upset, panicked>>
    PROVE  PortInv' /\ (StopInv => StopInv')
<1> DEFINE n == srv.starts + 1
           sv1 == [srv EXCEPT !.leader = leader]
           sv2 == [sv1 EXCEPT !.starts = n]
<1>1. /\ srv \in ServerFields /\ caller \in [Caller -> CallerFields]
      /\ serve \in [Server!Run -> ServeFields]
      /\ OneOpens /\ Listening /\ Server!PortIsServed /\ ServerTyped
  BY PortFacts
<1>2. n \in 0..MaxStarts /\ n \in Server!Run /\ n > srv.starts
  BY PortFacts, ServicesAssumption DEF Server!Run
<1>3. /\ caller[c].at = "starting" /\ caller' \in [Caller -> CallerFields]
      /\ \A d \in Caller :
           /\ caller'[d].at = IF d = c THEN "listening" ELSE caller[d].at
           /\ caller'[d].mine = caller[d].mine /\ caller'[d].polls = caller[d].polls
  BY <1>1 DEF Server!CallerAt, CallerFields
<1>4. /\ sv1 \in ServerFields /\ sv1.listener = srv.listener /\ sv1.wait = srv.wait
      /\ sv1.closed = srv.closed /\ sv1.db = srv.db
  <2>1. sv1 \in ServerFields
    BY <1>1, ServerKeepsFields, Zenon
  <2> QED
    BY <1>1, <2>1 DEF ServerFields
<1> HIDE DEF sv1
<1>5. /\ sv2 \in ServerFields /\ sv2.listener = srv.listener /\ sv2.wait = srv.wait
      /\ sv2.closed = srv.closed /\ sv2.db = srv.db /\ sv2.starts = n
  <2>1. sv2 \in ServerFields
    BY <1>2, <1>4, ServerKeepsFields, Zenon
  <2> QED
    BY <1>4, <2>1 DEF ServerFields
<1> HIDE DEF sv2
<1>6. srv' = [sv2 EXCEPT !.open = n]
  BY DEF sv1, sv2
<1>7. /\ srv' \in ServerFields /\ srv'.listener = srv.listener /\ srv'.wait = srv.wait
      /\ srv'.closed = srv.closed /\ srv'.db = srv.db /\ srv'.starts = n /\ srv'.open = n
  BY <1>2, <1>5, <1>6, ServerKeepsFields DEF ServerFields
<1>8. PortInv'
  <2>1. Server!TypeOK'
    BY <1>1, <1>3, <1>7, ServerTypes DEF ServerTyped, Server!Run
  <2>2. OneOpens'
    BY <1>1, <1>3 DEF OneOpens, Opening, Server!Stopping
  <2>3. Listening'
    BY <1>1, <1>2, <1>3, <1>7 DEF Listening, OneOpens, Opening, Server!Run
  <2>4. Server!PortIsServed'
    BY <1>3 DEF Server!PortIsServed
  <2> QED
    BY <2>1, <2>2, <2>3, <2>4 DEF PortInv
<1>9. ASSUME NoWait PROVE NoWait'
  BY <1>3, <1>7, <1>9 DEF NoWait, Server!Run
<1>10. ASSUME LastIsLive, StopIsOfLast, WaitIsOfLast
       PROVE  LastIsLive' /\ StopIsOfLast' /\ WaitIsOfLast'
  <2>1. \A g \in Server!Run : ~Live(g)
    BY <1>3, <1>10 DEF LastIsLive, Opening
  <2>2. \A d \in Caller : ~Server!Stopping(d)
    BY <1>3, <1>10 DEF StopIsOfLast
  <2>3. \A d \in Caller \ {c} : ~Opening(d)
    BY <1>1, <1>3 DEF OneOpens, Opening
  <2>4. srv.wait = 0 /\ srv.listener = 0
    BY <1>3, <1>10 DEF WaitIsOfLast, Opening
  <2>5. n \notin srv.closed /\ srv.closed \subseteq 1..n
    BY <1>1, <1>2, <1>10, PortFacts DEF WaitIsOfLast
  <2>6. \A g \in Server!Run : g >= n => serve[g].at = "none"
    BY <1>1, <1>10, PortFacts DEF WaitIsOfLast, Server!Run
  <2>7. LastIsLive'
    BY <2>1 DEF LastIsLive, Live, Server!Run
  <2>8. StopIsOfLast'
    BY <1>3, <2>2 DEF StopIsOfLast, Server!Stopping
  <2>9. WaitIsOfLast'
    <3>1. \A d \in Caller : caller'[d].at # "listens"
      BY <1>3, <2>3 DEF Opening
    <3>2. ~panicked'
      BY <1>10 DEF WaitIsOfLast
    <3> QED
      BY <1>2, <1>3, <1>7, <2>4, <2>5, <2>6, <3>1, <3>2 DEF WaitIsOfLast, Server!Run
  <2> QED
    BY <2>7, <2>8, <2>9
<1> QED
  BY <1>8, <1>9, <1>10 DEF StopInv

(* s.listener is set: the channels and the server of this Start are new. *)
LEMMA SetListenerKeeps ==
    ASSUME PortInv, NEW c \in Caller, Server!SetListener(c)
    PROVE  PortInv' /\ (StopInv => StopInv')
<1> DEFINE cl1 == [caller EXCEPT ![c].at = "listens"]
           n == srv.starts
<1>1. /\ srv \in ServerFields /\ caller \in [Caller -> CallerFields]
      /\ serve \in [Server!Run -> ServeFields]
      /\ OneOpens /\ Listening /\ Server!PortIsServed /\ ServerTyped
  BY PortFacts
<1>2. /\ caller[c].at = "listening" /\ n \in Server!Run /\ n \in 0..MaxStarts
      /\ srv.open \in {0, n}
  BY <1>1, Numbers DEF Server!SetListener, Listening
<1>3. /\ cl1 \in [Caller -> CallerFields]
      /\ \A d \in Caller :
           /\ cl1[d].at = IF d = c THEN "listens" ELSE caller[d].at
           /\ cl1[d].mine = caller[d].mine /\ cl1[d].polls = caller[d].polls
  BY <1>1 DEF CallerFields
<1>4. caller' = [cl1 EXCEPT ![c].mine = n]
  BY <1>1 DEF Server!SetListener, CallerFields
<1> HIDE DEF cl1
<1>5. /\ caller' \in [Caller -> CallerFields]
      /\ \A d \in Caller :
           /\ caller'[d].at = IF d = c THEN "listens" ELSE caller[d].at
           /\ caller'[d].mine = IF d = c THEN n ELSE caller[d].mine
           /\ caller'[d].polls = caller[d].polls
  BY <1>2, <1>3, <1>4 DEF CallerFields
<1>6. /\ srv' \in ServerFields /\ srv'.listener = n /\ srv'.wait = srv.wait
      /\ srv'.closed = srv.closed /\ srv'.db = srv.db /\ srv'.starts = n
      /\ srv'.open = srv.open
  BY <1>1, <1>2, ServerKeepsFields DEF ServerFields, Server!SetListener
<1>7. UNCHANGED <<build, serve, upset, panicked>>
  BY DEF Server!SetListener
<1>8. PortInv'
  <2>1. Server!TypeOK'
    BY <1>1, <1>5, <1>6, <1>7, ServerTypes DEF ServerTyped, Server!Run
  <2>2. OneOpens'
    BY <1>1, <1>2, <1>5 DEF OneOpens, Opening, Server!Stopping
  <2>3. Listening'
    BY <1>1, <1>2, <1>5, <1>6 DEF Listening, OneOpens, Opening, Server!Run
  <2>4. Server!PortIsServed'
    BY <1>5 DEF Server!PortIsServed
  <2> QED
    BY <2>1, <2>2, <2>3, <2>4 DEF PortInv
<1>9. ASSUME NoWait PROVE NoWait'
  BY <1>5, <1>6, <1>7, <1>9 DEF NoWait, Server!Run
<1>10. ASSUME LastIsLive, StopIsOfLast, WaitIsOfLast
       PROVE  LastIsLive' /\ StopIsOfLast' /\ WaitIsOfLast'
  <2>1. \A g \in Server!Run : ~Live(g)
    BY <1>2, <1>10 DEF LastIsLive, Opening
  <2>2. \A d \in Caller : ~Server!Stopping(d)
    BY <1>2, <1>10 DEF StopIsOfLast
  <2>3. \A d \in Caller \ {c} : ~Opening(d)
    BY <1>1, <1>2 DEF OneOpens, Opening
  <2>4. /\ srv.wait = 0 /\ srv.open = n /\ n \notin srv.closed /\ serve[n].at = "none"
        /\ n # 0
    BY <1>2, <1>10, Numbers DEF WaitIsOfLast, Opening
  <2>5. LastIsLive'
    BY <1>7, <2>1 DEF LastIsLive, Live, Server!Run
  <2>6. StopIsOfLast'
    BY <1>5, <2>2 DEF StopIsOfLast, Server!Stopping
  <2>7. WaitIsOfLast'
    <3>1. \A d \in Caller : caller'[d].at \notin {"starting", "listening"}
      BY <1>5, <2>3 DEF Opening
    <3>2. /\ ~panicked' /\ srv'.closed \subseteq 1..srv'.starts
          /\ \A g \in Server!Run : g > srv'.starts => serve'[g].at = "none"
      BY <1>6, <1>7, <1>10 DEF WaitIsOfLast
    <3> QED
      BY <1>5, <1>6, <1>7, <2>4, <3>1, <3>2 DEF WaitIsOfLast, Server!Run
  <2> QED
    BY <2>5, <2>6, <2>7
<1> QED
  BY <1>7, <1>8, <1>9, <1>10 DEF StopInv

(* Start is called or returns, init fails, Server.Init. *)
LEMMA CallersKeep ==
    ASSUME PortInv, NEW c \in Caller,
           \/ Server!StartServer(c) \/ Server!InitFails(c) \/ Server!InitServer(c)
           \/ Server!StartReturns(c)
    PROVE  PortInv' /\ (StopInv => StopInv')
<1>1. /\ srv \in ServerFields /\ caller \in [Caller -> CallerFields]
  BY PortFacts
<1>2. /\ [srv EXCEPT !.db = FALSE] \in ServerFields
      /\ [srv EXCEPT !.db = FALSE].listener = srv.listener
      /\ [srv EXCEPT !.db = FALSE].wait = srv.wait
      /\ [srv EXCEPT !.db = FALSE].open = srv.open
      /\ [srv EXCEPT !.db = FALSE].closed = srv.closed
      /\ [srv EXCEPT !.db = FALSE].starts = srv.starts
      /\ ~[srv EXCEPT !.db = FALSE].db
  BY <1>1 DEF ServerFields
<1>3. ASSUME NEW from \in {"idle", "starting", "serving"}, NEW to \in {"idle", "starting"},
             Server!CallerAt(c, from, to)
      PROVE  /\ caller' \in [Caller -> CallerFields]
             /\ \A d \in Caller \ {c} : caller'[d] = caller[d]
             /\ caller'[c].mine = caller[c].mine
             /\ caller[c].at = from /\ caller'[c].at = to
  BY <1>1, <1>3 DEF Server!CallerAt, CallerFields
<1>4. CASE Server!StartServer(c)
  BY <1>1, <1>3, <1>4, CallersMove DEF Server!StartServer
<1>5. CASE Server!InitFails(c)
  BY <1>1, <1>2, <1>3, <1>5, CallersMove DEF Server!InitFails
<1>6. CASE Server!InitServer(c)
  BY <1>1, <1>2, <1>6, CallersMove DEF Server!InitServer
<1>7. CASE Server!StartReturns(c)
  BY <1>1, <1>3, <1>7, CallersMove DEF Server!StartReturns
<1> QED
  BY <1>4, <1>5, <1>6, <1>7

(* net.Listen. *)
LEMMA ListenKeeps ==
    ASSUME PortInv, NEW c \in Caller, Server!Listen(c)
    PROVE  PortInv' /\ (StopInv => StopInv')
<1> DEFINE leader == srv.leader \/ build # "spawned"
           sv == [srv EXCEPT !.leader = leader]
<1>1. /\ srv \in ServerFields /\ caller \in [Caller -> CallerFields]
  BY PortFacts
<1>2. leader \in BOOLEAN
  OBVIOUS
<1> HIDE DEF leader
<1>3. /\ sv \in ServerFields /\ sv.listener = srv.listener /\ sv.wait = srv.wait
      /\ sv.open = srv.open /\ sv.closed = srv.closed /\ sv.starts = srv.starts
  BY <1>1, <1>2 DEF ServerFields
<1>4. sv = [srv EXCEPT !.leader = @ \/ build # "spawned"]
  BY <1>1 DEF leader, ServerFields
<1> HIDE DEF sv
<1>5. /\ UNCHANGED <<build, serve, upset, panicked>>
      /\ \/ /\ srv.open = 0 /\ srv.starts < MaxStarts
            /\ Server!CallerAt(c, "starting", "listening")
            /\ srv' = [sv EXCEPT !.starts = @ + 1, !.open = sv.starts + 1]
         \/ /\ Server!CallerAt(c, "starting", "idle")
            /\ srv' = [sv EXCEPT !.db = FALSE]
  BY <1>4, Zenon DEF Server!Listen
<1>6. CASE /\ srv.open = 0 /\ srv.starts < MaxStarts
           /\ Server!CallerAt(c, "starting", "listening")
           /\ srv' = [sv EXCEPT !.starts = @ + 1, !.open = sv.starts + 1]
  <2>1. srv' = [[sv EXCEPT !.starts = srv.starts + 1] EXCEPT !.open = srv.starts + 1]
    BY <1>3, <1>6 DEF ServerFields
  <2> QED
    BY <1>2, <1>5, <1>6, <2>1, ListenOpens, Zenon DEF sv
<1>7. CASE /\ Server!CallerAt(c, "starting", "idle")
           /\ srv' = [sv EXCEPT !.db = FALSE]
  <2>1. /\ srv' \in ServerFields /\ srv'.listener = srv.listener /\ srv'.wait = srv.wait
        /\ srv'.open = srv.open /\ srv'.closed = srv.closed /\ srv'.starts = srv.starts
        /\ ~srv'.db
    BY <1>3, <1>7 DEF ServerFields
  <2>2. /\ caller' \in [Caller -> CallerFields]
        /\ \A d \in Caller \ {c} : caller'[d] = caller[d]
        /\ caller'[c].mine = caller[c].mine
        /\ caller[c].at = "starting" /\ caller'[c].at = "idle"
    BY <1>1, <1>7 DEF Server!CallerAt, CallerFields
  <2> QED
    BY <1>5, <2>1, <2>2, CallersMove
<1> QED
  BY <1>5, <1>6, <1>7

(* wait is made and serve begins: it is the only server that is not through. *)
LEMMA BeginServeKeeps ==
    ASSUME PortInv, NEW c \in Caller, Server!BeginServe(c)
    PROVE  PortInv' /\ (StopInv => StopInv')
<1>1. /\ srv \in ServerFields /\ caller \in [Caller -> CallerFields]
      /\ serve \in [Server!Run -> ServeFields]
      /\ OneOpens /\ Listening /\ Server!PortIsServed /\ ServerTyped
  BY PortFacts
<1> DEFINE n == srv.starts
           to == IF build = "spawned" THEN "idle" ELSE "serving"
           wt == IF build = "blocking" THEN srv.wait ELSE n
<1>2. /\ caller[c].at = "listens" /\ caller[c].mine = n /\ n \in Server!Run
      /\ n \in 0..MaxStarts /\ wt \in 0..MaxStarts /\ srv.open \in {0, srv.listener}
      /\ serve[n].at = "none" /\ UNCHANGED <<build, upset, panicked>>
  BY <1>1, Numbers, PortFacts DEF Server!BeginServe, Server!CallerAt, Server!ServeAt, Listening
<1>3. /\ caller' \in [Caller -> CallerFields]
      /\ \A d \in Caller :
           /\ caller'[d].at = IF d = c THEN to ELSE caller[d].at
           /\ caller'[d].mine = caller[d].mine /\ caller'[d].polls = caller[d].polls
  BY <1>1 DEF Server!BeginServe, Server!CallerAt, CallerFields
<1>4. /\ srv' \in ServerFields /\ srv'.listener = srv.listener /\ srv'.wait = wt
      /\ srv'.closed = srv.closed /\ srv'.db = srv.db /\ srv'.starts = n
      /\ srv'.open = srv.open
  <2>1. srv' = [srv EXCEPT !.wait = wt]
    BY <1>1, <1>2 DEF Server!BeginServe, ServerFields
  <2> HIDE DEF wt
  <2> QED
    BY <1>1, <1>2, <2>1 DEF ServerFields
<1>5. /\ serve' \in [Server!Run -> ServeFields]
      /\ \A h \in Server!Run :
           /\ serve'[h].at = IF h = n THEN "enter" ELSE serve[h].at
           /\ serve'[h].by = serve[h].by /\ serve'[h].ch = serve[h].ch
  <2>1. serve' = [serve EXCEPT ![n].at = "enter"]
    BY <1>2 DEF Server!BeginServe, Server!ServeAt
  <2> QED
    BY <1>1, <2>1 DEF ServeFields
<1>6. PortInv'
  <2>1. Server!TypeOK'
    BY <1>1, <1>2, <1>3, <1>4, <1>5, ServerTypes DEF ServerTyped, Server!Run
  <2>2. OneOpens'
    BY <1>1, <1>2, <1>3, <1>4 DEF OneOpens, Opening, Server!Stopping
  <2>3. Listening'
    BY <1>1, <1>2, <1>3, <1>4 DEF Listening, Server!Run
  <2>4. Server!PortIsServed'
    BY <1>1, <1>2, <1>3, <1>4, <1>5 DEF Server!PortIsServed, Server!Run
  <2> QED
    BY <2>1, <2>2, <2>3, <2>4 DEF PortInv
<1>7. ASSUME build = "blocking", NoWait PROVE NoWait'
  BY <1>1, <1>2, <1>3, <1>4, <1>5, <1>7 DEF NoWait, Server!Run
<1>8. ASSUME build # "blocking", ~upset', LastIsLive, StopIsOfLast, WaitIsOfLast
      PROVE  LastIsLive' /\ StopIsOfLast' /\ WaitIsOfLast'
  <2>1. \A g \in Server!Run : ~Live(g)
    BY <1>2, <1>8 DEF LastIsLive, Opening
  <2>2. \A d \in Caller \ {c} : ~Opening(d)
    BY <1>1, <1>2 DEF OneOpens, Opening
  <2>3. \A d \in Caller : ~Opening(d)'
    BY <1>2, <1>3, <2>2 DEF Opening
  <2>4. wt = n /\ n # 0 /\ n \notin srv.closed
    BY <1>2, <1>8, Numbers DEF WaitIsOfLast
  <2>5. \A d \in Caller : Server!Stopping(d) => caller[d].at \in {"stopped", "poll"}
    BY <1>2, <1>8 DEF StopIsOfLast, Server!Stopping, Opening
  <2>6. \/ srv.listener = n /\ srv.open = n
        \/ /\ srv.listener = 0 /\ srv.open = 0
           /\ \E d \in Caller : caller'[d].at \in {"stopped", "poll"}
    BY <1>2, <1>3, <1>8, <2>5 DEF WaitIsOfLast, Server!Stopping
  <2>7. LastIsLive'
    <3>1. \A g \in Server!Run : Live(g)' => g = n
      BY <1>5, <2>1 DEF Live
    <3> QED
      <4>1. /\ n = srv'.starts /\ srv'.wait = n /\ serve'[n].at = "enter"
            /\ \/ srv'.listener = n /\ srv'.open = n
               \/ /\ srv'.listener = 0 /\ srv'.open = 0
                  /\ \E d \in Caller : caller'[d].at \in {"stopped", "poll"}
        BY <1>2, <1>4, <1>5, <2>4, <2>6
      <4> QED
        BY <2>3, <3>1, <4>1 DEF LastIsLive, Server!Run
  <2>8. StopIsOfLast'
    BY <1>2, <1>3, <1>4, <1>8, <2>4, <2>5 DEF StopIsOfLast, Server!Stopping
  <2>9. WaitIsOfLast'
    <3>1. Live(n)'
      BY <1>2, <1>4, <1>5 DEF Live
    <3>2. /\ srv'.open \in {0, srv'.listener} /\ srv'.listener \in {0, srv'.starts}
          /\ srv'.closed \subseteq 1..srv'.starts /\ ~panicked'
      BY <1>2, <1>4, <1>8, <2>6 DEF WaitIsOfLast
    <3>3. \A g \in Server!Run : g > srv'.starts => serve'[g].at = "none"
      BY <1>2, <1>4, <1>5, <1>8, PortFacts DEF WaitIsOfLast, Server!Run
    <3>4. \A d \in Caller : caller'[d].at \notin {"starting", "listening", "listens"}
      BY <2>3 DEF Opening
    <3> QED
      BY <1>4, <2>3, <2>4, <3>1, <3>2, <3>3, <3>4 DEF WaitIsOfLast, Server!Run
  <2> QED
    BY <2>7, <2>8, <2>9
<1> QED
  BY <1>2, <1>6, <1>7, <1>8 DEF StopInv

(* serve reads s.listener: without one it returns, and a Stop has taken it. *)
LEMMA EnterKeeps ==
    ASSUME PortInv, NEW g \in Server!Run, Server!Enter(g)
    PROVE  PortInv' /\ (StopInv => StopInv')
<1>1. /\ srv \in ServerFields /\ caller \in [Caller -> CallerFields]
      /\ serve \in [Server!Run -> ServeFields]
      /\ OneOpens /\ Listening /\ Server!PortIsServed /\ ServerTyped
  BY PortFacts
<1> DEFINE to == IF srv.listener = 0 THEN "done" ELSE "accepting"
           sv1 == [serve EXCEPT ![g].at = to]
<1>2. serve[g].at = "enter" /\ UNCHANGED <<build, srv, caller, upset, panicked>>
  BY DEF Server!Enter
<1>3. /\ srv' \in ServerFields /\ caller' \in [Caller -> CallerFields]
      /\ srv' = srv /\ caller' = caller
  BY <1>1, <1>2
<1>4. /\ sv1 \in [Server!Run -> ServeFields]
      /\ \A h \in Server!Run :
           /\ sv1[h].at = IF h = g THEN to ELSE serve[h].at
           /\ sv1[h].by = serve[h].by /\ sv1[h].ch = serve[h].ch
  BY <1>1 DEF ServeFields
<1>5. /\ serve' \in [Server!Run -> ServeFields]
      /\ \A h \in Server!Run :
           /\ serve'[h].at = IF h = g THEN to ELSE serve[h].at
           /\ serve'[h].by = IF h = g THEN srv.listener ELSE serve[h].by
           /\ serve'[h].ch = serve[h].ch
  <2>1. serve' = [sv1 EXCEPT ![g].by = srv.listener]
    BY <1>1 DEF Server!Enter, ServeFields
  <2>2. srv.listener \in 0..MaxStarts
    BY PortFacts
  <2> HIDE DEF sv1
  <2> QED
    BY <1>4, <2>1, <2>2 DEF ServeFields
<1>6. PortInv'
  <2>1. Server!TypeOK'
    BY <1>1, <1>2, <1>3, <1>5, ServerTypes DEF ServerTyped, Server!Run
  <2>2. OneOpens'
    BY <1>1, <1>3 DEF OneOpens, Opening, Server!Stopping
  <2>3. Listening'
    BY <1>1, <1>3 DEF Listening, Server!Run
  <2>4. Server!PortIsServed'
    BY <1>1, <1>2, <1>3, <1>5 DEF Server!PortIsServed, Server!Run
  <2> QED
    BY <2>1, <2>2, <2>3, <2>4 DEF PortInv
<1>7. ASSUME build = "blocking", NoWait PROVE NoWait'
  BY <1>1, <1>2, <1>3, <1>5, <1>7 DEF NoWait, Server!Run
<1>8. ASSUME build # "blocking", ~upset', LastIsLive, StopIsOfLast, WaitIsOfLast
      PROVE  LastIsLive' /\ StopIsOfLast' /\ WaitIsOfLast'
  <2>1. Live(g) /\ g = srv.starts /\ g # 0
    BY <1>2, Numbers, <1>8 DEF Live, LastIsLive
  <2>2. /\ \A h \in Server!Run : Live(h)' => h = g
        /\ Live(g)' => srv.listener = g
    BY <1>2, <1>5, <1>8, <2>1 DEF LastIsLive, Live
  <2>3. LastIsLive'
    BY <1>2, <1>5, <1>8, <2>1, <2>2 DEF LastIsLive, Opening, Live, Server!Run
  <2>4. StopIsOfLast'
    BY <1>2, <1>3, <1>5, <1>8 DEF StopIsOfLast, Server!Stopping, Opening, Server!Run
  <2>5. WaitIsOfLast'
    <3>1. srv.listener = 0 => \E d \in Caller : Server!Stopping(d)
      BY <1>8, <2>1 DEF LastIsLive, Server!Stopping
    <3>2. srv.listener # 0 => Live(g)'
      BY <1>5 DEF Live
    <3>3. \A h \in Server!Run : h > srv.starts => serve'[h].at = "none"
      BY <1>2, <1>5, <1>8, <2>1, PortFacts DEF WaitIsOfLast, Server!Run
    <3>4. \A d \in Caller : ~Opening(d)
      BY <1>8, <2>1 DEF LastIsLive
    <3> QED
      BY <1>2, <1>8, <2>1, <3>1, <3>2, <3>3, <3>4
      DEF WaitIsOfLast, Opening, Server!Stopping, Server!Run
  <2> QED
    BY <2>3, <2>4, <2>5
<1> QED
  BY <1>2, <1>6, <1>7, <1>8 DEF StopInv

(* http.Serve returns; when nothing is upset, because of a Stop. *)
LEMMA HttpServeEndsKeeps ==
    ASSUME PortInv, NEW g \in Server!Run, Server!HttpServeEnds(g)
    PROVE  PortInv' /\ (StopInv => StopInv')
<1>1. /\ srv \in ServerFields /\ caller \in [Caller -> CallerFields]
      /\ serve \in [Server!Run -> ServeFields]
      /\ OneOpens /\ Listening /\ Server!PortIsServed /\ ServerTyped
  BY PortFacts
<1> DEFINE open == IF srv.open = serve[g].by THEN 0 ELSE srv.open
<1>2. /\ serve[g].at = "accepting" /\ serve' = [serve EXCEPT ![g].at = "ended"]
      /\ UNCHANGED <<build, caller, panicked>> /\ upset' \in BOOLEAN
      /\ ~upset' => ~upset /\ srv.open # serve[g].by
      /\ upset => upset'
  BY <1>1, Zenon DEF Server!HttpServeEnds, Server!ServeAt, Server!Note, ServerTyped
<1>3. /\ srv' \in ServerFields /\ srv'.open = open
      /\ srv'.listener = srv.listener /\ srv'.wait = srv.wait /\ srv'.closed = srv.closed
      /\ srv'.db = srv.db /\ srv'.starts = srv.starts
  <2>1. srv' = [srv EXCEPT !.open = open]
    BY <1>1 DEF Server!HttpServeEnds, ServerFields
  <2>2. open \in 0..MaxStarts
    BY PortFacts, Numbers
  <2> HIDE DEF open
  <2> QED
    BY <1>1, <2>1, <2>2 DEF ServerFields
<1>5. /\ serve' \in [Server!Run -> ServeFields]
      /\ \A h \in Server!Run :
           /\ serve'[h].at = IF h = g THEN "ended" ELSE serve[h].at
           /\ serve'[h].by = serve[h].by /\ serve'[h].ch = serve[h].ch
  BY <1>1, <1>2 DEF ServeFields
<1>6. PortInv'
  <2>1. Server!TypeOK'
    BY <1>1, <1>2, <1>3, <1>5, ServerTypes DEF ServerTyped, Server!Run
  <2>2. OneOpens'
    BY <1>1, <1>2 DEF OneOpens, Opening, Server!Stopping
  <2>3. Listening'
    BY <1>1, <1>2, <1>3 DEF Listening, Server!Run
  <2>4. Server!PortIsServed'
    BY <1>1, <1>2, <1>3, <1>5 DEF Server!PortIsServed, Server!Run
  <2> QED
    BY <2>1, <2>2, <2>3, <2>4 DEF PortInv
<1>7. ASSUME build = "blocking", NoWait PROVE NoWait'
  BY <1>1, <1>2, <1>3, <1>5, <1>7 DEF NoWait, Server!Run
<1>8. ASSUME build # "blocking", ~upset', LastIsLive, StopIsOfLast, WaitIsOfLast
      PROVE  LastIsLive' /\ StopIsOfLast' /\ WaitIsOfLast'
  <2>1. Live(g) /\ Live(g)' /\ g = srv.starts /\ g # 0
    BY <1>2, <1>5, Numbers, <1>8 DEF Live, LastIsLive
  <2>2. \A h \in Server!Run : Live(h)' => h = g
    BY <1>2, <1>5, <1>8, <2>1 DEF LastIsLive, Live
  <2>3. /\ srv'.open = srv.open /\ serve[g].by = g /\ srv.listener = 0 /\ srv.open = 0
        /\ \E c \in Caller : caller[c].at \in {"stopped", "poll"}
    BY <1>2, <1>3, <1>8, <2>1 DEF LastIsLive
  <2>4. LastIsLive'
    BY <1>2, <1>3, <1>5, <1>8, <2>1, <2>2, <2>3 DEF LastIsLive, Opening, Live, Server!Run
  <2>5. StopIsOfLast'
    BY <1>2, <1>3, <1>5, <1>8, <2>3 DEF StopIsOfLast, Server!Stopping, Opening, Server!Run
  <2>6. WaitIsOfLast'
    <3>1. \A h \in Server!Run : h > srv.starts => serve'[h].at = "none"
      BY <1>2, <1>5, <1>8, <2>1, PortFacts DEF WaitIsOfLast, Server!Run
    <3>2. \A d \in Caller : ~Opening(d)
      BY <1>8, <2>1 DEF LastIsLive
    <3> QED
      BY <1>2, <1>3, <1>8, <2>1, <2>3, <3>1, <3>2
      DEF WaitIsOfLast, Opening, Server!Stopping, Server!Run
  <2> QED
    BY <2>4, <2>5, <2>6
<1> QED
  BY <1>2, <1>6, <1>7, <1>8 DEF StopInv

(* closeListener and closeDB: a Stop has taken the listener before. *)
LEMMA CloseAfterServeKeeps ==
    ASSUME PortInv, NEW g \in Server!Run, Server!CloseAfterServe(g)
    PROVE  PortInv' /\ (StopInv => StopInv')
<1>1. /\ srv \in ServerFields /\ caller \in [Caller -> CallerFields]
      /\ serve \in [Server!Run -> ServeFields]
      /\ OneOpens /\ Listening /\ Server!PortIsServed /\ ServerTyped
  BY PortFacts
<1> DEFINE sv1 == Server!CloseListener(srv)
           open == IF srv.open = srv.listener THEN 0 ELSE srv.open
<1>2. /\ serve[g].at = "ended" /\ serve' = [serve EXCEPT ![g].at = "closing"]
      /\ UNCHANGED <<build, caller, upset, panicked>>
      /\ srv' = [sv1 EXCEPT !.db = FALSE]
  BY DEF Server!CloseAfterServe, Server!ServeAt
<1>4. /\ sv1 \in ServerFields /\ sv1.open = open /\ sv1.listener = 0
      /\ sv1.wait = srv.wait /\ sv1.closed = srv.closed /\ sv1.starts = srv.starts
  BY <1>1, ListenerCloses
<1> HIDE DEF sv1
<1>3. /\ srv' \in ServerFields /\ srv'.open = open /\ srv'.listener = 0
      /\ srv'.wait = srv.wait /\ srv'.closed = srv.closed
      /\ ~srv'.db /\ srv'.starts = srv.starts
  BY <1>2, <1>4 DEF ServerFields
<1>5. /\ serve' \in [Server!Run -> ServeFields]
      /\ \A h \in Server!Run :
           /\ serve'[h].at = IF h = g THEN "closing" ELSE serve[h].at
           /\ serve'[h].by = serve[h].by /\ serve'[h].ch = serve[h].ch
  BY <1>1, <1>2 DEF ServeFields
<1>6. PortInv'
  <2>1. Server!TypeOK'
    BY <1>1, <1>2, <1>3, <1>5, ServerTypes DEF ServerTyped, Server!Run
  <2>2. OneOpens'
    BY <1>1, <1>2 DEF OneOpens, Opening, Server!Stopping
  <2>3. Listening'
    BY <1>1, <1>2, <1>3 DEF Listening, Server!Run
  <2>4. Server!PortIsServed'
    BY <1>1, <1>2, <1>3, <1>5 DEF Server!PortIsServed, Server!Run
  <2> QED
    BY <2>1, <2>2, <2>3, <2>4 DEF PortInv
<1>7. ASSUME build = "blocking", NoWait PROVE NoWait'
  BY <1>1, <1>2, <1>3, <1>5, <1>7 DEF NoWait, Server!Run
<1>8. ASSUME build # "blocking", ~upset', LastIsLive, StopIsOfLast, WaitIsOfLast
      PROVE  LastIsLive' /\ StopIsOfLast' /\ WaitIsOfLast'
  <2>1. Live(g) /\ Live(g)' /\ g = srv.starts /\ g # 0
    BY <1>2, <1>5, Numbers, <1>8 DEF Live, LastIsLive
  <2>2. \A h \in Server!Run : Live(h)' => h = g
    BY <1>2, <1>5, <1>8, <2>1 DEF LastIsLive, Live
  <2>3. /\ srv'.open = 0 /\ serve[g].by = g /\ srv.listener = 0 /\ srv.open = 0
        /\ \E c \in Caller : caller[c].at \in {"stopped", "poll"}
    BY <1>2, <1>3, <1>8, <2>1 DEF LastIsLive
  <2>4. LastIsLive'
    BY <1>2, <1>3, <1>5, <1>8, <2>1, <2>2, <2>3 DEF LastIsLive, Opening, Live, Server!Run
  <2>5. StopIsOfLast'
    BY <1>2, <1>3, <1>5, <1>8, <2>3 DEF StopIsOfLast, Server!Stopping, Opening, Server!Run
  <2>6. WaitIsOfLast'
    <3>1. \A h \in Server!Run : h > srv.starts => serve'[h].at = "none"
      BY <1>2, <1>5, <1>8, <2>1, PortFacts DEF WaitIsOfLast, Server!Run
    <3>2. \A d \in Caller : ~Opening(d)
      BY <1>8, <2>1 DEF LastIsLive
    <3> QED
      BY <1>2, <1>3, <1>8, <2>1, <2>3, <3>1, <3>2
      DEF WaitIsOfLast, Opening, Server!Stopping, Server!Run
  <2> QED
    BY <2>4, <2>5, <2>6
<1> QED
  BY <1>2, <1>6, <1>7, <1>8 DEF StopInv

(* serve finds wait, the channel of its own Start. *)
LEMMA CheckWaitKeeps ==
    ASSUME PortInv, NEW g \in Server!Run, Server!CheckWait(g)
    PROVE  PortInv' /\ (StopInv => StopInv')
<1>1. /\ srv \in ServerFields /\ caller \in [Caller -> CallerFields]
      /\ serve \in [Server!Run -> ServeFields]
      /\ OneOpens /\ Listening /\ Server!PortIsServed /\ ServerTyped
  BY PortFacts
<1> DEFINE to == IF srv.wait = 0 THEN "done" ELSE "tell"
<1>2. /\ serve[g].at = "closing" /\ serve' = [serve EXCEPT ![g].at = to]
      /\ UNCHANGED <<build, srv, caller, upset, panicked>>
  BY DEF Server!CheckWait, Server!ServeAt
<1>3. /\ srv' \in ServerFields /\ caller' \in [Caller -> CallerFields]
      /\ srv' = srv /\ caller' = caller
  BY <1>1, <1>2
<1>5. /\ serve' \in [Server!Run -> ServeFields]
      /\ \A h \in Server!Run :
           /\ serve'[h].at = IF h = g THEN to ELSE serve[h].at
           /\ serve'[h].by = serve[h].by /\ serve'[h].ch = serve[h].ch
  BY <1>1, <1>2 DEF ServeFields
<1>6. PortInv'
  <2>1. Server!TypeOK'
    BY <1>1, <1>2, <1>3, <1>5, ServerTypes DEF ServerTyped, Server!Run
  <2>2. OneOpens'
    BY <1>1, <1>3 DEF OneOpens, Opening, Server!Stopping
  <2>3. Listening'
    BY <1>1, <1>3 DEF Listening, Server!Run
  <2>4. Server!PortIsServed'
    BY <1>1, <1>2, <1>3, <1>5 DEF Server!PortIsServed, Server!Run
  <2> QED
    BY <2>1, <2>2, <2>3, <2>4 DEF PortInv
<1>7. ASSUME build = "blocking", NoWait PROVE NoWait'
  BY <1>1, <1>2, <1>3, <1>5, <1>7 DEF NoWait, Server!Run
<1>8. ASSUME build # "blocking", ~upset', LastIsLive, StopIsOfLast, WaitIsOfLast
      PROVE  LastIsLive' /\ StopIsOfLast' /\ WaitIsOfLast'
  <2>1. Live(g) /\ g = srv.starts /\ g # 0 /\ srv.wait = g
    BY <1>2, Numbers, <1>8 DEF Live, LastIsLive
  <2>2. /\ Live(g)' /\ \A h \in Server!Run : Live(h)' => h = g
    BY <1>2, <1>5, <1>8, <2>1 DEF LastIsLive, Live
  <2>4. LastIsLive'
    BY <1>2, <1>3, <1>5, <1>8, <2>1, <2>2 DEF LastIsLive, Opening, Live, Server!Run
  <2>5. StopIsOfLast'
    BY <1>2, <1>3, <1>5, <1>8 DEF StopIsOfLast, Server!Stopping, Opening, Server!Run
  <2>6. WaitIsOfLast'
    <3>1. \A h \in Server!Run : h > srv.starts => serve'[h].at = "none"
      BY <1>2, <1>5, <1>8, <2>1, PortFacts DEF WaitIsOfLast, Server!Run
    <3>2. \A d \in Caller : ~Opening(d)
      BY <1>8, <2>1 DEF LastIsLive
    <3> QED
      BY <1>2, <1>3, <1>8, <2>1, <2>2, <3>1, <3>2
      DEF WaitIsOfLast, Opening, Server!Stopping, Server!Run
  <2> QED
    BY <2>4, <2>5, <2>6
<1> QED
  BY <1>2, <1>6, <1>7, <1>8 DEF StopInv

(* serve begins to send on it. *)
LEMMA TellKeeps ==
    ASSUME PortInv, NEW g \in Server!Run, Server!Tell(g)
    PROVE  PortInv' /\ (StopInv => StopInv')
<1>1. /\ srv \in ServerFields /\ caller \in [Caller -> CallerFields]
      /\ serve \in [Server!Run -> ServeFields]
      /\ OneOpens /\ Listening /\ Server!PortIsServed /\ ServerTyped
  BY PortFacts
<1> DEFINE sv1 == [serve EXCEPT ![g].at = "sending"]
<1>2. serve[g].at = "tell" /\ UNCHANGED <<build, srv, caller, upset, panicked>>
  BY DEF Server!Tell
<1>3. /\ srv' \in ServerFields /\ caller' \in [Caller -> CallerFields]
      /\ srv' = srv /\ caller' = caller
  BY <1>1, <1>2
<1>4. /\ sv1 \in [Server!Run -> ServeFields]
      /\ \A h \in Server!Run :
           /\ sv1[h].at = IF h = g THEN "sending" ELSE serve[h].at
           /\ sv1[h].by = serve[h].by /\ sv1[h].ch = serve[h].ch
  BY <1>1 DEF ServeFields
<1>5. /\ serve' \in [Server!Run -> ServeFields]
      /\ \A h \in Server!Run :
           /\ serve'[h].at = IF h = g THEN "sending" ELSE serve[h].at
           /\ serve'[h].by = serve[h].by
           /\ serve'[h].ch = IF h = g THEN srv.wait ELSE serve[h].ch
  <2>1. serve' = [sv1 EXCEPT ![g].ch = srv.wait]
    BY <1>1 DEF Server!Tell, ServeFields
  <2>2. srv.wait \in 0..MaxStarts
    BY PortFacts
  <2> HIDE DEF sv1
  <2> QED
    BY <1>4, <2>1, <2>2 DEF ServeFields
<1>6. PortInv'
  <2>1. Server!TypeOK'
    BY <1>1, <1>2, <1>3, <1>5, ServerTypes DEF ServerTyped, Server!Run
  <2>2. OneOpens'
    BY <1>1, <1>3 DEF OneOpens, Opening, Server!Stopping
  <2>3. Listening'
    BY <1>1, <1>3 DEF Listening, Server!Run
  <2>4. Server!PortIsServed'
    BY <1>1, <1>2, <1>3, <1>5 DEF Server!PortIsServed, Server!Run
  <2> QED
    BY <2>1, <2>2, <2>3, <2>4 DEF PortInv
<1>7. ASSUME build = "blocking", NoWait PROVE NoWait'
  BY <1>1, <1>2, <1>3, <1>5, <1>7 DEF NoWait, Server!Run
<1>8. ASSUME build # "blocking", ~upset', LastIsLive, StopIsOfLast, WaitIsOfLast
      PROVE  LastIsLive' /\ StopIsOfLast' /\ WaitIsOfLast'
  <2>1. Live(g) /\ Live(g)' /\ g = srv.starts /\ g # 0
    BY <1>2, <1>5, Numbers, <1>8 DEF Live, LastIsLive
  <2>2. \A h \in Server!Run : Live(h)' => h = g
    BY <1>2, <1>5, <1>8, <2>1 DEF LastIsLive, Live
  <2>4. LastIsLive'
    BY <1>2, <1>3, <1>5, <1>8, <2>1, <2>2 DEF LastIsLive, Opening, Live, Server!Run
  <2>5. StopIsOfLast'
    BY <1>2, <1>3, <1>5, <1>8 DEF StopIsOfLast, Server!Stopping, Opening, Server!Run
  <2>6. WaitIsOfLast'
    <3>1. \A h \in Server!Run : h > srv.starts => serve'[h].at = "none"
      BY <1>2, <1>5, <1>8, <2>1, PortFacts DEF WaitIsOfLast, Server!Run
    <3>2. \A d \in Caller : ~Opening(d)
      BY <1>8, <2>1 DEF LastIsLive
    <3>3. srv.wait = g
      BY <1>8, <2>1 DEF LastIsLive
    <3> QED
      BY <1>2, <1>3, <1>8, <2>1, <3>1, <3>2, <3>3
      DEF WaitIsOfLast, Opening, Server!Stopping, Server!Run
  <2> QED
    BY <2>4, <2>5, <2>6
<1> QED
  BY <1>2, <1>6, <1>7, <1>8 DEF StopInv

(* It is not closed: the send does not panic. *)
LEMMA SendPanicsKeeps ==
    ASSUME PortInv, NEW g \in Server!Run, Server!SendPanics(g)
    PROVE  PortInv' /\ (StopInv => StopInv')
<1>1. /\ srv \in ServerFields /\ caller \in [Caller -> CallerFields]
      /\ serve \in [Server!Run -> ServeFields]
      /\ OneOpens /\ Listening /\ Server!PortIsServed /\ ServerTyped
  BY PortFacts
<1>2. /\ serve[g].at = "sending" /\ serve' = [serve EXCEPT ![g].at = "dead"]
      /\ serve[g].ch \in srv.closed /\ panicked'
      /\ UNCHANGED <<build, srv, caller, upset>>
  BY DEF Server!SendPanics, Server!ServeAt
<1>3. /\ srv' \in ServerFields /\ caller' \in [Caller -> CallerFields]
      /\ srv' = srv /\ caller' = caller
  BY <1>1, <1>2
<1>5. /\ serve' \in [Server!Run -> ServeFields]
      /\ \A h \in Server!Run :
           /\ serve'[h].at = IF h = g THEN "dead" ELSE serve[h].at
           /\ serve'[h].by = serve[h].by /\ serve'[h].ch = serve[h].ch
  BY <1>1, <1>2 DEF ServeFields
<1>6. PortInv'
  <2>1. Server!TypeOK'
    BY <1>1, <1>2, <1>3, <1>5, ServerTypes DEF ServerTyped, Server!Run
  <2>2. OneOpens'
    BY <1>1, <1>3 DEF OneOpens, Opening, Server!Stopping
  <2>3. Listening'
    BY <1>1, <1>3 DEF Listening, Server!Run
  <2>4. Server!PortIsServed'
    BY <1>1, <1>2, <1>3, <1>5 DEF Server!PortIsServed, Server!Run
  <2> QED
    BY <2>1, <2>2, <2>3, <2>4 DEF PortInv
<1>7. ASSUME build = "blocking", NoWait PROVE NoWait'
  BY <1>1, <1>2, <1>3, <1>5, <1>7 DEF NoWait, Server!Run
<1>8. ASSUME build # "blocking", ~upset', LastIsLive, StopIsOfLast, WaitIsOfLast
      PROVE  LastIsLive' /\ StopIsOfLast' /\ WaitIsOfLast'
  <2>1. Live(g) /\ serve[g].ch = g /\ srv.wait = g /\ g # 0
    BY <1>2, <1>8, Numbers DEF Live, LastIsLive
  <2>2. srv.wait \notin srv.closed
    BY <1>8, <2>1 DEF WaitIsOfLast
  <2> QED
    BY <1>2, <2>1, <2>2
<1> QED
  BY <1>2, <1>6, <1>7, <1>8 DEF StopInv

(* Stop takes the listener, which is of the last Start. *)
LEMMA StopServerStops ==
    ASSUME PortInv, NEW c \in Caller, Server!StopServer(c),
           srv.listener # 0, srv.open = srv.listener
    PROVE  PortInv' /\ (StopInv => StopInv')
<1>1. /\ srv \in ServerFields /\ caller \in [Caller -> CallerFields]
      /\ serve \in [Server!Run -> ServeFields]
      /\ OneOpens /\ Listening /\ Server!PortIsServed /\ ServerTyped
  BY PortFacts
<1> DEFINE cl1 == [caller EXCEPT ![c].at = "stopped"]
           open == IF srv.open = srv.listener THEN 0 ELSE srv.open
<1>2. /\ caller[c].at = "idle" /\ \A d \in Caller : ~Server!Stopping(d)
      /\ UNCHANGED <<build, serve, upset, panicked>>
      /\ srv' = Server!CloseListener(srv)
      /\ caller' = [caller EXCEPT ![c].at = "stopped", ![c].mine = srv.listener]
  BY DEF Server!StopServer
<1>3. /\ cl1 \in [Caller -> CallerFields]
      /\ \A d \in Caller :
           /\ cl1[d].at = IF d = c THEN "stopped" ELSE caller[d].at
           /\ cl1[d].mine = caller[d].mine /\ cl1[d].polls = caller[d].polls
  BY <1>1 DEF CallerFields
<1>4. caller' = [cl1 EXCEPT ![c].mine = srv.listener]
  BY <1>1, <1>2 DEF CallerFields
<1> HIDE DEF cl1
<1>5. /\ caller' \in [Caller -> CallerFields]
      /\ \A d \in Caller :
           /\ caller'[d].at = IF d = c THEN "stopped" ELSE caller[d].at
           /\ caller'[d].mine = IF d = c THEN srv.listener ELSE caller[d].mine
           /\ caller'[d].polls = caller[d].polls
  <2>1. srv.listener \in 0..MaxStarts
    BY PortFacts
  <2> QED
    BY <1>3, <1>4, <2>1 DEF CallerFields
<1>6. /\ srv' \in ServerFields /\ srv'.open = open /\ srv'.listener = 0
      /\ srv'.wait = srv.wait /\ srv'.closed = srv.closed
      /\ srv'.db = srv.db /\ srv'.starts = srv.starts
  BY <1>1, <1>2, ListenerCloses
<1>7. PortInv'
  <2>1. Server!TypeOK'
    BY <1>1, <1>2, <1>5, <1>6, ServerTypes DEF ServerTyped, Server!Run
  <2>2. OneOpens'
    BY <1>1, <1>2, <1>5 DEF OneOpens, Opening, Server!Stopping
  <2>3. Listening'
    BY <1>1, <1>5, <1>6 DEF Listening, Server!Run
  <2>4. Server!PortIsServed'
    BY <1>1, <1>2, <1>5, <1>6 DEF Server!PortIsServed, Server!Run
  <2> QED
    BY <2>1, <2>2, <2>3, <2>4 DEF PortInv
<1>8. ASSUME NoWait PROVE NoWait'
  BY <1>2, <1>5, <1>6, <1>8 DEF NoWait, Server!Run
<1>9. ASSUME LastIsLive, StopIsOfLast, WaitIsOfLast
      PROVE  LastIsLive' /\ StopIsOfLast' /\ WaitIsOfLast'
  <2>1. /\ srv.listener = srv.starts /\ srv.starts \in Server!Run
        /\ \A d \in Caller : caller[d].at \notin {"starting", "listening"}
        /\ srv'.open = 0
    BY <1>6, <1>9, Numbers, PortFacts DEF WaitIsOfLast
  <2>2. \A d \in Caller : Opening(d)' <=> Opening(d)
    BY <1>2, <1>5 DEF Opening
  <2>3. \A g \in Server!Run : Live(g)' <=> Live(g)
    BY <1>2 DEF Live
  <2>4. LastIsLive'
    BY <1>2, <1>5, <1>6, <1>9, <2>1, <2>2, <2>3 DEF LastIsLive, Server!Run
  <2>5. \A d \in Caller : Server!Stopping(d)' <=> d = c
    BY <1>2, <1>5 DEF Server!Stopping
  <2>6. StopIsOfLast'
    BY <1>2, <1>5, <1>6, <2>1, <2>5 DEF StopIsOfLast, Server!Run
  <2>7. WaitIsOfLast'
    BY <1>2, <1>5, <1>6, <1>9, <2>1, <2>2, <2>5 DEF WaitIsOfLast, Server!Run
  <2> QED
    BY <2>4, <2>6, <2>7
<1> QED
  BY <1>2, <1>7, <1>8, <1>9 DEF StopInv

(* A Stop that finds no listener. *)
LEMMA StopServerFindsNone ==
    ASSUME PortInv, NEW c \in Caller, Server!StopServer(c), srv.listener = 0
    PROVE  PortInv' /\ (StopInv => StopInv')
<1>1. /\ srv \in ServerFields /\ caller \in [Caller -> CallerFields]
      /\ serve \in [Server!Run -> ServeFields]
      /\ OneOpens /\ Listening /\ Server!PortIsServed /\ ServerTyped
  BY PortFacts
<1>2. /\ caller[c].at = "idle" /\ UNCHANGED <<build, caller, serve, upset, panicked>>
      /\ srv' = Server!CloseListener(srv)
  BY DEF Server!StopServer
<1>3. /\ srv' \in ServerFields /\ srv'.open = srv.open /\ srv'.listener = srv.listener
      /\ srv'.wait = srv.wait /\ srv'.closed = srv.closed
      /\ srv'.db = srv.db /\ srv'.starts = srv.starts
  BY <1>1, <1>2, ListenerCloses
<1> QED
  BY <1>1, <1>2, <1>3, CallersMove

(* A Stop that finds a listener which http.Serve has closed. *)
LEMMA StopServerFindsClosed ==
    ASSUME PortInv, NEW c \in Caller, Server!StopServer(c),
           srv.listener # 0, srv.open # srv.listener
    PROVE  PortInv' /\ (StopInv => StopInv')
<1>1. /\ srv \in ServerFields /\ caller \in [Caller -> CallerFields]
      /\ serve \in [Server!Run -> ServeFields]
      /\ OneOpens /\ Listening /\ Server!PortIsServed /\ ServerTyped
  BY PortFacts
<1>2. /\ \A d \in Caller : ~Server!Stopping(d)
      /\ UNCHANGED <<build, caller, serve, upset, panicked>>
      /\ srv' = Server!CloseListener(srv)
  BY DEF Server!StopServer
<1>3. /\ srv' \in ServerFields /\ srv'.open = srv.open /\ srv'.listener = 0
      /\ srv'.wait = srv.wait /\ srv'.closed = srv.closed
      /\ srv'.db = srv.db /\ srv'.starts = srv.starts
  BY <1>1, <1>2, ListenerCloses
<1>4. PortInv'
  <2>1. Server!TypeOK'
    BY <1>1, <1>2, <1>3, ServerTypes DEF ServerTyped, Server!Run
  <2>2. OneOpens'
    BY <1>1, <1>2 DEF OneOpens, Opening, Server!Stopping
  <2>3. Listening'
    BY <1>1, <1>2, <1>3 DEF Listening, Server!Run
  <2>4. Server!PortIsServed'
    BY <1>1, <1>2, <1>3 DEF Server!PortIsServed, Server!Run
  <2> QED
    BY <2>1, <2>2, <2>3, <2>4 DEF PortInv
<1>5. ASSUME NoWait PROVE NoWait'
  BY <1>2, <1>3, <1>5 DEF NoWait, Server!Run
<1>6. ASSUME LastIsLive, StopIsOfLast, WaitIsOfLast
      PROVE  LastIsLive' /\ StopIsOfLast' /\ WaitIsOfLast'
  <2>1. \A g \in Server!Run : ~Live(g) /\ ~Live(g)'
    BY <1>2, <1>6 DEF LastIsLive, Live
  <2>2. /\ \A d \in Caller : ~Opening(d) /\ ~Opening(d)'
        /\ srv.open = 0 /\ srv.starts \in Server!Run
    BY <1>1, <1>2, <1>6, Numbers, PortFacts DEF WaitIsOfLast, Opening
  <2>3. srv.wait = 0
    BY <1>2, <1>6, <2>1, <2>2 DEF WaitIsOfLast
  <2>4. LastIsLive' /\ StopIsOfLast'
    BY <1>2, <2>1 DEF LastIsLive, StopIsOfLast, Server!Stopping, Server!Run
  <2>5. WaitIsOfLast'
    BY <1>2, <1>3, <1>6, <2>2, <2>3 DEF WaitIsOfLast, Opening, Server!Run
  <2> QED
    BY <2>4, <2>5
<1> QED
  BY <1>2, <1>4, <1>5, <1>6 DEF StopInv

(* Stop looks at wait. *)
LEMMA LookAtWaitKeeps ==
    ASSUME PortInv, NEW c \in Caller, Server!LookAtWait(c)
    PROVE  PortInv' /\ (StopInv => StopInv')
<1>1. /\ srv \in ServerFields /\ caller \in [Caller -> CallerFields]
      /\ serve \in [Server!Run -> ServeFields]
      /\ OneOpens /\ Listening /\ Server!PortIsServed /\ ServerTyped
  BY PortFacts
<1> DEFINE to == IF srv.wait = 0 THEN "idle" ELSE "poll"
           cl1 == [caller EXCEPT ![c].at = to]
<1>2. /\ caller[c].at = "stopped" /\ UNCHANGED <<build, srv, serve, panicked>>
      /\ upset' \in BOOLEAN /\ (upset => upset')
      /\ ~upset' /\ build # "blocking" => srv.wait # 0
      /\ caller' = [caller EXCEPT ![c].at = to, ![c].polls = 0]
  BY <1>1, Zenon DEF Server!LookAtWait, Server!Note, ServerTyped
<1>3. /\ caller' \in [Caller -> CallerFields]
      /\ \A d \in Caller :
           /\ caller'[d].at = IF d = c THEN to ELSE caller[d].at
           /\ caller'[d].mine = caller[d].mine
           /\ caller'[d].polls = IF d = c THEN 0 ELSE caller[d].polls
  <2>1. /\ cl1 \in [Caller -> CallerFields]
        /\ \A d \in Caller :
             /\ cl1[d].at = IF d = c THEN to ELSE caller[d].at
             /\ cl1[d].mine = caller[d].mine /\ cl1[d].polls = caller[d].polls
    BY <1>1 DEF CallerFields
  <2>2. caller' = [cl1 EXCEPT ![c].polls = 0]
    BY <1>1, <1>2 DEF CallerFields
  <2>3. 0 \in 0..Polls
    BY ServicesAssumption
  <2> HIDE DEF cl1
  <2> QED
    BY <2>1, <2>2, <2>3 DEF CallerFields
<1>4. srv' \in ServerFields /\ srv' = srv
  BY <1>1, <1>2
<1>5. serve' \in [Server!Run -> ServeFields] /\ serve' = serve
  BY <1>1, <1>2
<1>6. PortInv'
  <2>1. Server!TypeOK'
    BY <1>1, <1>2, <1>3, <1>4, <1>5, ServerTypes DEF ServerTyped, Server!Run
  <2>2. OneOpens'
    BY <1>1, <1>2, <1>3, <1>4 DEF OneOpens, Opening, Server!Stopping
  <2>3. Listening'
    BY <1>1, <1>2, <1>3, <1>4, ServicesAssumption DEF Listening, Server!Run
  <2>4. Server!PortIsServed'
    BY <1>1, <1>2, <1>3, <1>4, <1>5 DEF Server!PortIsServed, Server!Run
  <2> QED
    BY <2>1, <2>2, <2>3, <2>4 DEF PortInv
<1>7. ASSUME build = "blocking", NoWait PROVE NoWait'
  BY <1>1, <1>2, <1>3, <1>4, <1>5, <1>7 DEF NoWait, Server!Run
<1>8. ASSUME build # "blocking", ~upset', LastIsLive, StopIsOfLast, WaitIsOfLast
      PROVE  LastIsLive' /\ StopIsOfLast' /\ WaitIsOfLast'
  <2>1. /\ srv.wait = srv.starts /\ to = "poll"
        /\ \A d \in Caller : ~Opening(d)
    BY <1>2, <1>8 DEF WaitIsOfLast
  <2>2. \A d \in Caller :
          /\ Opening(d)' <=> Opening(d)
          /\ Server!Stopping(d)' <=> Server!Stopping(d)
          /\ caller'[d].at \in {"stopped", "poll"} <=> caller[d].at \in {"stopped", "poll"}
    BY <1>2, <1>3, <2>1 DEF Opening, Server!Stopping
  <2>3. LastIsLive'
    <3>1. (\E d \in Caller : caller'[d].at \in {"stopped", "poll"})
            <=> \E d \in Caller : caller[d].at \in {"stopped", "poll"}
      BY <2>2
    <3>2. \A g \in Server!Run : Live(g)' <=> Live(g)
      BY <1>2 DEF Live
    <3>3. \A d \in Caller : ~Opening(d)'
      BY <2>1, <2>2
    <3>4. srv' = srv /\ serve' = serve
      BY <1>2
    <3> QED
      BY <1>8, <3>1, <3>2, <3>3, <3>4 DEF LastIsLive, Server!Run
  <2>4. StopIsOfLast'
    <3>1. \A d \in Caller :
            /\ caller'[d].mine = caller[d].mine
            /\ caller'[d].at \notin {"starting", "listening"}
            /\ caller'[d].at = "received" => caller[d].at = "received"
      BY <1>2, <1>3, <2>1, <2>2 DEF Opening
    <3>2. srv' = srv /\ serve' = serve /\ \A d \in Caller : ~Opening(d)'
      BY <1>2, <2>1, <2>2
    <3> QED
      BY <1>8, <2>1, <2>2, <3>1, <3>2 DEF StopIsOfLast, Server!Run
  <2>5. WaitIsOfLast'
    <3>1. \A d \in Caller : caller'[d].at \notin {"starting", "listening", "listens"}
      BY <2>1, <2>2 DEF Opening
    <3> QED
      BY <1>2, <1>8, <2>1, <2>2, <3>1 DEF WaitIsOfLast, Live, Opening, Server!Run
  <2> QED
    BY <2>3, <2>4, <2>5
<1> QED
  BY <1>2, <1>6, <1>7, <1>8 DEF StopInv

(* Stop receives from the serve of the last Start, which is through. *)
LEMMA ReceiveKeeps ==
    ASSUME PortInv, NEW c \in Caller, Server!Receive(c)
    PROVE  PortInv' /\ (StopInv => StopInv')
<1>1. /\ srv \in ServerFields /\ caller \in [Caller -> CallerFields]
      /\ serve \in [Server!Run -> ServeFields]
      /\ OneOpens /\ Listening /\ Server!PortIsServed /\ ServerTyped
  BY PortFacts
<1>2. /\ caller[c].at = "poll" /\ UNCHANGED <<build, srv, upset, panicked>>
      /\ caller' = [caller EXCEPT ![c].at = "received"]
  BY DEF Server!Receive, Server!CallerAt
<1>3. PICK g \in Server!Run :
        /\ srv.wait # 0 /\ serve[g].at = "sending" /\ serve[g].ch = srv.wait
        /\ serve' = [serve EXCEPT ![g].at = "done"]
  BY DEF Server!Receive, Server!Senders, Server!ServeAt
<1>4. /\ caller' \in [Caller -> CallerFields]
      /\ \A d \in Caller :
           /\ caller'[d].at = IF d = c THEN "received" ELSE caller[d].at
           /\ caller'[d].mine = caller[d].mine /\ caller'[d].polls = caller[d].polls
  BY <1>1, <1>2 DEF CallerFields
<1>5. /\ serve' \in [Server!Run -> ServeFields]
      /\ \A h \in Server!Run :
           /\ serve'[h].at = IF h = g THEN "done" ELSE serve[h].at
           /\ serve'[h].by = serve[h].by /\ serve'[h].ch = serve[h].ch
  BY <1>1, <1>3 DEF ServeFields
<1>6. PortInv'
  <2>1. Server!TypeOK'
    BY <1>1, <1>2, <1>4, <1>5, ServerTypes DEF ServerTyped, Server!Run
  <2>2. OneOpens'
    BY <1>1, <1>2, <1>4 DEF OneOpens, Opening, Server!Stopping
  <2>3. Listening'
    BY <1>1, <1>2, <1>4 DEF Listening, Server!Run
  <2>4. Server!PortIsServed'
    BY <1>1, <1>2, <1>3, <1>4, <1>5 DEF Server!PortIsServed, Server!Run
  <2> QED
    BY <2>1, <2>2, <2>3, <2>4 DEF PortInv
<1>7. ~NoWait
  BY <1>3 DEF NoWait
<1>8. ASSUME LastIsLive, StopIsOfLast, WaitIsOfLast
      PROVE  LastIsLive' /\ StopIsOfLast' /\ WaitIsOfLast'
  <2>1. /\ Live(g) /\ g = srv.starts /\ srv.wait = g /\ ~srv.db /\ serve[g].by = g
        /\ \A d \in Caller : ~Opening(d)
    BY <1>3, <1>8 DEF LastIsLive, Live
  <2>2. \A h \in Server!Run : ~Live(h)'
    BY <1>5, <1>8, <2>1 DEF LastIsLive, Live
  <2>3. \A d \in Caller : ~Opening(d)'
    BY <1>4, <2>1 DEF Opening
  <2>4. \A d \in Caller : Server!Stopping(d) <=> d = c
    BY <1>1, <1>2 DEF OneOpens, Server!Stopping
  <2>5. \A d \in Caller : Server!Stopping(d)' <=> d = c
    BY <1>4, <2>4 DEF Server!Stopping
  <2>6. LastIsLive'
    BY <2>2 DEF LastIsLive, Server!Run
  <2>7. StopIsOfLast'
    <3>1. /\ caller'[c].mine = srv.starts /\ srv.listener = 0 /\ srv.open = 0
          /\ caller'[c].at = "received"
      BY <1>4, <1>8, <2>4 DEF StopIsOfLast
    <3>2. serve'[g].at = "done" /\ serve'[g].by = g
      BY <1>5, <2>1
    <3>3. \A d \in Caller : caller'[d].at \notin {"starting", "listening"}
      BY <2>3 DEF Opening
    <3> QED
      BY <1>2, <2>1, <2>3, <2>5, <3>1, <3>2, <3>3 DEF StopIsOfLast, Server!Run
  <2>8. WaitIsOfLast'
    <3>1. \A d \in Caller : caller'[d].at \notin {"starting", "listening", "listens"}
      BY <2>3 DEF Opening
    <3>2. \A h \in Server!Run : h > srv.starts => serve'[h].at = "none"
      BY <1>5, <1>8, <2>1, PortFacts DEF WaitIsOfLast, Server!Run
    <3>3. \A d \in Caller : caller[d].at # "listening"
      BY <2>1 DEF Opening
    <3> QED
      BY <1>2, <1>8, <2>3, <2>5, <3>1, <3>2, <3>3 DEF WaitIsOfLast, Server!Run
  <2> QED
    BY <2>6, <2>7, <2>8
<1> QED
  BY <1>2, <1>6, <1>7, <1>8 DEF StopInv

(* Stop looks again, or gives up. *)
LEMMA PollAgainKeeps ==
    ASSUME PortInv, NEW c \in Caller, Server!PollAgain(c)
    PROVE  PortInv' /\ (StopInv => StopInv')
<1>1. /\ srv \in ServerFields /\ caller \in [Caller -> CallerFields]
      /\ serve \in [Server!Run -> ServeFields]
      /\ OneOpens /\ Listening /\ Server!PortIsServed /\ ServerTyped
  BY PortFacts
<1> DEFINE last == Server!Last(caller[c].polls)
           to == IF last THEN "idle" ELSE "poll"
           n == caller[c].polls + 1
           cl1 == [caller EXCEPT ![c].at = to]
<1>2. /\ caller[c].at = "poll" /\ UNCHANGED <<build, serve, panicked>>
      /\ upset' \in BOOLEAN /\ (upset => upset') /\ (~upset' => ~last)
      /\ caller' = [caller EXCEPT ![c].at = to, ![c].polls = @ + 1]
      /\ srv' = [srv EXCEPT !.db = @ /\ ~last]
  BY <1>1, Zenon DEF Server!PollAgain, Server!Note, ServerTyped
<1>3. /\ caller' \in [Caller -> CallerFields]
      /\ \A d \in Caller :
           /\ caller'[d].at = IF d = c THEN to ELSE caller[d].at
           /\ caller'[d].mine = caller[d].mine
           /\ caller'[d].polls = IF d = c THEN n ELSE caller[d].polls
      /\ ~last => n < Polls
  <2>1. /\ cl1 \in [Caller -> CallerFields]
        /\ \A d \in Caller :
             /\ cl1[d].at = IF d = c THEN to ELSE caller[d].at
             /\ cl1[d].mine = caller[d].mine /\ cl1[d].polls = caller[d].polls
    BY <1>1 DEF CallerFields
  <2>2. caller' = [cl1 EXCEPT ![c].polls = n]
    BY <1>1, <1>2 DEF CallerFields
  <2>3. caller[c].polls \in 0..Polls /\ caller[c].polls < Polls
    BY <1>1, <1>2 DEF CallerFields, Listening
  <2>4. n \in 0..Polls /\ (~last => n < Polls)
    BY <2>3, ServicesAssumption DEF Server!Last
  <2> HIDE DEF cl1, last, n
  <2> QED
    BY <2>1, <2>2, <2>4 DEF CallerFields
<1>4. /\ srv' \in ServerFields /\ srv'.listener = srv.listener /\ srv'.wait = srv.wait
      /\ srv'.closed = srv.closed /\ srv'.starts = srv.starts /\ srv'.open = srv.open
      /\ ~srv.db => ~srv'.db
  <2> DEFINE db == srv.db /\ ~last
  <2>1. db \in BOOLEAN /\ (~srv.db => ~db)
    OBVIOUS
  <2>2. srv' = [srv EXCEPT !.db = db]
    BY <1>1, <1>2 DEF ServerFields
  <2> HIDE DEF db, last
  <2> QED
    BY <1>1, <2>1, <2>2 DEF ServerFields
<1>5. serve' \in [Server!Run -> ServeFields] /\ serve' = serve
  BY <1>1, <1>2
<1> HIDE DEF last, n
<1>6. PortInv'
  <2>1. Server!TypeOK'
    BY <1>1, <1>2, <1>3, <1>4, <1>5, ServerTypes DEF ServerTyped, Server!Run
  <2>2. OneOpens'
    BY <1>1, <1>2, <1>3, <1>4 DEF OneOpens, Opening, Server!Stopping
  <2>3. Listening'
    BY <1>1, <1>2, <1>3, <1>4, ServicesAssumption DEF Listening, Server!Run
  <2>4. Server!PortIsServed'
    BY <1>1, <1>2, <1>3, <1>4, <1>5 DEF Server!PortIsServed, Server!Run
  <2> QED
    BY <2>1, <2>2, <2>3, <2>4 DEF PortInv
<1>7. ASSUME build = "blocking", NoWait PROVE NoWait'
  BY <1>2, <1>7 DEF NoWait
<1>8. ASSUME build # "blocking", ~upset', LastIsLive, StopIsOfLast, WaitIsOfLast
      PROVE  LastIsLive' /\ StopIsOfLast' /\ WaitIsOfLast'
  <2>1. \A d \in Caller : caller'[d].at = caller[d].at /\ caller'[d].mine = caller[d].mine
    BY <1>2, <1>3, <1>8
  <2>2. \A d \in Caller :
          /\ Opening(d)' <=> Opening(d)
          /\ Server!Stopping(d)' <=> Server!Stopping(d)
    BY <2>1 DEF Opening, Server!Stopping
  <2>3. LastIsLive'
    BY <1>2, <1>4, <1>8, <2>1, <2>2 DEF LastIsLive, Live, Server!Run
  <2>4. StopIsOfLast'
    BY <1>2, <1>4, <1>8, <2>1, <2>2 DEF StopIsOfLast, Server!Run
  <2>5. WaitIsOfLast'
    <3>1. serve' = serve /\ panicked' = panicked /\ Live(srv.wait)' = Live(srv.wait)
      BY <1>2, <1>4 DEF Live
    <3> QED
      BY <1>4, <1>8, <2>1, <2>2, <3>1 DEF WaitIsOfLast, Server!Run
  <2> QED
    BY <2>3, <2>4, <2>5
<1> QED
  BY <1>2, <1>6, <1>7, <1>8 DEF StopInv

(* Stop closes the channel it received on, which nothing waits for. *)
LEMMA StopReturnsKeeps ==
    ASSUME PortInv, NEW c \in Caller, Server!StopReturns(c)
    PROVE  PortInv' /\ (StopInv => StopInv')
<1>1. /\ srv \in ServerFields /\ caller \in [Caller -> CallerFields]
      /\ serve \in [Server!Run -> ServeFields]
      /\ OneOpens /\ Listening /\ Server!PortIsServed /\ ServerTyped
  BY PortFacts
<1>2. /\ caller[c].at = "received" /\ UNCHANGED <<build, serve, upset>>
      /\ caller' = [caller EXCEPT ![c].at = "idle"]
      /\ panicked' \in BOOLEAN
      /\ ~panicked /\ srv.wait \notin srv.closed /\ srv.wait # 0 => ~panicked'
      /\ srv' = [srv EXCEPT !.closed = @ \cup {srv.wait}, !.wait = 0]
  BY <1>1, Zenon DEF Server!StopReturns, Server!CallerAt, ServerTyped
<1>3. /\ caller' \in [Caller -> CallerFields]
      /\ \A d \in Caller :
           /\ caller'[d].at = IF d = c THEN "idle" ELSE caller[d].at
           /\ caller'[d].mine = caller[d].mine /\ caller'[d].polls = caller[d].polls
  BY <1>1, <1>2 DEF CallerFields
<1>4. /\ srv' \in ServerFields /\ srv'.listener = srv.listener /\ srv'.wait = 0
      /\ srv'.closed = srv.closed \cup {srv.wait} /\ srv'.starts = srv.starts
      /\ srv'.open = srv.open /\ srv'.db = srv.db
  <2> DEFINE closed == srv.closed \cup {srv.wait}
             sv1 == [srv EXCEPT !.closed = closed]
  <2>1. closed \in SUBSET (0..MaxStarts) /\ 0 \in 0..MaxStarts
    BY PortFacts, Numbers
  <2>2. srv' = [sv1 EXCEPT !.wait = 0]
    BY <1>1, <1>2 DEF ServerFields
  <2> HIDE DEF closed
  <2>3. /\ sv1 \in ServerFields /\ sv1.listener = srv.listener /\ sv1.closed = closed
        /\ sv1.starts = srv.starts /\ sv1.open = srv.open /\ sv1.db = srv.db
    BY <1>1, <2>1 DEF ServerFields
  <2> HIDE DEF sv1
  <2>4. /\ srv' \in ServerFields /\ srv'.listener = srv.listener /\ srv'.wait = 0
        /\ srv'.closed = closed /\ srv'.starts = srv.starts
        /\ srv'.open = srv.open /\ srv'.db = srv.db
    BY <2>1, <2>2, <2>3 DEF ServerFields
  <2> QED
    BY <2>4 DEF closed
<1>5. serve' \in [Server!Run -> ServeFields] /\ serve' = serve
  BY <1>1, <1>2
<1>6. PortInv'
  <2>1. Server!TypeOK'
    BY <1>1, <1>2, <1>3, <1>4, <1>5, ServerTypes DEF ServerTyped, Server!Run
  <2>2. OneOpens'
    BY <1>1, <1>2, <1>3, <1>4 DEF OneOpens, Opening, Server!Stopping
  <2>3. Listening'
    BY <1>1, <1>2, <1>3, <1>4 DEF Listening, Server!Run
  <2>4. Server!PortIsServed'
    BY <1>1, <1>2, <1>3, <1>4, <1>5 DEF Server!PortIsServed, Server!Run
  <2> QED
    BY <2>1, <2>2, <2>3, <2>4 DEF PortInv
<1>7. ASSUME build = "blocking", NoWait PROVE NoWait'
  BY <1>2, <1>7 DEF NoWait
<1>8. ASSUME build # "blocking", ~upset', LastIsLive, StopIsOfLast, WaitIsOfLast
      PROVE  LastIsLive' /\ StopIsOfLast' /\ WaitIsOfLast'
  <2>1. /\ srv.wait = srv.starts /\ srv.starts \in Server!Run /\ srv.starts # 0
        /\ serve[srv.starts].at = "done" /\ srv.listener = 0 /\ srv.open = 0
        /\ \A d \in Caller : ~Opening(d)
    BY <1>2, <1>8, Numbers DEF StopIsOfLast, Server!Stopping
  <2>2. \A g \in Server!Run : ~Live(g)'
    BY <1>2, <1>8, <2>1 DEF LastIsLive, Live
  <2>3. \A d \in Caller : ~Server!Stopping(d)'
    BY <1>1, <1>2, <1>3 DEF OneOpens, Server!Stopping
  <2>4. \A d \in Caller : caller'[d].at \notin {"starting", "listening", "listens"}
    BY <1>3, <2>1 DEF Opening
  <2>5. LastIsLive'
    BY <2>2 DEF LastIsLive, Server!Run
  <2>6. StopIsOfLast'
    BY <2>3 DEF StopIsOfLast
  <2>7. WaitIsOfLast'
    <3>1. ~panicked'
      BY <1>2, <1>8, <2>1 DEF WaitIsOfLast
    <3>2. srv'.closed \subseteq 1..srv'.starts
      BY <1>4, <1>8, <2>1, PortFacts DEF WaitIsOfLast, Server!Run
    <3> QED
      BY <1>2, <1>4, <1>8, <2>1, <2>4, <3>1, <3>2 DEF WaitIsOfLast, Server!Run
  <2> QED
    BY <2>5, <2>6, <2>7
<1> QED
  BY <1>2, <1>6, <1>7, <1>8 DEF StopInv

(* The invariants hold at first. *)
LEMMA InitServerInv == Server!Init => PortInv /\ StopInv
<1> SUFFICES ASSUME Server!Init PROVE PortInv /\ StopInv
  OBVIOUS
<1>1. /\ srv.listener = 0 /\ srv.wait = 0 /\ srv.open = 0 /\ srv.closed = {} /\ srv.starts = 0
      /\ srv.db = TRUE /\ srv.leader = FALSE
      /\ srv \in ServerFields
  BY ServicesAssumption DEF Server!Init, ServerFields
<1>2. /\ caller \in [Caller -> CallerFields]
      /\ \A c \in Caller : caller[c].at = "idle"
  BY ServicesAssumption DEF Server!Init, CallerFields
<1>3. /\ serve \in [Server!Run -> ServeFields]
      /\ \A g \in Server!Run : serve[g].at = "none"
  BY ServicesAssumption DEF Server!Init, ServeFields
<1>4. build \in {"blocking", "caller", "spawned"} /\ upset = FALSE /\ panicked = FALSE
  BY DEF Server!Init
<1>5. Server!TypeOK
  <2>1. upset \in BOOLEAN /\ panicked \in BOOLEAN
    BY <1>4
  <2> QED
    BY <1>1, <1>2, <1>3, <1>4, <2>1, ServerTypes DEF ServerTyped
<1>6. PortInv
  BY <1>1, <1>2, <1>5
  DEF PortInv, OneOpens, Opening, Server!Stopping, Listening, Server!PortIsServed
<1>7. NoWait
  BY <1>1, <1>2, <1>3, <1>4 DEF NoWait
<1>8. LastIsLive /\ StopIsOfLast /\ WaitIsOfLast
  <2>1. \A g \in Server!Run : ~Live(g)
    BY <1>3 DEF Live
  <2>2. \A c \in Caller : ~Server!Stopping(c) /\ ~Opening(c)
    BY <1>2 DEF Server!Stopping, Opening
  <2> QED
    BY <1>1, <1>2, <1>3, <1>4, <2>1, <2>2 DEF LastIsLive, StopIsOfLast, WaitIsOfLast
<1> QED
  BY <1>6, <1>7, <1>8 DEF StopInv

(* Every step keeps them. *)
LEMMA NextServerInv ==
    ASSUME PortInv, StopInv, Server!Next
    PROVE  PortInv' /\ StopInv'
<1>1. ASSUME NEW g \in Server!Run, Server!Serve(g)
      PROVE  PortInv' /\ StopInv'
  BY <1>1, EnterKeeps, HttpServeEndsKeeps, CloseAfterServeKeeps, CheckWaitKeeps, TellKeeps,
     SendPanicsKeeps, Zenon DEF Server!Serve
<1>2. ASSUME NEW c \in Caller, Server!Continue(c)
      PROVE  PortInv' /\ StopInv'
  <2>1. CASE Server!StartReturns(c)
    BY <2>1, CallersKeep
  <2> QED
    BY <1>2, <2>1, ListenKeeps, SetListenerKeeps, BeginServeKeeps, LookAtWaitKeeps,
       ReceiveKeeps, PollAgainKeeps, StopReturnsKeeps, Zenon DEF Server!Continue
<1>3. ASSUME NEW c \in Caller, Server!StopServer(c)
      PROVE  PortInv' /\ StopInv'
  BY <1>3, StopServerStops, StopServerFindsNone, StopServerFindsClosed
<1>4. ASSUME NEW c \in Caller,
             Server!StartServer(c) \/ Server!InitFails(c) \/ Server!InitServer(c)
      PROVE  PortInv' /\ StopInv'
  BY <1>4, CallersKeep
<1> QED
  BY <1>1, <1>2, <1>3, <1>4, Zenon DEF Server!Next

(* What the invariants say of the properties. *)
LEMMA StopInvMeets == StopInv => Server!NoticeIsOwn /\ Server!ClosesOwnListener
<1> SUFFICES ASSUME StopInv PROVE Server!NoticeIsOwn /\ Server!ClosesOwnListener
  OBVIOUS
<1>1. ASSUME build = "blocking", NoWait PROVE Server!NoticeIsOwn
  BY <1>1 DEF NoWait, Server!NoticeIsOwn
<1>2. ASSUME LastIsLive, StopIsOfLast, WaitIsOfLast
      PROVE  Server!NoticeIsOwn /\ Server!ClosesOwnListener
  BY <1>2 DEF LastIsLive, StopIsOfLast, WaitIsOfLast, Live, Server!NoticeIsOwn,
     Server!ClosesOwnListener, Server!Stopping
<1> QED
  BY <1>1, <1>2 DEF StopInv, Server!NoticeIsOwn, Server!ClosesOwnListener

-----------------------------------------------------------------------------
(* A goroutine, of which there is one for each sender. *)
LEMMA FullIsAll ==
    ASSUME NEW entries \in SUBSET Replica, Full(entries)
    PROVE  entries = Replica
BY TallyAssumption, FS_Subset DEF Full, Nodes

LEMMA InitTallyInv == Init => TallyInv
BY DEF Init, TallyInv, TypeOK, ListsOfThrough, ActedOnAll, Through

LEMMA NextTallyInv == TallyInv /\ [Next]_vars => TallyInv'
<1> SUFFICES ASSUME TallyInv, [Next]_vars
             PROVE  TallyInv'
  OBVIOUS
<1>1. CASE UNCHANGED vars
  BY <1>1 DEF TallyInv, TypeOK, ListsOfThrough, ActedOnAll, Through, vars
<1>2. ASSUME NEW n \in Replica, Load(n)
      PROVE  TallyInv'
  <2>1. TypeOK'
    BY <1>2 DEF Load, TallyInv, TypeOK
  <2>2. Through' = Through
    BY <1>2 DEF Load, TallyInv, TypeOK, Through
  <2>3. ListsOfThrough'
    BY <1>2, <2>2 DEF Load, TallyInv, TypeOK, ListsOfThrough
  <2>4. ActedOnAll'
    BY <1>2 DEF Load, TallyInv, ActedOnAll
  <2> QED
    BY <2>1, <2>3, <2>4 DEF TallyInv
<1>3. ASSUME NEW n \in Replica, StoreFirst(n)
      PROVE  TallyInv'
  <2>1. TypeOK'
    BY <1>3 DEF StoreFirst, TallyInv, TypeOK
  <2>2. Through' = Through \cup {n}
    BY <1>3 DEF StoreFirst, TallyInv, TypeOK, Through
  <2>3. ListsOfThrough'
    BY <1>3, <2>2 DEF StoreFirst, TallyInv, ListsOfThrough
  <2>4. ActedOnAll'
    BY <1>3 DEF StoreFirst, TallyInv, ListsOfThrough, ActedOnAll, Through
  <2> QED
    BY <2>1, <2>3, <2>4 DEF TallyInv
<1>4. ASSUME NEW n \in Replica, StoreAppended(n)
      PROVE  TallyInv'
  <2>1. TypeOK'
    BY <1>4 DEF StoreAppended, TallyInv, TypeOK
  <2>2. Through' = Through \cup {n}
    BY <1>4 DEF StoreAppended, TallyInv, TypeOK, Through
  <2>3. ListsOfThrough'
    BY <1>4, <2>2 DEF StoreAppended, TallyInv, ListsOfThrough
  <2>4. ActedOnAll'
    BY <1>4 DEF StoreAppended, TallyInv, ListsOfThrough, ActedOnAll, Through
  <2> QED
    BY <2>1, <2>3, <2>4 DEF TallyInv
<1>5. ASSUME NEW n \in Replica, Count(n)
      PROVE  TallyInv'
  <2>1. TypeOK'
    BY <1>5 DEF Count, TallyInv, TypeOK
  <2>2. Through' = Through
    BY <1>5 DEF Count, TallyInv, TypeOK, Through
  <2>3. ListsOfThrough'
    BY <1>5, <2>2 DEF Count, TallyInv, ListsOfThrough
  <2>4. ActedOnAll'
    BY <1>5, FullIsAll DEF Count, TallyInv, TypeOK, ActedOnAll
  <2> QED
    BY <2>1, <2>3, <2>4 DEF TallyInv
<1> QED
  BY <1>1, <1>2, <1>3, <1>4, <1>5 DEF Next, Goroutine

-----------------------------------------------------------------------------
LEMMA InitCrawlInv == Crawler!Init => CrawlInv
<1> SUFFICES ASSUME Crawler!Init
             PROVE  CrawlInv
  OBVIOUS
<1>1. failed \in BOOLEAN /\ ~failed
  BY Zenon DEF Crawler!Init
<1>2. CrawlerType
  BY <1>1 DEF Crawler!Init, Crawler!Channel, CrawlerType
<1> QED
  BY <1>1, <1>2
  DEF Crawler!Init, Crawler!Channel, CrawlInv, NothingLost, ClosedInOrder

LEMMA StartingCrawls == CrawlInv /\ Crawler!Starting => CrawlInv'
<1> SUFFICES ASSUME CrawlInv, Crawler!Starting
             PROVE  CrawlInv'
  OBVIOUS
<1> USE ServicesAssumption DEF CrawlInv, CrawlerType, NothingLost, ClosedInOrder
<1>1. CASE Crawler!GetPage
  <2>1. CASE failed' = TRUE /\ Crawler!Panic
    <3>1. failed' \in BOOLEAN /\ failed'
      BY <2>1, Zenon
    <3> QED
      BY <2>1, <3>1 DEF Crawler!Panic
  <2>2. ASSUME NEW n \in 0..MaxFound, NEW whole \in BOOLEAN,
               start' = [start EXCEPT !.at = "put", !.left = n],
               found' = [found EXCEPT !.addresses = @ + n],
               failed' = (failed \/ ~whole),
               UNCHANGED <<urls, sourceCode, getter, show, end>>
        PROVE  CrawlInv'
    <3>1. failed' \in BOOLEAN /\ (failed => failed')
      BY <2>2, Zenon
    <3>2. found.addresses + n \in Nat /\ n \in Nat
      OBVIOUS
    <3>3. start.at = "get" /\ end = "running"
      BY <1>1 DEF Crawler!GetPage, Crawler!Starting
    <3>4. CrawlerType'
      BY <2>2, <3>1, <3>2
    <3>5. NothingLost'
      BY <2>2, <3>1, <3>2, <3>3
    <3> QED
      BY <2>2, <3>1, <3>3, <3>4, <3>5
  <2> QED
    BY <1>1, <2>1, <2>2 DEF Crawler!GetPage
<1>2. CASE Crawler!PutAddress
  <2>1. urls.held + 1 \in Nat /\ start.left - 1 \in Nat
    BY <1>2 DEF Crawler!PutAddress
  <2>2. CrawlerType'
    BY <1>2, <2>1 DEF Crawler!PutAddress
  <2>3. NothingLost'
    BY <1>2, <2>1 DEF Crawler!PutAddress
  <2>4. ClosedInOrder'
    BY <1>2 DEF Crawler!PutAddress, Crawler!Starting
  <2> QED
    BY <2>2, <2>3, <2>4
<1>3. CASE Crawler!NextPage
  <2>1. start.page + 1 \in Nat
    OBVIOUS
  <2> QED
    BY <1>3, <2>1 DEF Crawler!NextPage, Crawler!Starting
<1>4. CASE Crawler!CloseUrls
  BY <1>4 DEF Crawler!CloseUrls, Crawler!Starting
<1> QED
  BY <1>1, <1>2, <1>3, <1>4 DEF Crawler!Starting

LEMMA GettingCrawls == CrawlInv /\ Crawler!Getting => CrawlInv'
<1> SUFFICES ASSUME CrawlInv, Crawler!Getting
             PROVE  CrawlInv'
  OBVIOUS
<1> USE ServicesAssumption DEF CrawlInv, CrawlerType, NothingLost, ClosedInOrder
<1>1. CASE Crawler!GetAddress
  <2>1. /\ end = "running" /\ getter.at = "range" /\ urls.held > 0
        /\ urls' = [urls EXCEPT !.held = @ - 1]
        /\ start' = start /\ show' = show
    BY <1>1 DEF Crawler!GetAddress, Crawler!Getting
  <2>2. urls.held - 1 \in Nat
    BY <2>1
  <2>3. ASSUME failed' = TRUE, Crawler!CloseSource,
               getter' = [getter EXCEPT !.at = "nilResponse"], UNCHANGED found
        PROVE  CrawlInv'
    <3>1. failed' \in BOOLEAN /\ failed'
      BY <2>3, Zenon
    <3> QED
      BY <2>1, <2>2, <2>3, <3>1 DEF Crawler!CloseSource
  <2>4. ASSUME NEW n \in 0..MaxFound,
               getter' = [at |-> "put", left |-> n],
               found' = [found EXCEPT !.got = @ + 1, !.sources = @ + n],
               \/ UNCHANGED <<sourceCode, failed, end>>
               \/ failed' = TRUE /\ Crawler!CloseSource
        PROVE  CrawlInv'
    <3>1. n \in Nat /\ found.got + 1 \in Nat /\ found.sources + n \in Nat
      OBVIOUS
    <3>2. CASE UNCHANGED <<sourceCode, failed, end>>
      <4>1. CrawlerType'
        BY <2>1, <2>2, <2>4, <3>1, <3>2
      <4>2. NothingLost'
        BY <2>1, <2>4, <3>1, <3>2
      <4>3. ClosedInOrder'
        BY <2>1, <2>4, <3>2
      <4> QED
        BY <4>1, <4>2, <4>3
    <3>3. CASE failed' = TRUE /\ Crawler!CloseSource
      <4>1. failed' \in BOOLEAN /\ failed'
        BY <3>3, Zenon
      <4>2. CrawlerType'
        BY <2>1, <2>2, <2>4, <3>1, <3>3, <4>1 DEF Crawler!CloseSource
      <4>3. NothingLost'
        BY <2>1, <2>4, <3>1, <3>3, <4>1 DEF Crawler!CloseSource
      <4>4. ClosedInOrder'
        BY <2>1, <2>4, <3>3, <4>1 DEF Crawler!CloseSource
      <4> QED
        BY <4>2, <4>3, <4>4
    <3> QED
      BY <2>4, <3>2, <3>3
  <2> QED
    BY <1>1, <2>3, <2>4 DEF Crawler!GetAddress
<1>2. CASE Crawler!NilResponse
  BY <1>2 DEF Crawler!NilResponse, Crawler!Panic, Crawler!Getting
<1>3. CASE Crawler!PutSource
  <2>1. CASE sourceCode.closed
    BY <1>3, <2>1 DEF Crawler!PutSource, Crawler!Panic, Crawler!Getting
  <2>2. CASE ~sourceCode.closed
    <3>1. sourceCode.held + 1 \in Nat /\ getter.left - 1 \in Nat
      BY <1>3 DEF Crawler!PutSource
    <3> QED
      BY <1>3, <2>2, <3>1 DEF Crawler!PutSource, Crawler!Panic, Crawler!Getting
  <2> QED
    BY <2>1, <2>2
<1>4. CASE Crawler!NextAddress
  BY <1>4 DEF Crawler!NextAddress, Crawler!Getting
<1>5. CASE Crawler!EndOfUrls
  BY <1>5 DEF Crawler!EndOfUrls, Crawler!CloseSource, Crawler!Getting
<1> QED
  BY <1>1, <1>2, <1>3, <1>4, <1>5 DEF Crawler!Getting

LEMMA ShowingCrawls == CrawlInv /\ Crawler!Showing => CrawlInv'
<1> SUFFICES ASSUME CrawlInv, Crawler!Showing
             PROVE  CrawlInv'
  OBVIOUS
<1> USE DEF CrawlInv, CrawlerType, NothingLost, ClosedInOrder
<1>1. CASE Crawler!ShowOne
  <2>1. sourceCode.held - 1 \in Nat /\ found.count + 1 \in Nat
    BY <1>1 DEF Crawler!ShowOne
  <2> QED
    BY <1>1, <2>1 DEF Crawler!ShowOne, Crawler!Showing
<1>2. CASE Crawler!EndOfSources
  BY <1>2 DEF Crawler!EndOfSources, Crawler!Showing
<1>3. CASE Crawler!KillSign
  BY <1>3 DEF Crawler!KillSign, Crawler!Showing
<1> QED
  BY <1>1, <1>2, <1>3 DEF Crawler!Showing

-----------------------------------------------------------------------------
(* The instance counts as this module does. *)
LEMMA DetectorCounts == \A S : Detector!Cardinality(S) = Cardinality(S)
BY DEF Detector!Cardinality, Cardinality

Working == {w \in Detector!Workers : worker[w] \notin {"none", "done"}}

LEMMA WorkersAreThree ==
    /\ Detector!Workers = {"CountersRotator", "GraphiteSender", "listener"}
    /\ IsFiniteSet(Detector!Workers)
<1>1. Detector!Workers = {"CountersRotator", "GraphiteSender", "listener"}
  BY DEF Detector!Workers, Detector!Jobs
<1>2. IsFiniteSet({"CountersRotator"} \cup {"GraphiteSender"} \cup {"listener"})
  BY FS_Singleton, FS_Union, Zenon
<1>3. Detector!Workers = {"CountersRotator"} \cup {"GraphiteSender"} \cup {"listener"}
  BY <1>1
<1> QED
  BY <1>1, <1>2, <1>3

LEMMA InitDetectInv == Detector!Init => DetectInv
<1> SUFFICES ASSUME Detector!Init
             PROVE  DetectInv
  OBVIOUS
<1>1. DetectorType /\ Unstarted
  BY WorkersAreThree DEF Detector!Init, DetectorType, Unstarted, Order
<1>2. Working = {}
  BY WorkersAreThree DEF Detector!Init, Working
<1> QED
  BY <1>1, <1>2, FS_EmptySet, DetectorCounts
  DEF Detector!Init, DetectInv, Detector!WaitsForWorkers, Working

(* wait counts the goroutines that run, so it is zero for none of them. *)
LEMMA WorkingIsFinite ==
    ASSUME DetectInv
    PROVE  /\ IsFiniteSet(Working) /\ wait = Cardinality(Working)
           /\ wait = 0 => Working = {}
<1>1. Working \subseteq Detector!Workers
  BY DEF Working
<1>2. wait = Cardinality(Working)
  BY DetectorCounts DEF DetectInv, Detector!WaitsForWorkers, Working
<1> QED
  BY <1>1, <1>2, WorkersAreThree, FS_Subset, FS_EmptySet

(* Of a step that lets one worker start, end, or go on. *)
LEMMA WaitFollows ==
    ASSUME DetectInv, NEW w \in Detector!Workers, NEW to \in {"start", "loop", "busy", "done"},
           worker' = [worker EXCEPT ![w] = to],
           \/ worker[w] = "none" /\ to # "done" /\ wait' = wait + 1
           \/ w \in Working /\ to = "done" /\ wait' = wait - 1
           \/ w \in Working /\ to # "done" /\ wait' = wait
    PROVE  wait' = Cardinality(Working') /\ wait' \in Nat
<1> USE WorkingIsFinite
<1>0. worker \in [Detector!Workers -> {"none", "start", "loop", "busy", "done"}]
  BY DEF DetectInv, DetectorType
<1>1. CASE worker[w] = "none" /\ to # "done" /\ wait' = wait + 1
  <2>1. Working' = Working \cup {w} /\ w \notin Working
    BY <1>0, <1>1 DEF Working
  <2>2. Cardinality(Working') = Cardinality(Working) + 1
    BY <2>1, FS_AddElement
  <2> QED
    BY <1>1, <2>2, FS_CardinalityType
<1>2. CASE w \in Working /\ to = "done" /\ wait' = wait - 1
  <2>1. Working' = Working \ {w} /\ w \in Working
    BY <1>0, <1>2 DEF Working
  <2>2. Cardinality(Working') = Cardinality(Working) - 1 /\ IsFiniteSet(Working')
    BY <2>1, FS_RemoveElement
  <2> QED
    BY <1>2, <2>2, FS_CardinalityType
<1>3. CASE w \in Working /\ to # "done" /\ wait' = wait
  <2>1. Working' = Working
    BY <1>0, <1>3 DEF Working
  <2> QED
    BY <1>3, <2>1, FS_CardinalityType
<1> QED
  BY <1>1, <1>2, <1>3

LEMMA MoveDetects ==
    ASSUME DetectInv, Detector!Alive, NEW w \in Working,
           NEW to \in {"loop", "busy", "done"}, Detector!Move(w, to)
    PROVE  DetectInv'
<1> USE DEF DetectInv
<1>1. w \in Detector!Workers /\ worker[w] \notin {"none", "done"}
  BY DEF Working
<1>2. /\ worker' = [worker EXCEPT ![w] = to] /\ at' = at
      /\ wait' = IF to = "done" THEN wait - 1 ELSE wait
  BY DEF Detector!Move
<1>3. wait' = Cardinality(Working') /\ wait' \in Nat
  BY <1>1, <1>2, WaitFollows
<1>4. DetectorType'
  BY <1>1, <1>2, <1>3 DEF DetectorType
<1>5. \A v \in Detector!Workers : worker'[v] = "none" <=> worker[v] = "none"
  BY <1>1, <1>2 DEF DetectorType
<1>6. Unstarted'
  BY <1>2, <1>5 DEF Unstarted
<1>7. at # "finished"
  BY DEF Detector!Alive
<1> QED
  BY <1>2, <1>3, <1>4, <1>6, <1>7, DetectorCounts
  DEF Detector!WaitsForWorkers, Working

LEMMA StartDetects ==
    ASSUME DetectInv, NEW w \in Detector!Workers, Detector!StartWorker(w)
    PROVE  DetectInv'
<1> USE DEF DetectInv
<1>1. /\ at = w /\ at' = Detector!After[w] /\ wait' = wait + 1
      /\ worker' = [worker EXCEPT ![w] = "start"]
  BY DEF Detector!StartWorker
<1>2. /\ w = "listener" => at' = "CountersRotator"
      /\ w = "CountersRotator" => at' = "GraphiteSender"
      /\ w = "GraphiteSender" => at' = "wait"
  BY <1>1 DEF Detector!After
<1>3. worker[w] = "none"
  BY <1>1, WorkersAreThree DEF Unstarted, Order
<1>4. wait' = Cardinality(Working') /\ wait' \in Nat
  BY <1>1, <1>3, WaitFollows
<1>5. DetectorType'
  BY <1>1, <1>2, <1>4, WorkersAreThree DEF DetectorType
<1>6. Unstarted'
  BY <1>1, <1>2, WorkersAreThree DEF Unstarted, Order, DetectorType
<1>7. at' # "finished"
  BY <1>2, WorkersAreThree
<1> QED
  BY <1>4, <1>5, <1>6, <1>7, DetectorCounts DEF Detector!WaitsForWorkers, Working

LEMMA NextDetectInv == DetectInv /\ Detector!Next => DetectInv'
<1> SUFFICES ASSUME DetectInv, Detector!Next
             PROVE  DetectInv'
  OBVIOUS
<1>0. Detector!Alive
  BY DEF Detector!Next
<1>1. CASE Detector!Send \/ Detector!Handle
  BY <1>1 DEF Detector!Send, Detector!Handle, DetectInv, DetectorType, Unstarted,
     Detector!WaitsForWorkers
<1>2. CASE Detector!SetRunning
  <2>1. at = "set" /\ at' = "listener" /\ UNCHANGED <<worker, wait>>
    BY <1>2 DEF Detector!SetRunning
  <2>2. DetectorType' /\ Unstarted'
    BY <2>1, WorkersAreThree DEF DetectInv, DetectorType, Unstarted, Order
  <2> QED
    BY <2>1, <2>2 DEF DetectInv, Detector!WaitsForWorkers
<1>3. CASE Detector!MainEnds
  <2>1. at = "wait" /\ at' = "finished" /\ wait = 0 /\ UNCHANGED <<worker, wait>>
    BY <1>3 DEF Detector!MainEnds
  <2>2. DetectorType' /\ Unstarted'
    BY <2>1, WorkersAreThree DEF DetectInv, DetectorType, Unstarted, Order
  <2>3. \A w \in Detector!Workers : worker[w] # "none"
    BY <2>1, WorkersAreThree DEF DetectInv, Unstarted, Order
  <2>4. \A w \in Detector!Workers : worker[w] = "done"
    BY <2>1, <2>3, WorkingIsFinite DEF Working
  <2> QED
    BY <2>1, <2>2, <2>4 DEF DetectInv, Detector!WaitsForWorkers
<1>4. ASSUME NEW w \in Detector!Workers, Detector!StartWorker(w)
      PROVE  DetectInv'
  BY <1>4, StartDetects
<1>5. ASSUME NEW w \in Detector!Workers, Detector!Loop(w)
      PROVE  DetectInv'
  BY <1>0, <1>5, MoveDetects DEF Detector!Loop, Working
<1>6. ASSUME NEW w \in Detector!Jobs, Detector!Tick(w)
      PROVE  DetectInv'
  BY <1>0, <1>6, MoveDetects DEF Detector!Tick, Working, Detector!Workers
<1>7. CASE Detector!Listen \/ Detector!ListenFails \/ Detector!Datagram \/ Detector!ReadFails
  BY <1>0, <1>7, WorkersAreThree, MoveDetects
  DEF Detector!Listen, Detector!ListenFails, Detector!Datagram, Detector!ReadFails, Working
<1> QED
  BY <1>1, <1>2, <1>3, <1>4, <1>5, <1>6, <1>7
  DEF Detector!Next, Detector!Main, Detector!Working

-----------------------------------------------------------------------------
LEMMA ContractCounts == \A S : Contract!Cardinality(S) = Cardinality(S)
BY DEF Contract!Cardinality, Cardinality

LEMMA PrefixCounts ==
    ASSUME NEW n \in Nat
    PROVE  IsFiniteSet(1..n) /\ Cardinality(1..n) = n
BY FS_Interval

LEMMA PostedSoFar ==
    ASSUME PostInv, NEW k \in Call
    PROVE  /\ Cardinality(Posted(k)) \in 0..Urls
           /\ Posted(k) = 1..Cardinality(Posted(k))
           /\ \A u \in Contract!Url : node[k][u] # "none" <=> u <= Cardinality(Posted(k))
<1>1. Posted(k) \subseteq 1..Urls /\ Posted(k) = 1..Cardinality(Posted(k))
  BY DEF Posted, Contract!Url, PostInv, InOrder
<1>2. Cardinality(Posted(k)) \in Nat
  BY <1>1, ServicesAssumption, PrefixCounts, FS_Subset, FS_CardinalityType
<1>3. Cardinality(Posted(k)) <= Urls
  BY <1>1, <1>2, ServicesAssumption, PrefixCounts, FS_Subset
<1> QED
  BY <1>1, <1>2, <1>3, ServicesAssumption DEF Posted, Contract!Url

(* A broadcast whose variables a step leaves alone. *)
LEMMA OthersWait ==
    ASSUME NEW k \in Call, InOrder(k), BroadcastAt(k),
           client'[k] = client[k], node'[k] = node[k], answer'[k] = answer[k]
    PROVE  InOrder(k)' /\ BroadcastAt(k)'
BY DEF InOrder, BroadcastAt, Posted, Contract!Handled

LEMMA InitPostInv == Contract!Init => PostInv
<1> SUFFICES ASSUME Contract!Init
             PROVE  PostInv
  OBVIOUS
<1>1. /\ client \in [Call -> [at : {"next"}, url : {1}, msg : Contract!Messages]]
      /\ node = [k \in Call |-> [u \in Contract!Url |-> "none"]]
      /\ answer = [k \in Call |-> Contract!NoAnswer]
  BY DEF Contract!Init, Contract!ExchangeInit
<1>2. ContractType
  <2>1. Contract!NoAnswer \in Answers
    BY DEF Contract!NoAnswer, Answers
  <2> QED
    BY <1>1, <2>1 DEF ContractType
<1>3. ASSUME NEW k \in Call
      PROVE  InOrder(k) /\ BroadcastAt(k)
  <2>1. Posted(k) = {} /\ Contract!Handled(k) = {}
    BY <1>1 DEF Posted, Contract!Handled
  <2>2. Cardinality(Posted(k)) = 0
    BY <2>1, FS_EmptySet
  <2> QED
    BY <1>1, <2>1, <2>2 DEF InOrder, BroadcastAt, Contract!Url
<1> QED
  BY <1>2, <1>3 DEF PostInv

(* The goroutine of a request moves on, with or without a response. *)
LEMMA ServerMoves ==
    ASSUME PostInv, NEW k \in Call, NEW u \in Contract!Url,
           NEW from \in {"arrived", "running"},
           NEW to \in {"refused", "running", "done", "dead"},
           Contract!ServerAt(k, u, from, to), client' = client,
           \/ answer' = answer
           \/ \E resp \in Answers :
                Contract!Respond(k, u, resp) /\ (Contract!SendReq(resp) => to = "done")
    PROVE  /\ PostInv'
           /\ u = Cardinality(Posted(k))
           /\ \A j \in Call : Posted(j)' = Posted(j)
           /\ \A j \in Call : Contract!Handled(j)' =
                 IF j = k /\ to = "done" THEN Contract!Handled(j) \cup {u}
                                         ELSE Contract!Handled(j)
<1> DEFINE p == Cardinality(Posted(k))
<1>1. /\ node[k][u] = from /\ node' = [node EXCEPT ![k][u] = to]
  BY DEF Contract!ServerAt
<1>2. ContractType /\ InOrder(k) /\ BroadcastAt(k)
  BY DEF PostInv
<1>3. p \in 0..Urls /\ u \in 1..Urls /\ u <= p
  BY <1>1, PostedSoFar DEF Contract!Url
<1>4. u = p
  BY <1>1, <1>2, <1>3 DEF InOrder
<1>5. client[k].at \notin {"next", "ok"} /\ (client[k].at = "waiting" => client[k].url = u)
  BY <1>1, <1>2, <1>3, <1>4 DEF BroadcastAt, Contract!Handled, Posted
<1>6. \A j \in Call : Posted(j)' = Posted(j)
  BY <1>1, <1>2 DEF Posted, ContractType
<1>7. \A j \in Call : Contract!Handled(j)' =
        IF j = k /\ to = "done" THEN Contract!Handled(j) \cup {u}
                                ELSE Contract!Handled(j)
  BY <1>1, <1>2 DEF Contract!Handled, ContractType
<1>8. /\ answer' \in [Call -> Answers]
      /\ \A j \in Call \ {k} : answer'[j] = answer[j]
      /\ client[k].at # "waiting" => answer'[k] = answer[k]
      /\ client[k].at = "waiting" /\ Contract!SendReq(answer'[k]) =>
           to = "done" \/ answer'[k] = answer[k]
  BY <1>2, <1>5 DEF ContractType, Contract!Respond
<1>9. ContractType'
  BY <1>1, <1>2, <1>8 DEF ContractType
<1>10. InOrder(k)'
  BY <1>1, <1>2, <1>3, <1>4, <1>6 DEF InOrder, ContractType
<1>11. BroadcastAt(k)'
  BY <1>1, <1>2, <1>3, <1>4, <1>5, <1>6, <1>8 DEF BroadcastAt, ContractType
<1>12. ASSUME NEW j \in Call \ {k}
       PROVE  InOrder(j)' /\ BroadcastAt(j)'
  BY <1>1, <1>2, <1>8, OthersWait DEF PostInv, ContractType
<1> QED
  BY <1>4, <1>6, <1>7, <1>9, <1>10, <1>11, <1>12 DEF PostInv

LEMMA StutterKeeps ==
    ASSUME PostInv, UNCHANGED Contract!exchangeVars
    PROVE  PostInv' /\ UNCHANGED Contract!Promise!vars
<1>1. client' = client /\ node' = node /\ answer' = answer
  BY DEF Contract!exchangeVars
<1>2. \A k \in Call : Posted(k)' = Posted(k) /\ Contract!Handled(k)' = Contract!Handled(k)
  BY <1>1 DEF Posted, Contract!Handled
<1>3. PostInv'
  BY <1>1, OthersWait DEF PostInv, ContractType
<1>4. UNCHANGED Contract!Promise!vars
  BY <1>1, <1>2 DEF Contract!Promise!vars, Posted
<1> QED
  BY <1>3, <1>4

(* Handlers of requests: the promise sees the one that returns. *)
LEMMA HandlerKeeps ==
    ASSUME PostInv, NEW k \in Call, NEW u \in Contract!Url, Contract!Handler(k, u)
    PROVE  PostInv' /\ [Contract!Promise!Next]_Contract!Promise!vars
<1>1. ASSUME NEW from \in {"arrived", "running"},
             NEW to \in {"refused", "running", "done", "dead"},
             Contract!ServerAt(k, u, from, to), client' = client,
             \/ answer' = answer
             \/ \E resp \in Answers :
                  Contract!Respond(k, u, resp) /\ (Contract!SendReq(resp) => to = "done")
      PROVE  PostInv' /\ [Contract!Promise!Next]_Contract!Promise!vars
  <2>1. /\ PostInv'
        /\ u = Cardinality(Posted(k))
        /\ \A j \in Call : Posted(j)' = Posted(j)
        /\ \A j \in Call : Contract!Handled(j)' =
              IF j = k /\ to = "done" THEN Contract!Handled(j) \cup {u}
                                      ELSE Contract!Handled(j)
    BY <1>1, ServerMoves
  <2>2. /\ \A j \in Call : Contract!Cardinality(Posted(j)') = Contract!Cardinality(Posted(j))
        /\ Contract!Cardinality(Posted(k)) = u /\ u > 0
    BY <2>1, ContractCounts DEF Contract!Url
  <2>3. CASE to = "done"
    <3>1. Contract!Promise!Handle(k)
      BY <1>1, <2>1, <2>2, <2>3 DEF Contract!Promise!Handle, Posted
    <3> QED
      BY <2>1, <3>1 DEF Contract!Promise!Next
  <2>4. CASE to # "done"
    <3>1. UNCHANGED Contract!Promise!vars
      BY <1>1, <2>1, <2>2, <2>4 DEF Contract!Promise!vars, Posted
    <3> QED
      BY <2>1, <3>1
  <2> QED
    BY <2>3, <2>4
<1>2. CASE Contract!Dispatch(k, u)
  <2>1. Contract!NotFound \in Answers /\ ~Contract!SendReq(Contract!NotFound)
    <3>1. Contract!NoAnswer \in Answers
      BY DEF Contract!NoAnswer, Answers
    <3>2. [Contract!NoAnswer EXCEPT !.status = 404] \in Answers
      BY <3>1 DEF Answers
    <3>3. Contract!NotFound = [[Contract!NoAnswer EXCEPT !.status = 404] EXCEPT !.body = "text"]
      BY <3>1 DEF Contract!NotFound, Answers
    <3>4. Contract!NotFound \in Answers /\ Contract!NotFound.body = "text"
      BY <3>2, <3>3 DEF Answers
    <3> QED
      BY <3>4 DEF Contract!SendReq
  <2>2. ASSUME NEW method
        PROVE  LET resp == Contract!ServeHTTP(method, Contract!CreateHTTPErr(405))
               IN  resp \in Answers /\ ~Contract!SendReq(resp)
    BY DEF Contract!ServeHTTP, Contract!CreateHTTPErr, Contract!GetHTTPErr, Answers,
       Contract!SendReq
  <2> QED
    BY <1>1, <1>2, <2>1, <2>2 DEF Contract!Dispatch
<1>3. CASE Contract!NextTx(k, u)
  <2>1. Contract!Aborted \in Answers /\ ~Contract!SendReq(Contract!Aborted)
    BY DEF Contract!Aborted, Contract!NoAnswer, Answers, Contract!SendReq
  <2>2. CASE Contract!HandlerPanics(k, u)
    BY <1>1, <2>1, <2>2 DEF Contract!HandlerPanics
  <2>3. CASE UNCHANGED Contract!exchangeVars
    BY <2>3, StutterKeeps
  <2> QED
    BY <1>3, <2>2, <2>3 DEF Contract!NextTx
<1>4. CASE Contract!LookAgain(k, u)
  BY <1>4, StutterKeeps DEF Contract!LookAgain
<1>5. CASE Contract!Return(k, u)
  <2>1. ASSUME NEW method
        PROVE  Contract!ServeHTTP(method, Contract!NoErr) \in Answers
    BY DEF Contract!ServeHTTP, Contract!NoErr, Contract!GetHTTPErr, Answers
  <2> QED
    BY <1>1, <1>5, <2>1 DEF Contract!Return, Contract!HandlerReturns
<1> QED
  BY <1>2, <1>3, <1>4, <1>5 DEF Contract!Handler

(* Broadcast goes on to the next server, or returns. *)
LEMMA ClientKeeps ==
    ASSUME PostInv, NEW k \in Call,
           Contract!Post(k) \/ Contract!Receive(k) \/ Contract!Break(k)
    PROVE  PostInv' /\ [Contract!Promise!Next]_Contract!Promise!vars
<1> DEFINE p == Cardinality(Posted(k))
           url == client[k].url
<1>1. ContractType /\ InOrder(k) /\ BroadcastAt(k)
  BY DEF PostInv
<1>2. p \in 0..Urls /\ Posted(k) = 1..p /\ p \in Nat
  BY PostedSoFar, ServicesAssumption
<1>3. CASE /\ client[k].at = "next" /\ url \in Contract!Url
           /\ client' = [client EXCEPT ![k].at = "waiting"]
           /\ node[k][url] = "none" /\ node' = [node EXCEPT ![k][url] = "arrived"]
           /\ answer' = answer
  <2>1. /\ url = p + 1 /\ Contract!Handled(k) = Posted(k) /\ answer[k] = Contract!NoAnswer
        /\ url <= Urls
    BY <1>1, <1>3 DEF BroadcastAt, Contract!Url
  <2>2. Posted(k)' = Posted(k) \cup {url}
    BY <1>1, <1>3 DEF Posted, ContractType
  <2>3. Posted(k)' = 1..(p + 1)
    BY <1>2, <2>1, <2>2
  <2>4. Cardinality(Posted(k)') = p + 1
    BY <1>2, <2>3, PrefixCounts
  <2>5. \A j \in Call : Contract!Handled(j)' = Contract!Handled(j)
    BY <1>1, <1>3 DEF Contract!Handled, ContractType
  <2>6. \A j \in Call \ {k} : Posted(j)' = Posted(j)
    BY <1>1, <1>3 DEF Posted, ContractType
  <2>7. ContractType'
    BY <1>1, <1>3 DEF ContractType
  <2>8. InOrder(k)'
    <3>1. ASSUME NEW u \in Contract!Url, u < p + 1
          PROVE  node'[k][u] = "done"
      <4>1. u \in Posted(k)
        BY <1>2, <3>1 DEF Contract!Url
      <4>2. node[k][u] = "done"
        BY <2>1, <4>1 DEF Contract!Handled
      <4> QED
        BY <1>1, <1>3, <2>1, <3>1, <4>2 DEF ContractType
    <3> QED
      BY <2>3, <2>4, <3>1 DEF InOrder
  <2>9. BroadcastAt(k)'
    BY <1>1, <1>3, <2>1, <2>4 DEF BroadcastAt, ContractType
  <2>10. ASSUME NEW j \in Call \ {k}
         PROVE  InOrder(j)' /\ BroadcastAt(j)'
    BY <1>1, <1>3, OthersWait DEF PostInv, ContractType
  <2>11. PostInv'
    BY <2>7, <2>8, <2>9, <2>10 DEF PostInv
  <2>12. Contract!Promise!Put(k)
    <3>1. /\ Contract!Cardinality(Posted(k)) = p
          /\ Contract!Cardinality(Posted(k)') = p + 1
          /\ \A j \in Call \ {k} :
               Contract!Cardinality(Posted(j)') = Contract!Cardinality(Posted(j))
      BY <2>4, <2>6, ContractCounts
    <3>2. /\ Contract!Handled(k) = 1..p /\ p < Urls
          /\ \A j \in Call : client'[j].at \in {"ok", "error"} <=> client[j].at \in {"ok", "error"}
          /\ \A j \in Call : client'[j].at \in {"ok", "error"} => client'[j].at = client[j].at
      BY <1>1, <1>2, <1>3, <2>1, ServicesAssumption DEF ContractType
    <3>3. client[k].at \notin {"ok", "error"}
      BY <1>3
    <3> DEFINE posted == [j \in Call |-> Contract!Cardinality(Posted(j))]
               handled == [j \in Call |-> Contract!Handled(j)]
               told == [j \in Call |-> IF client[j].at \in {"ok", "error"}
                                      THEN client[j].at ELSE "running"]
    <3>4. told[k] = "running" /\ posted[k] = p /\ posted[k] < Urls
      BY <3>1, <3>2, <3>3
    <3>5. posted' = [posted EXCEPT ![k] = p + 1]
      BY <3>1
    <3>6. handled[k] = 1..posted[k] /\ handled' = handled
      BY <2>5, <3>1, <3>2
    <3>7. told' = told
      BY <3>2
    <3> QED
      BY <3>4, <3>5, <3>6, <3>7 DEF Contract!Promise!Put, Posted
  <2> QED
    BY <2>11, <2>12 DEF Contract!Promise!Next
<1>4. ASSUME NEW to \in {"ok", "error"},
             client[k].at \in {"next", "waiting"},
             client' = [client EXCEPT ![k].at = to], node' = node,
             to = "ok" => client[k].at = "next" /\ url \notin Contract!Url,
             \/ answer' = [answer EXCEPT ![k] = Contract!NoAnswer]
             \/ client[k].at = "next" /\ answer' = answer
      PROVE  PostInv' /\ [Contract!Promise!Next]_Contract!Promise!vars
  <2>1. /\ \A j \in Call : Posted(j)' = Posted(j) /\ Contract!Handled(j)' = Contract!Handled(j)
        /\ to = "ok" => Contract!Handled(k) = Contract!Url
    <3>1. to = "ok" => p + 1 \notin 1..Urls /\ Contract!Handled(k) = Posted(k)
      BY <1>1, <1>4 DEF BroadcastAt, Contract!Url
    <3>2. to = "ok" => p = Urls
      BY <1>2, <3>1, ServicesAssumption
    <3> QED
      BY <1>2, <1>4, <3>1, <3>2 DEF Posted, Contract!Handled, Contract!Url
  <2>2. answer'[k] = Contract!NoAnswer /\ \A j \in Call \ {k} : answer'[j] = answer[j]
    BY <1>1, <1>4 DEF BroadcastAt, ContractType
  <2>3. ContractType'
    <3>1. Contract!NoAnswer \in Answers
      BY DEF Contract!NoAnswer, Answers
    <3> QED
      BY <1>1, <1>4, <3>1 DEF ContractType
  <2>4. InOrder(k)' /\ BroadcastAt(k)'
    BY <1>1, <1>4, <2>1, <2>2 DEF InOrder, BroadcastAt, ContractType
  <2>5. ASSUME NEW j \in Call \ {k}
        PROVE  InOrder(j)' /\ BroadcastAt(j)'
    BY <1>1, <1>4, <2>2, OthersWait DEF PostInv, ContractType
  <2>6. PostInv'
    BY <2>3, <2>4, <2>5 DEF PostInv
  <2>7. Contract!Promise!Tell(k)
    <3>1. /\ client[k].at \notin {"ok", "error"} /\ client'[k].at = to
          /\ \A j \in Call \ {k} : client'[j].at = client[j].at
      BY <1>1, <1>4 DEF ContractType
    <3> QED
      BY <1>4, <2>1, <3>1 DEF Contract!Promise!Tell, Posted, Contract!Url
  <2> QED
    BY <2>6, <2>7 DEF Contract!Promise!Next
<1>5. CASE /\ client[k].at = "waiting" /\ Contract!SendReq(answer[k])
           /\ answer[k] # Contract!NoAnswer
           /\ client' = [client EXCEPT ![k].at = "next", ![k].url = @ + 1]
           /\ answer' = [answer EXCEPT ![k] = Contract!NoAnswer]
           /\ node' = node
  <2>1. /\ \A j \in Call : Posted(j)' = Posted(j) /\ Contract!Handled(j)' = Contract!Handled(j)
    BY <1>5 DEF Posted, Contract!Handled
  <2>2. url = p /\ node[k][p] = "done" /\ Contract!Handled(k) = Posted(k)
    <3>1. url = p /\ node[k][p] = "done"
      BY <1>1, <1>5 DEF BroadcastAt
    <3>2. \A u \in Contract!Url : u < p => node[k][u] = "done"
      BY <1>1 DEF InOrder
    <3>3. \A u \in Posted(k) : u \in Contract!Url /\ u <= p
      BY <1>2 DEF Posted
    <3>4. \A u \in Posted(k) : node[k][u] = "done"
      BY <1>2, <3>1, <3>2, <3>3 DEF Contract!Url
    <3> QED
      BY <3>1, <3>4 DEF Contract!Handled, Posted
  <2>3. ContractType'
    <3>1. Contract!NoAnswer \in Answers /\ url + 1 \in Nat
      BY <1>1 DEF Contract!NoAnswer, Answers, ContractType
    <3> QED
      BY <1>1, <1>5, <3>1 DEF ContractType
  <2>4. InOrder(k)' /\ BroadcastAt(k)'
    BY <1>1, <1>5, <2>1, <2>2 DEF InOrder, BroadcastAt, ContractType
  <2>5. ASSUME NEW j \in Call \ {k}
        PROVE  InOrder(j)' /\ BroadcastAt(j)'
    BY <1>1, <1>5, OthersWait DEF PostInv, ContractType
  <2>6. PostInv'
    BY <2>3, <2>4, <2>5 DEF PostInv
  <2>7. UNCHANGED Contract!Promise!vars
    <3>1. \A j \in Call :
            \/ client'[j].at \notin {"ok", "error"} /\ client[j].at \notin {"ok", "error"}
            \/ client'[j].at = client[j].at
      BY <1>1, <1>5 DEF ContractType
    <3> QED
      BY <1>5, <2>1, <3>1 DEF Contract!Promise!vars, Posted
  <2> QED
    BY <2>6, <2>7
<1>6. CASE Contract!Post(k)
  BY <1>3, <1>4, <1>6 DEF Contract!Post, Contract!ClientAt, Contract!ServerAt
<1>7. CASE Contract!Receive(k)
  BY <1>4, <1>5, <1>7 DEF Contract!Receive
<1>8. CASE Contract!Break(k)
  BY <1>4, <1>8 DEF Contract!Break, Contract!ClientAt
<1> QED
  BY <1>6, <1>7, <1>8

-----------------------------------------------------------------------------
(* A step of one component leaves the others where they are. *)
LEMMA NextContractInv ==
    ASSUME PostInv, Contract!Next
    PROVE  PostInv' /\ [Contract!Promise!Next]_Contract!Promise!vars
<1>1. ASSUME NEW k \in Call, Contract!Client(k) \/ Contract!Break(k)
      PROVE  PostInv' /\ [Contract!Promise!Next]_Contract!Promise!vars
  BY <1>1, ClientKeeps DEF Contract!Client
<1> QED
  BY <1>1, HandlerKeeps DEF Contract!Next

LEMMA NextCrawlInv == CrawlInv /\ Crawler!Next => CrawlInv'
BY StartingCrawls, GettingCrawls, ShowingCrawls DEF Crawler!Next

LEMMA TallyWaits == TallyInv /\ UNCHANGED vars => TallyInv'
BY NextTallyInv

LEMMA ServerWaits == PortInv /\ StopInv /\ UNCHANGED serverVars => PortInv' /\ StopInv'
<1> SUFFICES ASSUME PortInv, StopInv, UNCHANGED serverVars
             PROVE  PortInv' /\ StopInv'
  OBVIOUS
<1>1. UNCHANGED <<build, srv, caller, serve, upset, panicked>>
  BY DEF serverVars
<1>2. PortInv'
  <2>1. Server!TypeOK'
    BY <1>1, PortFacts, ServerTypes DEF ServerTyped, Server!Run
  <2> QED
    BY <1>1, <2>1
    DEF PortInv, OneOpens, Opening, Server!Stopping, Listening, Server!PortIsServed, Server!Run
<1>3. NoWait => NoWait'
  BY <1>1 DEF NoWait, Server!Run
<1>4. LastIsLive => LastIsLive'
  BY <1>1 DEF LastIsLive, Live, Opening, Server!Run
<1>5. StopIsOfLast => StopIsOfLast'
  BY <1>1 DEF StopIsOfLast, Server!Stopping, Opening, Server!Run
<1>6. WaitIsOfLast => WaitIsOfLast'
  BY <1>1 DEF WaitIsOfLast, Server!Stopping, Live, Opening, Server!Run
<1> QED
  BY <1>1, <1>2, <1>3, <1>4, <1>5, <1>6 DEF StopInv

LEMMA ContractWaits ==
    ASSUME PostInv, UNCHANGED contractVars
    PROVE  PostInv' /\ UNCHANGED Contract!Promise!vars
<1>1. UNCHANGED Contract!exchangeVars
  BY DEF contractVars, Contract!exchangeVars
<1> QED
  BY <1>1, StutterKeeps

LEMMA CrawlerWaits == CrawlInv /\ UNCHANGED crawlerVars => CrawlInv'
BY DEF CrawlInv, CrawlerType, NothingLost, ClosedInOrder, crawlerVars

LEMMA DetectorWaits == DetectInv /\ UNCHANGED detectorVars => DetectInv'
BY DEF DetectInv, DetectorType, Unstarted, Order, detectorVars, Detector!WaitsForWorkers,
   Detector!Workers

LEMMA CrawlerDrained == CrawlInv => Crawler!EndsDrained /\ Crawler!PanicsOnFailure
BY DEF CrawlInv, CrawlerType, NothingLost, ClosedInOrder, Crawler!EndsDrained,
   Crawler!PanicsOnFailure

LEMMA InitServicesInv == ServicesInit => ServicesInv
BY InitTallyInv, InitServerInv, InitPostInv, InitCrawlInv, InitDetectInv
DEF ServicesInit, ServicesInv

LEMMA NextServicesInv ==
    ASSUME ServicesInv, [ServicesNext]_serviceVars
    PROVE  ServicesInv' /\ [Contract!Promise!Next]_Contract!Promise!vars
<1>1. TallyInv /\ PortInv /\ StopInv /\ PostInv /\ CrawlInv /\ DetectInv
  BY DEF ServicesInv
<1>2. UNCHANGED vars => TallyInv'
  BY <1>1, TallyWaits
<1>3. UNCHANGED serverVars => PortInv' /\ StopInv'
  BY <1>1, ServerWaits
<1>4. UNCHANGED contractVars => PostInv' /\ [Contract!Promise!Next]_Contract!Promise!vars
  BY <1>1, ContractWaits
<1>5. UNCHANGED crawlerVars => CrawlInv'
  BY <1>1, CrawlerWaits
<1>6. UNCHANGED detectorVars => DetectInv'
  BY <1>1, DetectorWaits
<1>7. CASE TallyStep
  <2>1. TallyInv'
    BY <1>1, <1>7, NextTallyInv DEF TallyStep
  <2>2. UNCHANGED serverVars /\ UNCHANGED contractVars /\ UNCHANGED crawlerVars
        /\ UNCHANGED detectorVars
    BY <1>7 DEF TallyStep
  <2> QED
    BY <1>3, <1>4, <1>5, <1>6, <2>1, <2>2 DEF ServicesInv
<1>8. CASE ServerStep
  <2>1. PortInv' /\ StopInv'
    BY <1>1, <1>8, NextServerInv DEF ServerStep
  <2>2. UNCHANGED vars /\ UNCHANGED contractVars /\ UNCHANGED crawlerVars
        /\ UNCHANGED detectorVars
    BY <1>8 DEF ServerStep
  <2> QED
    BY <1>2, <1>4, <1>5, <1>6, <2>1, <2>2 DEF ServicesInv
<1>9. CASE ContractStep
  <2>1. PostInv' /\ [Contract!Promise!Next]_Contract!Promise!vars
    BY <1>1, <1>9, NextContractInv DEF ContractStep
  <2>2. UNCHANGED vars /\ UNCHANGED serverVars /\ UNCHANGED crawlerVars
        /\ UNCHANGED detectorVars
    BY <1>9 DEF ContractStep
  <2> QED
    BY <1>2, <1>3, <1>5, <1>6, <2>1, <2>2 DEF ServicesInv
<1>10. CASE CrawlerStep
  <2>1. CrawlInv'
    BY <1>1, <1>10, NextCrawlInv DEF CrawlerStep
  <2>2. UNCHANGED vars /\ UNCHANGED serverVars /\ UNCHANGED contractVars
        /\ UNCHANGED detectorVars
    BY <1>10 DEF CrawlerStep
  <2> QED
    BY <1>2, <1>3, <1>4, <1>6, <2>1, <2>2 DEF ServicesInv
<1>11. CASE DetectorStep
  <2>1. DetectInv'
    BY <1>1, <1>11, NextDetectInv DEF DetectorStep
  <2>2. UNCHANGED vars /\ UNCHANGED serverVars /\ UNCHANGED contractVars
        /\ UNCHANGED crawlerVars
    BY <1>11 DEF DetectorStep
  <2> QED
    BY <1>2, <1>3, <1>4, <1>5, <2>1, <2>2 DEF ServicesInv
<1>12. CASE UNCHANGED serviceVars
  <2>1. UNCHANGED vars /\ UNCHANGED serverVars /\ UNCHANGED contractVars
        /\ UNCHANGED crawlerVars /\ UNCHANGED detectorVars
    BY <1>12 DEF serviceVars
  <2> QED
    BY <1>2, <1>3, <1>4, <1>5, <1>6, <2>1 DEF ServicesInv
<1> QED
  BY <1>7, <1>8, <1>9, <1>10, <1>11, <1>12 DEF ServicesNext

LEMMA ServicesInvHolds == ServicesSpec => []ServicesInv
<1>1. ServicesInv /\ [ServicesNext]_serviceVars => ServicesInv'
  BY NextServicesInv
<1> QED
  BY <1>1, InitServicesInv, PTL DEF ServicesSpec

-----------------------------------------------------------------------------
(* VoteTally (byzantiumhandler.go): whoever acts on a tally has everybody's *)
(* entry, and the list that was found full is never shortened.             *)
THEOREM ActedOnAllHolds == ServicesSpec => []ActedOnAll
<1>1. ServicesInv => ActedOnAll
  BY DEF ServicesInv, TallyInv
<1> QED
  BY <1>1, ServicesInvHolds, PTL

(* ServerLifecycle (server.go), for any number of callers, of starts and   *)
(* of looks at wait: as long as no Stop has given up and no server has     *)
(* ended on its own, a Stop that gets its notice has met the server it     *)
(* stopped, no server closes the listener of a later Start, and no channel *)
(* is used that is nil or closed.                                          *)
THEOREM StopMeetsItsServerHolds == ServicesSpec => []StopMeetsItsServer
<1>1. ServicesInv => StopMeetsItsServer
  BY StopInvMeets DEF ServicesInv, StopMeetsItsServer
<1> QED
  BY <1>1, ServicesInvHolds, PTL

(* ServerLifecycle (server.go): in every build, and whatever goes wrong,   *)
(* a listener that is open has a server, or one that is about to begin.    *)
THEOREM PortIsServedHolds == ServicesSpec => []PortIsServed
<1>1. ServicesInv => PortIsServed
  BY DEF ServicesInv, PortInv, PortIsServed
<1> QED
  BY <1>1, ServicesInvHolds, PTL

(* EthCrawler.go, ddos_detector.go: for any number of pages, capacity of   *)
(* the channels and number of addresses and sources found, the crawler     *)
(* ends with nothing left in its channels and panics only after a failure; *)
(* and main waits for every worker of the detector.                        *)
THEOREM NothingIsLeftHolds == ServicesSpec => []NothingIsLeft
<1>1. CrawlInv => Crawler!EndsDrained /\ Crawler!PanicsOnFailure
  BY CrawlerDrained
<1>2. DetectInv => Detector!WaitsForWorkers
  BY DEF DetectInv
<1>3. ServicesInv => NothingIsLeft
  BY <1>1, <1>2 DEF ServicesInv, NothingIsLeft
<1> QED
  BY <1>3, ServicesInvHolds, PTL

(* ContractNode (broadcast.go, serverendpoint.go) implements Delivery: for *)
(* any number of broadcasts and of servers, whatever the handlers do and   *)
(* whichever connections break, every step of an exchange is a step of the *)
(* delivery or none.                                                       *)
THEOREM KeepsPromiseHolds == ServicesSpec => KeepsPromise
<1>1. ServicesInit => Contract!Promise!Init
  <2> SUFFICES ASSUME ServicesInit PROVE Contract!Promise!Init
    OBVIOUS
  <2>1. /\ client \in [Call -> [at : {"next"}, url : {1}, msg : Contract!Messages]]
        /\ node = [k \in Call |-> [u \in Contract!Url |-> "none"]]
    BY DEF ServicesInit, Contract!Init, Contract!ExchangeInit
  <2>2. \A k \in Call : Posted(k) = {} /\ Contract!Handled(k) = {} /\ client[k].at = "next"
    BY <2>1 DEF Posted, Contract!Handled
  <2>3. \A k \in Call : Contract!Cardinality(Posted(k)) = 0
    BY <2>2, ContractCounts, FS_EmptySet
  <2> QED
    BY <2>2, <2>3 DEF Contract!Promise!Init, Posted
<1>2. ServicesInv /\ [ServicesNext]_serviceVars => [Contract!Promise!Next]_Contract!Promise!vars
  BY NextServicesInv
<1> QED
  BY <1>1, <1>2, ServicesInvHolds, PTL DEF ServicesSpec, KeepsPromise, Contract!KeepsPromise
=============================================================================
