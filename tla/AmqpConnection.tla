---------------------------- MODULE AmqpConnection ----------------------------
(***************************************************************************)
(* amqpbackend.Connection: the watcher of each dialled connection, the     *)
(* reconnect loop with its flag and its one-slot signal, Stop and Dead.    *)
(*                                                                         *)
(* A dialled connection lives in a slot, which is reused once it is closed *)
(* and unwatched.  The generation is only ever compared for equality, and  *)
(* a watcher of an older generation returns without a trace: installing a  *)
(* connection therefore switches off the watchers that still watch.        *)
(***************************************************************************)
EXTENDS Faults

CONSTANTS Slots,         \* bound: connections that are open, held or watched at a time
          Loops,         \* bound: goroutines that are in reconnect or about to leave it
          MaxReconnectAttempts

ASSUME ConnectionAssumption == MaxReconnectAttempts \in Nat \ {0} /\ 0 \notin Slots /\ Slots # {}

VARIABLES
    conn,           \* the slot of c.conn, 0 for nil
    open,           \* the slots whose connection is open
    watcher,        \* "off", "watching", "lost" (about to call startReconnect), "cas" (not
                    \* dead, about to take the flag), "busy" (the flag was taken, about to
                    \* send the signal)
    reconnecting, reconnectSignal,
    loop,           \* where each reconnect goroutine is
    dead,
    stop            \* Stop: "no", "closing" (c.closed is closed), "closed" (the connection too)

connVars == <<conn, open, watcher, reconnecting, reconnectSignal, loop, dead, stop, faults>>

InReconnect == {"backoff", "dial", "install", "callback", "undo", "check", "final"}

ConnTypeOK ==
    /\ conn \in Slots \cup {0} /\ open \subseteq Slots
    /\ watcher \in [Slots -> {"off", "watching", "lost", "cas", "busy"}]
    /\ reconnecting \in BOOLEAN /\ reconnectSignal \in BOOLEAN /\ dead \in BOOLEAN
    /\ loop \in [Loops -> [at : InReconnect \cup {"off", "release", "look", "retake", "return"},
                           attempts : 0 .. MaxReconnectAttempts, dialled : Slots \cup {0}]]
    /\ stop \in {"no", "closing", "closed"} /\ faults \in 0 .. MaxFaults

NoLoop == [at |-> "off", attempts |-> 0, dialled |-> 0]
NewLoop == [NoLoop EXCEPT !.at = "backoff"]
Fresh == CHOOSE s \in Slots : TRUE

\* Connect has dialled, or with WithLazyConnect has only started the loop.
ConnInit ==
    /\ \/ /\ conn = Fresh /\ open = {Fresh} /\ reconnecting = FALSE
          /\ watcher = [s \in Slots |-> IF s = Fresh THEN "watching" ELSE "off"]
          /\ loop = [g \in Loops |-> NoLoop]
       \/ /\ conn = 0 /\ open = {} /\ reconnecting = TRUE
          /\ watcher = [s \in Slots |-> "off"]
          /\ \E g \in Loops : loop = [h \in Loops |-> IF h = g THEN NewLoop ELSE NoLoop]
    /\ reconnectSignal = FALSE /\ dead = FALSE /\ stop = "no" /\ faults = 0

--------------------------------------------------------------------------------
(* watchConnection and startReconnect. *)

\* A connection closes: its watcher passes the checks of the generation and of c.closed.
ConnectionLost(s) ==
    /\ s \in open /\ Fault
    /\ open' = open \ {s}
    /\ watcher' = [watcher EXCEPT ![s] = IF @ # "watching" THEN @
                                         ELSE IF stop = "no" THEN "lost" ELSE "off"]
    /\ UNCHANGED <<conn, reconnecting, reconnectSignal, loop, dead, stop>>

\* startReconnect: not after Dead fired, ...
StartReconnect(s) ==
    /\ watcher[s] = "lost"
    /\ watcher' = [watcher EXCEPT ![s] = IF dead THEN "off" ELSE "cas"]
    /\ UNCHANGED <<conn, open, reconnecting, reconnectSignal, loop, dead, stop, faults>>

\* ... it takes the flag and starts a loop, or finds the flag taken ...
TakeFlag(s) ==
    /\ watcher[s] = "cas"
    /\ \/ /\ reconnecting
          /\ watcher' = [watcher EXCEPT ![s] = "busy"] /\ UNCHANGED <<reconnecting, loop>>
       \/ /\ ~reconnecting /\ reconnecting' = TRUE
          /\ watcher' = [watcher EXCEPT ![s] = "off"]
          /\ \E g \in Loops : loop[g].at = "off" /\ loop' = [loop EXCEPT ![g] = NewLoop]
    /\ UNCHANGED <<conn, open, reconnectSignal, dead, stop, faults>>

\* ... and queues the signal, which one slot holds.
QueueSignal(s) ==
    /\ watcher[s] = "busy"
    /\ reconnectSignal' = TRUE /\ watcher' = [watcher EXCEPT ![s] = "off"]
    /\ UNCHANGED <<conn, open, reconnecting, loop, dead, stop, faults>>

--------------------------------------------------------------------------------
(* reconnect. *)

Goto(g, at) == loop' = [loop EXCEPT ![g].at = at]
Retry(g) == loop' = [loop EXCEPT ![g].at = "backoff", ![g].attempts = @ + 1]

\* The head of the loop and the backoff: give up when dead or out of attempts, leave
\* when the connection is being stopped, or dial.
Backoff(g) ==
    /\ loop[g].at = "backoff"
    /\ dead' = (dead \/ loop[g].attempts >= MaxReconnectAttempts)
    /\ Goto(g, IF dead' \/ stop # "no" THEN "release" ELSE "dial")
    /\ UNCHANGED <<conn, open, watcher, reconnecting, reconnectSignal, stop, faults>>

Dial(g) ==
    /\ loop[g].at = "dial"
    /\ \/ /\ \E s \in Slots \ (open \cup {conn}) :
                /\ watcher[s] = "off" /\ open' = open \cup {s}
                /\ loop' = [loop EXCEPT ![g].at = "install", ![g].dialled = s]
          /\ UNCHANGED faults
       \/ Fault /\ Retry(g) /\ UNCHANGED open
    /\ UNCHANGED <<conn, watcher, reconnecting, reconnectSignal, dead, stop>>

\* Fault model of reconnect: the dialled connection is installed without a look at c.closed.
InstallAlways(g) ==
    /\ loop[g].at = "install"
    /\ conn' = loop[g].dialled /\ open' = open \ {conn}
    /\ watcher' = [s \in Slots |-> IF s = conn' THEN "watching"
                                   ELSE IF watcher[s] = "watching" THEN "off" ELSE watcher[s]]
    /\ Goto(g, "callback")
    /\ UNCHANGED <<reconnecting, reconnectSignal, dead, stop, faults>>

\* Under the lock: abandon the connection, or install it, close the old one and watch.
\* A connection that closed since the dial makes its watcher return at once.
Install(g) ==
    /\ loop[g].at = "install"
    /\ \/ /\ stop # "no" \/ dead
          /\ open' = open \ {loop[g].dialled} /\ Goto(g, "release")
          /\ UNCHANGED <<conn, watcher>>
       \/ /\ stop = "no" /\ ~dead
          /\ conn' = loop[g].dialled /\ open' = open \ {conn}
          /\ watcher' = [s \in Slots |-> IF s = conn' THEN IF s \in open THEN "watching" ELSE "lost"
                                         ELSE IF watcher[s] = "watching" THEN "off" ELSE watcher[s]]
          /\ Goto(g, "callback")
    /\ UNCHANGED <<reconnecting, reconnectSignal, dead, stop, faults>>

\* onReconnect fails: nobody may use the connection, and the generation moves on.
CallOnReconnect(g) ==
    /\ loop[g].at = "callback"
    /\ \/ Goto(g, "check") /\ UNCHANGED <<conn, open, watcher, faults>>
       \/ /\ Fault /\ Goto(g, "undo")
          /\ open' = open \ {loop[g].dialled}
          /\ IF conn = loop[g].dialled
             THEN /\ conn' = 0
                  /\ watcher' = [s \in Slots |-> IF watcher[s] = "watching" THEN "off" ELSE watcher[s]]
             ELSE /\ UNCHANGED conn
                  /\ watcher' = [watcher EXCEPT ![loop[g].dialled] =
                                    IF @ = "watching" THEN "off" ELSE @]
    /\ UNCHANGED <<reconnecting, reconnectSignal, dead, stop>>

\* Fault model of reconnect: a failed callback ends the loop.
UndoGivesUp(g) ==
    /\ loop[g].at = "undo" /\ reconnectSignal' = FALSE
    /\ loop' = [loop EXCEPT ![g].at = "release"]
    /\ UNCHANGED <<conn, open, watcher, reconnecting, dead, stop, faults>>

\* The signal that its watcher may have queued is dropped, and the loop tries again.
UndoDrain(g) ==
    /\ loop[g].at = "undo" /\ reconnectSignal' = FALSE /\ Retry(g)
    /\ UNCHANGED <<conn, open, watcher, reconnecting, dead, stop, faults>>

\* Did the connection survive onReconnect?
CheckAlive(g) ==
    /\ loop[g].at = "check"
    /\ IF conn \in open THEN loop' = [loop EXCEPT ![g].at = "final", ![g].attempts = 0]
                        ELSE Retry(g)
    /\ UNCHANGED <<conn, open, watcher, reconnecting, reconnectSignal, dead, stop, faults>>

\* The last look at the signal: another round, or out of reconnect.
FinalDrain(g) ==
    /\ loop[g].at = "final"
    /\ reconnectSignal' = FALSE
    /\ Goto(g, IF reconnectSignal THEN "backoff" ELSE "release")
    /\ UNCHANGED <<conn, open, watcher, reconnecting, dead, stop, faults>>

--------------------------------------------------------------------------------
(* drainPendingReconnect, whose steps on the flag and the signal are separate. *)

ReleaseFlag(g) ==
    /\ loop[g].at = "release" /\ reconnecting' = FALSE
    /\ IF dead THEN reconnectSignal' = FALSE /\ loop' = [loop EXCEPT ![g] = NoLoop]
               ELSE Goto(g, "look") /\ UNCHANGED reconnectSignal
    /\ UNCHANGED <<conn, open, watcher, dead, stop, faults>>

LookAgain(g) ==
    /\ loop[g].at = "look" /\ reconnectSignal' = FALSE
    /\ IF reconnectSignal /\ ~dead THEN Goto(g, "retake") ELSE loop' = [loop EXCEPT ![g] = NoLoop]
    /\ UNCHANGED <<conn, open, watcher, reconnecting, dead, stop, faults>>

\* Fault model of drainPendingReconnect: the flag is stored, not compared and swapped.
RetakeStored(g) ==
    /\ loop[g].at = "retake" /\ reconnecting' = TRUE
    /\ loop' = [loop EXCEPT ![g] = NewLoop]
    /\ UNCHANGED <<conn, open, watcher, reconnectSignal, dead, stop, faults>>

RetakeFlag(g) ==
    /\ loop[g].at = "retake"
    /\ \/ reconnecting /\ Goto(g, "return") /\ UNCHANGED reconnecting
       \/ /\ ~reconnecting /\ reconnecting' = TRUE
          /\ loop' = [loop EXCEPT ![g] = NewLoop]
    /\ UNCHANGED <<conn, open, watcher, reconnectSignal, dead, stop, faults>>

ReturnSignal(g) ==
    /\ loop[g].at = "return" /\ reconnectSignal' = TRUE
    /\ loop' = [loop EXCEPT ![g] = NoLoop]
    /\ UNCHANGED <<conn, open, watcher, reconnecting, dead, stop, faults>>

--------------------------------------------------------------------------------
(* Stop: c.closed first, then the connection under the lock. *)

StopSignal ==
    /\ stop = "no" /\ stop' = "closing"
    /\ watcher' = [s \in Slots |-> IF watcher[s] = "watching" THEN "off" ELSE watcher[s]]
    /\ UNCHANGED <<conn, open, reconnecting, reconnectSignal, loop, dead, faults>>

StopClose ==
    /\ stop = "closing" /\ stop' = "closed" /\ open' = open \ {conn}
    /\ UNCHANGED <<conn, watcher, reconnecting, reconnectSignal, loop, dead, faults>>

WatcherStep(s) == StartReconnect(s) \/ TakeFlag(s) \/ QueueSignal(s)

LoopStep(g) ==
    \/ Backoff(g) \/ Dial(g) \/ Install(g) \/ CallOnReconnect(g) \/ UndoDrain(g)
    \/ CheckAlive(g) \/ FinalDrain(g)
    \/ ReleaseFlag(g) \/ LookAgain(g) \/ RetakeFlag(g) \/ ReturnSignal(g)

ConnNext ==
    \/ \E s \in Slots : ConnectionLost(s) \/ WatcherStep(s)
    \/ \E g \in Loops : LoopStep(g)
    \/ StopSignal \/ StopClose

\* Goroutines run.
ConnFairness ==
    /\ \A s \in Slots : WF_connVars(WatcherStep(s))
    /\ \A g \in Loops : WF_connVars(LoopStep(g))
    /\ WF_connVars(StopClose)

ConnSpec == ConnInit /\ [][ConnNext]_connVars /\ ConnFairness

--------------------------------------------------------------------------------
Up == conn \in open

\* A queued signal with no loop and no watcher left to act on it.
Stranded ==
    /\ reconnectSignal /\ ~Up /\ ~dead /\ stop = "no"
    /\ \A g \in Loops : loop[g].at = "off"
    /\ \A s \in Slots : watcher[s] \in {"off", "watching"}

\* "an atomic guard to prevent overlapping reconnect loops": at most one goroutine is
\* in reconnect, however many watchers fire while a loop lets go of the flag.
OneReconnectLoop == \A g, h \in Loops : {loop[g].at, loop[h].at} \subseteq InReconnect => g = h

\* No connection leaks: an open one is c.conn or is about to be installed by its loop;
\* and none is left once Stop has closed ("a live TCP zombie surviving shutdown").
NoZombieConnection ==
    /\ open \subseteq {conn} \cup {loop[g].dialled : g \in {h \in Loops : loop[h].at = "install"}}
    /\ stop = "closed" => conn \notin open

\* Connections and loops have one owner: one reconnect loop, and no connection that nobody
\* closes.
LinksAreOwned == OneReconnectLoop /\ NoZombieConnection

\* Again and again the connection is up, unless the attempts are used up, Stop was
\* called, or the signal of a drop is left with nobody to read it.
ConnSettled == Up \/ dead \/ stop # "no" \/ Stranded

\* "leaving a buffered signal with no loop running and the connection down forever" is
\* the window that drainPendingReconnect is said to close.
NoStrandedSignal == ~Stranded
================================================================================
