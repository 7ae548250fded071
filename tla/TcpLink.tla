------------------------------ MODULE TcpLink ------------------------------
(***************************************************************************)
(* TcpAdapter, one persistent socket that many calls share.  A call        *)
(* registers a future under the correlation key of its message, writes     *)
(* under the send lock and waits; the reader resolves the future an answer *)
(* has the key of.  When the socket drops, what is in flight fails and a   *)
(* reconnect task opens another one and signs on again, itself a call.     *)
(*                                                                         *)
(* All of it runs on one event loop: a step is what runs between two       *)
(* awaits.  The host answers in any order, late, or not at all.            *)
(***************************************************************************)
EXTENDS Naturals

CONSTANTS
    Req,        \* the calls of execute, of health checks and of the keepalive
    SignOn,     \* the sign-on exchange of a reconnect
    Key,        \* correlation keys (STANs wrap around, and a step may pin one)
    None,
    MaxDrop     \* bound: how often the socket drops

ASSUME LinkAssumption ==
    /\ SignOn \notin Req /\ None \notin Req \cup {SignOn}
    /\ MaxDrop \in Nat

Call == Req \cup {SignOn}

VARIABLES
    pc,         \* where a call is
    key,        \* the key of its message
    fut,        \* its future
    answer,     \* whose answer resolved the future
    pending,    \* _pending: the call whose future waits under a key
    lock,       \* _send_lock: the call whose drain() holds it
    connected,  \* _connected
    closing,    \* _closing
    task,       \* _reconnect_task
    owed,       \* calls the host may still answer on the socket
    drops,
    shared,     \* history: calls whose key another call had at the same time
    cut         \* history: the socket dropped under the sign-on of a reconnect

vars == <<pc, key, fut, answer, pending, lock, connected, closing, task, owed,
          drops, shared, cut>>

InFlight(c) == pc[c] \in {"lock", "drain", "wait"}

TypeOK ==
    /\ pc \in [Call -> {"idle", "down", "woken", "lock", "drain", "wait", "done"}]
    /\ key \in [Call -> Key]
    /\ fut \in [Call -> {"none", "open", "got", "lost", "cancelled"}]
    /\ answer \in [Call -> Call \cup {None}]
    /\ pending \in [Key -> Call \cup {None}]
    /\ lock \in {c \in Call : pc[c] = "drain"} \cup {None}
    /\ connected \in BOOLEAN /\ closing \in BOOLEAN
    /\ task \in {"never", "open", "signon", "done"}
    /\ owed \subseteq Call /\ drops \in 0 .. MaxDrop
    /\ shared \in [Call -> BOOLEAN] /\ cut \in BOOLEAN

\* connect() has returned and the socket is up.
Init ==
    /\ pc = [c \in Call |-> "idle"] /\ key \in [Call -> Key]
    /\ fut = [c \in Call |-> "none"] /\ answer = [c \in Call |-> None]
    /\ pending = [k \in Key |-> None] /\ lock = None
    /\ connected = TRUE /\ closing = FALSE /\ task = "never"
    /\ owed = {} /\ drops = 0
    /\ shared = [c \in Call |-> FALSE] /\ cut = FALSE

-----------------------------------------------------------------------------
(* _exchange.                                                              *)

\* A frame goes out at once, or drain() stalls until the host reads on.
Write(c, at, up) ==
    /\ \E to \in {"wait", "drain"} :
          /\ pc' = [at EXCEPT ![c] = to]
          /\ lock' = IF to = "drain" THEN c ELSE None
    /\ owed' = IF up THEN owed \cup {c} ELSE owed

\* Calls that could be taken for c: in flight, or answered late.
Rivals(c) == {d \in Call \ {c} : key[d] = key'[c] /\ (InFlight(d) \/ d \in owed)}

\* Nobody has the lock or stands in line for it.
LockIsFree == lock = None /\ \A c \in Call : pc[c] # "lock"

\* From the registration of the future to the first await.
Send(c, at, up) ==
    /\ pending' = [pending EXCEPT ![key'[c]] = c]
    /\ fut' = [fut EXCEPT ![c] = "open"] /\ answer' = [answer EXCEPT ![c] = None]
    /\ shared' = [d \in Call |-> IF d = c THEN Rivals(c) # {} ELSE shared[d] \/ d \in Rivals(c)]
    /\ IF LockIsFree THEN Write(c, at, up)
       ELSE pc' = [at EXCEPT ![c] = "lock"] /\ UNCHANGED <<lock, owed>>

Start(c) ==
    /\ pc[c] = "idle" /\ UNCHANGED key
    /\ \/ connected /\ Send(c, pc, TRUE)
       \/ /\ ~connected
          /\ pc' = [pc EXCEPT ![c] = "down"]
          /\ UNCHANGED <<pending, fut, answer, lock, owed, shared>>
    /\ UNCHANGED <<connected, closing, task, drops, cut>>

\* The event was set while the call waited for it; it does not look again.
Resume(c) ==
    /\ pc[c] = "woken" /\ UNCHANGED key /\ Send(c, pc, connected)
    /\ UNCHANGED <<connected, closing, task, drops, cut>>

\* asyncio.Lock serves those who wait in turn; here it is any of them.
TakeLock(c) ==
    /\ pc[c] = "lock" /\ lock = None /\ Write(c, pc, connected)
    /\ UNCHANGED <<key, fut, answer, pending, connected, closing, task, drops,
                   shared, cut>>

Drained(c) ==
    /\ pc[c] = "drain"
    /\ pc' = [pc EXCEPT ![c] = "wait"]
    /\ lock' = None
    /\ UNCHANGED <<key, fut, answer, pending, connected, closing, task, owed,
                   drops, shared, cut>>

\* mutation: without its finally, a call that ended stays registered.
LeaveEntry(c) ==
    /\ pc' = [pc EXCEPT ![c] = "done"]
    /\ lock' = IF lock = c THEN None ELSE lock
    /\ task' = IF c = SignOn THEN "done" ELSE task
    /\ UNCHANGED <<key, fut, answer, pending, connected, closing, owed, drops, shared, cut>>

\* mutation: the lock is released by hand after drain(), not when it raises.
LeaveLocked(c) ==
    /\ pc' = [pc EXCEPT ![c] = "done"]
    /\ pending' = IF InFlight(c) THEN [pending EXCEPT ![key[c]] = None] ELSE pending
    /\ task' = IF c = SignOn THEN "done" ELSE task
    /\ UNCHANGED <<key, fut, answer, lock, connected, closing, owed, drops, shared, cut>>

\* _exchange returns or raises: the lock is free again and the key forgotten,
\* whoever has it.  After a sign-on, however it ended, the task is finished.
Leave(c) ==
    /\ pc' = [pc EXCEPT ![c] = "done"]
    /\ lock' = IF lock = c THEN None ELSE lock
    /\ pending' = IF InFlight(c) THEN [pending EXCEPT ![key[c]] = None] ELSE pending
    /\ task' = IF c = SignOn THEN "done" ELSE task
    /\ UNCHANGED <<key, fut, answer, connected, closing, owed, drops, shared, cut>>

Finish(c) == pc[c] = "wait" /\ fut[c] # "open" /\ Leave(c)
\* mutation: a sweep of _pending times the calls out that it finds there.
TimeoutSwept(c) ==
    /\ pc[c] = "wait" /\ fut[c] = "open" /\ pending[key[c]] = c
    /\ Leave(c)
Timeout(c) == pc[c] = "wait" /\ fut[c] = "open" /\ Leave(c)
WaitsInVain(c) == pc[c] = "down" /\ Leave(c)
WriteBreaks(c) == pc[c] = "drain" /\ Leave(c)

\* The drain of a load run gives a transaction up, wherever it is.
Cancel(c) == (pc[c] \in {"down", "woken"} \/ InFlight(c)) /\ Leave(c)

-----------------------------------------------------------------------------
(* The reader.                                                             *)

\* mutation: an answer nobody has the key of goes to the one call that waits.
DispatchToOnly(c) ==
    LET waits == {d \in Call : \E k \in Key : pending[k] = d /\ fut[d] = "open"} IN
    IF pending[key[c]] # None \/ \E d \in waits : waits = {d}
    THEN \E d \in waits :
            /\ pending[key[c]] \in {d, None}
            /\ fut' = [fut EXCEPT ![d] = "got"] /\ answer' = [answer EXCEPT ![d] = c]
    ELSE UNCHANGED <<fut, answer>>

Dispatch(c) ==
    LET d == pending[key[c]] IN
    IF d # None /\ fut[d] = "open"
    THEN fut' = [fut EXCEPT ![d] = "got"] /\ answer' = [answer EXCEPT ![d] = c]
    ELSE UNCHANGED <<fut, answer>>

Answered(c) ==
    /\ connected /\ c \in owed
    /\ owed' = owed \ {c}
    /\ Dispatch(c)
    /\ UNCHANGED <<pc, key, pending, lock, connected, closing, task, drops, shared, cut>>

EndPending(how) ==
    /\ fut' = [c \in Call |-> IF \E k \in Key : pending[k] = c /\ fut[c] = "open"
                              THEN how ELSE fut[c]]
    /\ pending' = [k \in Key |-> None]

\* mutation: the calls in flight are forgotten, but not failed.
DropForgets ==
    /\ connected /\ drops < MaxDrop
    /\ drops' = drops + 1 /\ owed' = {}
    /\ connected' = FALSE
    /\ pending' = [k \in Key |-> None]
    /\ task' = IF task \in {"never", "done"} THEN "open" ELSE task
    /\ cut' = (cut \/ task = "signon")
    /\ UNCHANGED <<pc, key, fut, answer, lock, closing, shared>>

\* mutation: a finished reconnect task still counts as one.
DropOnce ==
    /\ connected /\ drops < MaxDrop
    /\ drops' = drops + 1 /\ owed' = {}
    /\ connected' = FALSE
    /\ EndPending("lost")
    /\ task' = IF task = "never" THEN "open" ELSE task
    /\ cut' = (cut \/ task = "signon")
    /\ UNCHANGED <<pc, key, answer, lock, closing, shared>>

\* End of file, a reset, an empty frame or one that cannot be decoded.
OnDisconnect ==
    /\ connected /\ drops < MaxDrop
    /\ drops' = drops + 1 /\ owed' = {}
    /\ connected' = FALSE
    /\ EndPending("lost")
    /\ task' = IF task \in {"never", "done"} THEN "open" ELSE task
    /\ cut' = (cut \/ task = "signon")
    /\ UNCHANGED <<pc, key, answer, lock, closing, shared>>

-----------------------------------------------------------------------------
(* The reconnect task and disconnect().                                    *)

\* The attempt that succeeds; those before it leave no trace.
Open ==
    /\ task = "open"
    /\ connected' = TRUE /\ task' = "signon"
    /\ \E k \in Key : key' = [key EXCEPT ![SignOn] = k]
    /\ Send(SignOn, [c \in Call |-> IF pc[c] = "down" THEN "woken" ELSE pc[c]], TRUE)
    /\ UNCHANGED <<closing, drops, cut>>

\* A member of a group is disconnected when one of its calls failed, while
\* others are in flight; every adapter is when the run is over.
Disconnect ==
    /\ ~closing /\ closing' = TRUE
    /\ connected' = FALSE /\ owed' = {}
    /\ EndPending("cancelled")
    /\ task' = IF task \in {"open", "signon"} THEN "done" ELSE task
    /\ pc' = IF InFlight(SignOn) THEN [pc EXCEPT ![SignOn] = "done"] ELSE pc
    /\ lock' = IF lock = SignOn THEN None ELSE lock
    /\ UNCHANGED <<key, answer, drops, shared, cut>>

-----------------------------------------------------------------------------
Step(c) == Resume(c) \/ TakeLock(c) \/ Finish(c) \/ Timeout(c) \/ WaitsInVain(c)

Next ==
    \/ \E c \in Req : Start(c) \/ Cancel(c)
    \/ \E c \in Call : Step(c) \/ Drained(c) \/ WriteBreaks(c) \/ Answered(c)
    \/ OnDisconnect \/ Open \/ Disconnect

Spec == Init /\ [][Next]_vars

\* Ready callbacks run and timers fire, and one day the host accepts a
\* connection.  It need not answer or read, and nobody has to call or cancel.
FairSpec == Spec /\ WF_vars(Open) /\ \A c \in Call : WF_vars(Step(c))

-----------------------------------------------------------------------------
(* Properties.                                                             *)

\* _pending holds no leftovers: who is registered is in flight, under its own
\* key, and nothing but an answer has happened to it.
PendingIsLive ==
    \A k \in Key : pending[k] # None =>
        LET c == pending[k] IN key[c] = k /\ InFlight(c) /\ fut[c] \in {"open", "got"}

\* A call that waits can be found, by its answer as by the loss of the socket,
\* unless its key was shared: whatever other calls do, it never waits in vain.
Found ==
    \A c \in Call : InFlight(c) /\ fut[c] = "open" /\ ~shared[c] => pending[key[c]] = c

\* Answers late, out of order or from before a reconnect: a call whose key was
\* not shared while it was in flight gets its own answer or none.
OwnAnswer == \A c \in Call : ~shared[c] => answer[c] \in {c, None}

\* Calls end, whatever becomes of the socket and of the answers, as long as no
\* drain() stalls for ever: neither the lock nor drain() is timed.
CallsEnd ==
    (\A c \in Call : []<>(pc[c] # "drain")) =>
        \A c \in Call : pc[c] # "idle" ~> pc[c] \in {"idle", "done"}

\* The link comes back after each drop, unless one met the sign-on.
Reconnects == []<>(connected \/ closing \/ cut)

\* What is said of the reconnect, without the exception.
ComesBack == []<>(connected \/ closing)
=============================================================================
