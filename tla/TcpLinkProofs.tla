--------------------------- MODULE TcpLinkProofs ---------------------------
(***************************************************************************)
(* Proofs about TcpLink, for any number of calls, keys and drops.  The     *)
(* invariant adds to the properties which calls the host may answer: one   *)
(* that is registered, or shares its key with any that is.                 *)
(***************************************************************************)
EXTENDS TcpLink, TLAPS

\* Of two calls with one key, a call in flight knows of the other, if that is
\* in flight too or may still be answered: the reason why Found and OwnAnswer
\* survive the writes to _pending of other calls, and their answers.
Sharers ==
    \A c, d \in Call : c # d /\ key[c] = key[d] /\ InFlight(c)
                       /\ (InFlight(d) \/ d \in owed) => shared[c]

\* A sign-on does not wait for a link and is made in a reconnect task only; the task opens a link only
\* while there is none, and only on a link that is up may the host answer.
OneOpener ==
    /\ pc[SignOn] \notin {"down", "woken"} /\ (InFlight(SignOn) => task = "signon")
    /\ connected => ~closing
    /\ connected \/ closing => task # "open"
    /\ ~connected => owed = {}

Inv == TypeOK /\ PendingIsLive /\ Found /\ OwnAnswer /\ Sharers /\ OneOpener

LEMMA InitInv == Init => Inv
<1> SUFFICES ASSUME Init PROVE Inv
    OBVIOUS
<1>1. TypeOK
  <2>1. /\ pc \in [Call -> {"idle", "down", "woken", "lock", "drain", "wait", "done"}]
        /\ fut \in [Call -> {"none", "open", "got", "lost", "cancelled"}]
        /\ shared \in [Call -> BOOLEAN]
        BY DEF Init
  <2>2. answer \in [Call -> Call \cup {None}] /\ pending \in [Key -> Call \cup {None}]
        BY DEF Init
  <2>3. lock \in {c \in Call : pc[c] = "drain"} \cup {None} /\ owed \subseteq Call
        BY DEF Init
  <2>4. drops \in 0 .. MaxDrop
        BY LinkAssumption DEF Init
  <2>5. /\ connected \in BOOLEAN /\ closing \in BOOLEAN /\ cut \in BOOLEAN
        /\ task \in {"never", "open", "signon", "done"} /\ key \in [Call -> Key]
        BY DEF Init
  <2> QED BY <2>1, <2>2, <2>3, <2>4, <2>5 DEF TypeOK
<1>2. PendingIsLive /\ OwnAnswer
      BY DEF Init, PendingIsLive, OwnAnswer
<1>3. \A c \in Call : ~InFlight(c)
      BY DEF Init, InFlight
<1>4. Found /\ Sharers /\ OneOpener
      BY <1>3 DEF Init, Found, Sharers, OneOpener, Call
<1> QED BY <1>1, <1>2, <1>4 DEF Inv

\* A step that leaves registrations, futures and the link alone.
LEMMA QuietKeeps ==
    ASSUME Inv, TypeOK', \A c \in Call : InFlight(c)' <=> InFlight(c),
           UNCHANGED <<key, fut, answer, pending, connected, closing, task, owed, shared>>,
           pc'[SignOn] = pc[SignOn]
    PROVE  Inv'
<1>1. PendingIsLive'
      BY DEF Inv, TypeOK, PendingIsLive
<1>2. Found' /\ OwnAnswer' /\ Sharers'
      BY DEF Inv, Found, OwnAnswer, Sharers
<1>3. OneOpener'
      BY DEF Inv, OneOpener, Call
<1> QED BY <1>1, <1>2, <1>3 DEF Inv

\* A registration that moves the pc of no call in flight keeps the invariant:
\* who loses its entry shares its key from here on.
LEMMA SendKeeps ==
    ASSUME Inv, NEW c \in Call, NEW at, NEW up \in BOOLEAN, Send(c, at, up),
           ~InFlight(c), c = SignOn => task' = "signon",
           at \in [Call -> {"idle", "down", "woken", "lock", "drain", "wait", "done"}],
           \A d \in Call : at[d] = pc[d] \/ (pc[d] = "down" /\ at[d] = "woken"),
           key' \in [Call -> Key], \A d \in Call : key'[d] = key[d] \/ (d = c /\ owed = {}),
           connected' = up, closing' = closing, drops' = drops, cut' = cut,
           task' = task \/ (c = SignOn /\ task = "open"),
           up => ~closing /\ task' # "open", up \/ owed = {}
    PROVE  Inv'
<1> USE DEF Inv, TypeOK
<1>1. /\ pending' = [pending EXCEPT ![key'[c]] = c]
      /\ fut' = [fut EXCEPT ![c] = "open"]
      /\ answer' = [answer EXCEPT ![c] = None]
      /\ shared' = [d \in Call |-> IF d = c THEN Rivals(c) # {}
                                   ELSE shared[d] \/ d \in Rivals(c)]
      BY DEF Send
<1>2. \E to \in {"lock", "drain", "wait"} : pc' = [at EXCEPT ![c] = to]
      BY DEF Send, Write
<1>3. /\ owed' \in {owed, owed \cup {c}} /\ (up \/ owed' = owed)
      /\ lock' \in {d \in Call : pc'[d] = "drain"} \cup {None}
  <2>1. CASE LockIsFree
    <3>1. PICK to \in {"wait", "drain"} :
             /\ pc' = [at EXCEPT ![c] = to]
             /\ lock' = IF to = "drain" THEN c ELSE None
          BY <2>1 DEF Send, Write
    <3>2. owed' = IF up THEN owed \cup {c} ELSE owed
          BY <2>1 DEF Send, Write
    <3> QED BY <3>1, <3>2
  <2>2. CASE ~LockIsFree
    <3>1. pc' = [at EXCEPT ![c] = "lock"] /\ lock' = lock /\ owed' = owed
          BY <2>2 DEF Send
    <3>2. lock = None \/ (lock \in Call /\ lock # c /\ at[lock] = "drain")
          BY DEF InFlight
    <3> QED BY <3>1, <3>2
  <2> QED BY <2>1, <2>2
<1>4. \A d \in Call : d # c => (InFlight(d)' <=> InFlight(d))
      BY <1>2 DEF InFlight
<1>5. InFlight(c)'
      BY <1>2 DEF InFlight
<1>6. \A d \in Call \ {c} : d \in Rivals(c) <=> key[d] = key'[c] /\ (InFlight(d) \/ d \in owed)
      BY DEF Rivals
<1>7. TypeOK'
  <2>1. pc' \in [Call -> {"idle", "down", "woken", "lock", "drain", "wait", "done"}]
        BY <1>2
  <2>2. /\ fut' \in [Call -> {"none", "open", "got", "lost", "cancelled"}]
        /\ answer' \in [Call -> Call \cup {None}]
        /\ pending' \in [Key -> Call \cup {None}]
        BY <1>1
  <2>3. shared' \in [Call -> BOOLEAN]
    <3>1. \A d \in Call : (IF d = c THEN Rivals(c) # {} ELSE shared[d] \/ d \in Rivals(c)) \in BOOLEAN
          OBVIOUS
    <3> QED BY <1>1, <3>1
  <2>4. task' \in {"never", "open", "signon", "done"} /\ connected' \in BOOLEAN
        OBVIOUS
  <2> QED BY <1>3, <2>1, <2>2, <2>3, <2>4
<1>8. PendingIsLive'
      BY <1>1, <1>4, <1>5, LinkAssumption DEF PendingIsLive, Call
<1>9. Found'
      BY <1>1, <1>4, <1>5, <1>6 DEF Found
<1>10. OwnAnswer'
      BY <1>1, <1>6 DEF OwnAnswer
<1>11. Sharers'
  <2> SUFFICES ASSUME NEW d \in Call, NEW e \in Call, d # e, key'[d] = key'[e],
                      InFlight(d)', InFlight(e)' \/ e \in owed'
               PROVE  shared'[d]
      BY DEF Sharers
  <2>1. CASE d = c
        BY <1>1, <1>3, <1>4, <1>6, <2>1
  <2>2. CASE e = c
        BY <1>1, <1>4, <1>6, <2>2
  <2>3. CASE d # c /\ e # c
        BY <1>1, <1>3, <1>4, <2>3 DEF Sharers
  <2> QED BY <2>1, <2>2, <2>3
<1>12. OneOpener'
  <2>1. pc'[SignOn] \notin {"down", "woken"}
        BY <1>2 DEF OneOpener, Call
  <2>2. InFlight(SignOn)' => task' = "signon"
        BY <1>4 DEF OneOpener, Call
  <2> QED BY <1>3, <2>1, <2>2 DEF OneOpener
<1> QED BY <1>7, <1>8, <1>9, <1>10, <1>11, <1>12

\* A call that leaves takes its own entry along, or one whose owner has
\* shared the key with it.
LEMMA LeaveKeeps ==
    ASSUME Inv, NEW c \in Call, Leave(c)
    PROVE  Inv'
<1> USE DEF Inv, TypeOK
<1>1. \A d \in Call : d # c => (InFlight(d)' <=> InFlight(d))
      BY DEF Leave, InFlight
<1>2. ~InFlight(c)'
      BY DEF Leave, InFlight
<1>3. \A k \in Key : pending'[k] = pending[k] \/ (pending'[k] = None /\ k = key[c] /\ InFlight(c))
      BY DEF Leave
<1>4. TypeOK'
      BY LinkAssumption DEF Leave, Call
<1>5. \A k \in Key : pending'[k] # c
      BY LinkAssumption DEF Leave, PendingIsLive, Call
<1>6. PendingIsLive'
      BY <1>1, <1>3, <1>5 DEF Leave, PendingIsLive
<1>7. Found'
      BY <1>1, <1>2, <1>3 DEF Leave, Found, Sharers
<1>8. Sharers'
      BY <1>1, <1>2 DEF Leave, Sharers
<1>9. OneOpener'
      BY <1>1, <1>2 DEF Leave, OneOpener, Call
<1> QED BY <1>4, <1>6, <1>7, <1>8, <1>9 DEF Leave, OwnAnswer

LEMMA StartKeeps ==
    ASSUME Inv, NEW c \in Req, Start(c)
    PROVE  Inv'
<1>1. CASE connected
      BY <1>1, SendKeeps, LinkAssumption DEF Start, Inv, TypeOK, InFlight, OneOpener, Call
<1>2. CASE ~connected
  <2>1. \A d \in Call : InFlight(d)' <=> InFlight(d)
        BY <1>2 DEF Start, Inv, TypeOK, InFlight
  <2>2. TypeOK'
        BY <1>2 DEF Start, Inv, TypeOK
  <2>3. /\ UNCHANGED <<key, fut, answer, pending, connected, closing, task, owed, shared>>
        /\ pc'[SignOn] = pc[SignOn]
        BY <1>2, LinkAssumption DEF Start, Inv, TypeOK, Call
  <2> QED BY <2>1, <2>2, <2>3, QuietKeeps
<1> QED BY <1>1, <1>2

LEMMA ResumeKeeps ==
    ASSUME Inv, NEW c \in Call, Resume(c)
    PROVE  Inv'
<1>1. /\ Send(c, pc, connected) /\ connected \in BOOLEAN
      /\ UNCHANGED <<key, connected, closing, task, drops, cut>>
      BY DEF Resume, Inv, TypeOK
<1>2. /\ pc \in [Call -> {"idle", "down", "woken", "lock", "drain", "wait", "done"}]
      /\ ~InFlight(c) /\ key' \in [Call -> Key]
      BY <1>1 DEF Resume, Inv, TypeOK, InFlight
<1>3. /\ connected => ~closing /\ task' # "open"
      /\ connected \/ owed = {}
      BY <1>1 DEF Inv, OneOpener
<1>4. c # SignOn
      BY DEF Resume, Inv, OneOpener
<1> QED BY <1>1, <1>2, <1>3, <1>4, SendKeeps

\* Between two awaits of a call that is registered nothing is registered.
LEMMA LockKeeps ==
    ASSUME Inv, NEW c \in Call, TakeLock(c) \/ Drained(c)
    PROVE  Inv'
<1> USE DEF Inv, TypeOK
<1>1. \A d \in Call : InFlight(d)' <=> InFlight(d)
      BY DEF TakeLock, Drained, Write, InFlight
<1>2. InFlight(c) /\ owed' \subseteq owed \cup {c} /\ (connected \/ owed' = owed)
      BY DEF TakeLock, Drained, Write, InFlight
<1>3. TypeOK'
      BY LinkAssumption DEF TakeLock, Drained, Write, Call
<1>4. UNCHANGED <<key, fut, answer, pending, connected, closing, task, shared>>
      BY DEF TakeLock, Drained
<1>5. Sharers'
      BY <1>1, <1>2, <1>4 DEF Sharers
<1>6. pc'[SignOn] \notin {"down", "woken"}
      BY LinkAssumption DEF TakeLock, Drained, Write, OneOpener, Call
<1> QED BY <1>1, <1>2, <1>3, <1>4, <1>5, <1>6 DEF PendingIsLive, Found, OwnAnswer, OneOpener, Call

\* Who is resolved is registered under the key of the answer, so it is the
\* call the host answers or shares its key.
LEMMA AnsweredKeeps ==
    ASSUME Inv, NEW c \in Call, Answered(c)
    PROVE  Inv'
<1> USE DEF Inv, TypeOK
<1> DEFINE d == pending[key[c]]
<1>1. UNCHANGED <<pc, key, pending, lock, connected, closing, task, drops, shared, cut>>
      /\ c \in owed /\ owed' = owed \ {c}
      BY DEF Answered
<1>2. CASE d # None /\ fut[d] = "open"
  <2>1. fut' = [fut EXCEPT ![d] = "got"] /\ answer' = [answer EXCEPT ![d] = c]
        BY <1>2 DEF Answered, Dispatch
  <2>2. d \in Call /\ key[d] = key[c] /\ InFlight(d)
        BY <1>2 DEF PendingIsLive
  <2>3. d = c \/ shared[d]
        BY <1>1, <2>2 DEF Sharers
  <2>4. OwnAnswer'
        BY <1>1, <2>1, <2>3 DEF OwnAnswer
  <2> QED BY <1>1, <2>1, <2>2, <2>4 DEF PendingIsLive, Found, Sharers, OneOpener, InFlight
<1>3. CASE ~(d # None /\ fut[d] = "open")
      BY <1>1, <1>3 DEF Answered, Dispatch, PendingIsLive, Found, OwnAnswer, Sharers, OneOpener,
         InFlight
<1> QED BY <1>2, <1>3

\* Whoever waits unshared is registered, so it hears of the end.
LEMMA EndKeeps ==
    ASSUME Inv, OnDisconnect \/ Disconnect
    PROVE  Inv'
<1> USE DEF Inv, TypeOK
<1>1. /\ pending' = [k \in Key |-> None] /\ owed' = {} /\ connected' = FALSE
      /\ UNCHANGED <<key, answer, shared>>
      BY DEF OnDisconnect, Disconnect, EndPending
<1>2. \A c \in Call : fut'[c] = "open" => /\ fut[c] = "open"
                                          /\ \A k \in Key : pending[k] # c
      BY DEF OnDisconnect, Disconnect, EndPending
<1>3. \A c \in Call : InFlight(c)' => InFlight(c)
      BY DEF OnDisconnect, Disconnect, InFlight
<1>4. TypeOK'
  <2>1. /\ fut' \in [Call -> {"none", "open", "got", "lost", "cancelled"}]
        /\ pending' \in [Key -> Call \cup {None}]
        BY DEF OnDisconnect, Disconnect, EndPending
  <2>2. /\ pc' \in [Call -> {"idle", "down", "woken", "lock", "drain", "wait", "done"}]
        /\ lock' \in {c \in Call : pc'[c] = "drain"} \cup {None}
        BY LinkAssumption DEF OnDisconnect, Disconnect, Call
  <2>3. /\ closing' \in BOOLEAN /\ task' \in {"never", "open", "signon", "done"}
        BY DEF OnDisconnect, Disconnect
  <2>5. drops' \in 0 .. MaxDrop
        BY LinkAssumption DEF OnDisconnect, Disconnect
  <2>6. cut' \in BOOLEAN
        BY DEF OnDisconnect, Disconnect
  <2>4. key' \in [Call -> Key] /\ answer' \in [Call -> Call \cup {None}]
        /\ shared' \in [Call -> BOOLEAN]
        BY <1>1
  <2> QED BY <1>1, <2>1, <2>2, <2>3, <2>4, <2>5, <2>6
<1>5. OneOpener'
      BY <1>1, <1>3 DEF OnDisconnect, Disconnect, OneOpener, InFlight, Call
<1> QED BY <1>1, <1>2, <1>3, <1>4, <1>5 DEF PendingIsLive, Found, OwnAnswer, Sharers

LEMMA OpenKeeps == ASSUME Inv, Open PROVE Inv'
<1> DEFINE at == [c \in Call |-> IF pc[c] = "down" THEN "woken" ELSE pc[c]]
<1>1. Send(SignOn, at, TRUE)
      BY DEF Open
<1>2. /\ owed = {} /\ ~InFlight(SignOn) /\ SignOn \in Call
      BY DEF Open, Inv, OneOpener, Call
<1>3. /\ at \in [Call -> {"idle", "down", "woken", "lock", "drain", "wait", "done"}]
      /\ \A d \in Call : at[d] = pc[d] \/ (pc[d] = "down" /\ at[d] = "woken")
      BY DEF Inv, TypeOK
<1>4. key' \in [Call -> Key] /\ \A d \in Call : key'[d] = key[d] \/ d = SignOn
      BY DEF Open, Inv, TypeOK
<1>5. ~closing
      BY DEF Open, Inv, TypeOK, OneOpener
<1> QED BY <1>1, <1>2, <1>3, <1>4, <1>5, SendKeeps DEF Open

LEMMA NextInv == Inv /\ [Next]_vars => Inv'
<1> SUFFICES ASSUME Inv, [Next]_vars PROVE Inv'
    OBVIOUS
<1>1. ASSUME NEW c \in Req, Start(c) \/ Cancel(c) PROVE Inv'
      BY <1>1, StartKeeps, LeaveKeeps DEF Cancel, Call
<1>2. ASSUME NEW c \in Call, Step(c) \/ Drained(c) \/ WriteBreaks(c) \/ Answered(c)
      PROVE  Inv'
      BY <1>2, ResumeKeeps, LockKeeps, LeaveKeeps, AnsweredKeeps
         DEF Step, Finish, Timeout, WaitsInVain, WriteBreaks
<1>3. CASE UNCHANGED vars
  <2>1. TypeOK'
        BY <1>3 DEF vars, Inv, TypeOK
  <2> QED BY <1>3, <2>1, QuietKeeps DEF vars, InFlight
<1> QED BY <1>1, <1>2, <1>3, EndKeeps, OpenKeeps DEF Next

LEMMA InvHolds == Spec => []Inv
BY InitInv, NextInv, PTL DEF Spec

-----------------------------------------------------------------------------
\* Calls, futures, the table of keys, the lock and the task keep their shapes;
\* in particular whoever holds the send lock is inside drain().
THEOREM LinkTypes == Spec => []TypeOK
BY InvHolds, PTL DEF Inv

\* _pending holds calls in flight only, each under its own key, however calls
\* time out, are cancelled, share keys or lose the socket.
THEOREM PendingHasNoLeftovers == Spec => []PendingIsLive
BY InvHolds, PTL DEF Inv

\* A call that waits with a key of its own can be found: by its answer, and by
\* the loss of the socket.
THEOREM WaitingIsFound == Spec => []Found
BY InvHolds, PTL DEF Inv

\* A call with a key of its own gets its own answer or none, whatever arrives
\* late, out of order or after a reconnect.
THEOREM AnswersAreOwn == Spec => []OwnAnswer
BY InvHolds, PTL DEF Inv
=============================================================================
