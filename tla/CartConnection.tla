--------------------------- MODULE CartConnection ---------------------------
(***************************************************************************)
(* How the cart service keeps its connection to Valkey: the calls that run *)
(* EnsureRedisConnected at the same time, the connections they open, and   *)
(* the event handlers of these connections, which set the same flag.       *)
(*                                                                         *)
(* A connection is a multiplexer of the client library.  None is ever      *)
(* disposed: one that was replaced goes on reconnecting, and its handlers  *)
(* go on running.  The library runs a handler on a thread of its own, so   *)
(* the events of several failures may be handled late and in any order.    *)
(***************************************************************************)
EXTENDS Naturals, FiniteSets

CONSTANTS Threads,    \* threads that call the store, again and again
          MaxFaults   \* bound: times a link breaks or a command fails

Nobody == "nobody"

ASSUME ThreadsAssumption == Nobody \notin Threads
ASSUME MaxFaultsAssumption == MaxFaults \in Nat

VARIABLES thread,     \* where each call is
          lock,       \* the holder of _locker
          opened,     \* _isRedisConnectionOpened
          current,    \* _redis: the last connection, 0 before the first
          up,         \* connections whose link to Valkey is up
          onRestored, \* connections with a ConnectionRestored handler
          onFailed,   \* ... with a ConnectionFailed handler
          events,     \* events raised and not handled yet
          faults      \* times something failed

connectionVars == <<thread, lock, opened, current, up, onRestored, onFailed, events, faults>>
linkVars == <<up, events, faults>>
storeVars == <<opened, current, onRestored, onFailed>>

\* Where the holder of the lock may be, in the order of the code.
Inside == {"connect", "test", "restored", "failed", "open"}

Connections == 1..(MaxFaults + 1)
Events == [kind : {"restored", "failed"}, of : Connections, fault : 0..MaxFaults]

ConnectionTypeOK ==
  /\ thread \in [Threads -> {"idle", "wait", "use"} \cup Inside]
  /\ lock \in Threads \cup {Nobody}
  /\ opened \in BOOLEAN
  /\ current \in Connections \cup {0}
  /\ up \subseteq 1..current
  /\ onRestored \subseteq 1..current /\ onFailed \subseteq onRestored
  /\ events \subseteq Events
  /\ faults \in 0..MaxFaults

ConnectionInit ==
  /\ thread = [c \in Threads |-> "idle"]
  /\ lock = Nobody
  /\ opened = FALSE /\ current = 0
  /\ up = {} /\ onRestored = {} /\ onFailed = {} /\ events = {}
  /\ faults = 0

-----------------------------------------------------------------------------
(* The calls.                                                              *)

Move(c, place) == thread' = [thread EXCEPT ![c] = place]

\* A call starts with EnsureRedisConnected: nothing to do if the flag is set.
EnsureRedisConnected(c) ==
  /\ thread[c] = "idle"
  /\ Move(c, IF opened THEN "use" ELSE "wait")
  /\ UNCHANGED <<lock, storeVars, linkVars>>

\* Mutant: the flag is not looked at again under the lock.
Enter_NoRecheck(c) ==
  /\ thread[c] = "wait"
  /\ lock = Nobody
  /\ lock' = c /\ Move(c, "connect")
  /\ UNCHANGED <<storeVars, linkVars>>

\* The call gets the lock and looks at the flag again.
Enter(c) ==
  /\ thread[c] = "wait"
  /\ lock = Nobody
  /\ \/ opened /\ UNCHANGED lock /\ Move(c, "use")
     \/ ~opened /\ lock' = c /\ Move(c, "connect")
  /\ UNCHANGED <<storeVars, linkVars>>

\* Something that can fail does.
Fault == faults < MaxFaults /\ faults' = faults + 1

\* Mutant: the flag is set as soon as Connect returns.
Connect_Opens(c) ==
  /\ thread[c] = "connect"
  /\ Move(c, "test")
  /\ current' = current + 1
  /\ opened' = TRUE
  /\ \/ up' = up \cup {current'} /\ UNCHANGED faults
     \/ UNCHANGED up /\ Fault
  /\ UNCHANGED <<lock, onRestored, onFailed, events>>

\* _redis = ConnectionMultiplexer.Connect(...).  With abortConnect=false it also
\* returns when it could not connect, and goes on trying.
Connect(c) ==
  /\ thread[c] = "connect"
  /\ Move(c, "test")
  /\ current' = current + 1
  /\ \/ up' = up \cup {current'} /\ UNCHANGED faults
     \/ UNCHANGED up /\ Fault
  /\ UNCHANGED <<lock, opened, onRestored, onFailed, events>>

\* Mutant: an exception leaves the lock taken.
Throw_KeepsLock(c) ==
  /\ thread[c] = "test"
  /\ (current \notin up /\ UNCHANGED faults) \/ (current \in up /\ Fault)
  /\ Move(c, "idle")
  /\ UNCHANGED <<lock, storeVars, up, events>>

\* The connection is not up, or the test (StringSet, StringGet) fails on it: an
\* exception leaves the lock.
Throw(c) ==
  /\ thread[c] = "test"
  /\ (current \notin up /\ UNCHANGED faults) \/ (current \in up /\ Fault)
  /\ Move(c, "idle") /\ lock' = Nobody
  /\ UNCHANGED <<storeVars, up, events>>

Test(c) ==
  /\ thread[c] = "test"
  /\ current \in up
  /\ Move(c, "restored")
  /\ UNCHANGED <<lock, storeVars, linkVars>>

\* _redis.ConnectionRestored += ...
HandleRestored(c) ==
  /\ thread[c] = "restored"
  /\ onRestored' = onRestored \cup {current}
  /\ Move(c, "failed")
  /\ UNCHANGED <<lock, opened, current, onFailed, linkVars>>

\* _redis.ConnectionFailed += ...
HandleFailed(c) ==
  /\ thread[c] = "failed"
  /\ onFailed' = onFailed \cup {current}
  /\ Move(c, "open")
  /\ UNCHANGED <<lock, opened, current, onRestored, linkVars>>

\* _isRedisConnectionOpened = true, and the lock is released.
Open(c) ==
  /\ thread[c] = "open"
  /\ opened' = TRUE
  /\ lock' = Nobody /\ Move(c, "use")
  /\ UNCHANGED <<current, onRestored, onFailed, linkVars>>

\* The commands of the call on _redis (module CartStore), done or failed.
Use(c) ==
  /\ thread[c] = "use"
  /\ Move(c, "idle")
  /\ UNCHANGED <<lock, storeVars, linkVars>>

Establish(c) ==
  \/ Connect(c) \/ Test(c) \/ Throw(c)
  \/ HandleRestored(c) \/ HandleFailed(c) \/ Open(c)

-----------------------------------------------------------------------------
(* The client library.                                                     *)

Raise(kind, conn, handlers) ==
  events' = IF conn \in handlers
            THEN events \cup {[kind |-> kind, of |-> conn, fault |-> faults']}
            ELSE events

\* A link breaks ...
Break(conn) ==
  /\ conn \in up
  /\ up' = up \ {conn}
  /\ Fault
  /\ Raise("failed", conn, onFailed)
  /\ UNCHANGED <<thread, lock, storeVars>>

\* ... and is restored, whether the store still uses the connection or not.
Restore(conn) ==
  /\ conn \in (1..current) \ up
  /\ up' = up \cup {conn}
  /\ UNCHANGED faults
  /\ Raise("restored", conn, onRestored)
  /\ UNCHANGED <<thread, lock, storeVars>>

\* The handlers set the flag, whichever connection the event is of.
Handle(event) ==
  /\ event \in events
  /\ events' = events \ {event}
  /\ opened' = (event.kind = "restored")
  /\ UNCHANGED <<thread, lock, current, onRestored, onFailed, up, faults>>

ConnectionNext ==
  \/ \E c \in Threads : EnsureRedisConnected(c) \/ Enter(c) \/ Establish(c) \/ Use(c)
  \/ \E conn \in Connections : Break(conn) \/ Restore(conn)
  \/ \E event \in events : Handle(event)

\* A call that is not waiting for the lock proceeds, and one that is gets it if
\* it stays free: the store is not held up for ever by others.
ConnectionFairness ==
  \A c \in Threads :
    /\ WF_connectionVars(Enter(c))
    /\ WF_connectionVars(Establish(c))
    /\ WF_connectionVars(Use(c))

ConnectionSpec == ConnectionInit /\ [][ConnectionNext]_connectionVars
ConnectionFairSpec == ConnectionSpec /\ ConnectionFairness

-----------------------------------------------------------------------------
(* Properties.                                                             *)

\* "Connection is closed or failed - open a new one but only at the first thread":
\* however many calls find the flag cleared, by however many failures of however
\* many old connections, each connection after the first replaces one that failed,
\* or could not be made, for a failure that no other connection was opened for.
OneConnectionPerFault == current <= 1 + faults

\* Calls use a connection whose failure will not clear the flag, tested or not, only
\* after something failed.  One failure is enough as long as the call that opens the
\* connection is at it: a handler of the one before sets the flag meanwhile.  That it
\* stays so takes two, that of the connection before and that of the attempt to
\* replace it.
UntestedTakesFaults ==
  opened /\ current \notin onFailed => faults >= (IF lock = Nobody THEN 2 ELSE 1)

\* No call waits for ever: not for a lock that an exception left taken, nor for
\* calls that open connections over and over.
EveryCallReturns == \A c \in Threads : thread[c] # "idle" ~> thread[c] = "idle"
=============================================================================
