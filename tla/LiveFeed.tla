------------------------------- MODULE LiveFeed -------------------------------
(***************************************************************************)
(* components/LiveFeed/LiveFeed.tsx, from one network's sockets and another*)
(* network's polling to the list of transactions on the page.  Hashes come *)
(* over a socket, wait in its queue, are looked up a few at a time, go into*)
(* a buffer that a timer flushes, and from it into the list.  An error     *)
(* opens a further socket and leaves the old one as it is.                 *)
(*                                                                         *)
(* React is external.  setTxs takes a function of the list; React runs it  *)
(* at once or when it renders next, by which time the buffer, which the    *)
(* function reads, has been emptied and perhaps filled again.              *)
(***************************************************************************)
EXTENDS Naturals, FiniteSets, Sequences, SequencesExt

CONSTANTS
    Txs,
    Concurrency,    \* look-ups of one socket at a time (4 in the code)
    MaxListed,      \* transactions in the list (150)
    MaxErrors,      \* reconnects in all (5)
    MaxQueued,      \* bound: hashes in a queue
    MaxBuffered     \* bound: transactions in the buffer

VARIABLES
    mounted,        \* the component is on the page
    connecting,     \* connectNetwork calls that await the import of ethers
    opened,         \* sockets ever opened: 1 .. opened
    live,           \* those that were not destroyed
    retries,        \* retryCountsRef
    reconnects,     \* timers that will connect again
    queue,          \* hashes a socket announced
    fetching,       \* hashes it is looking up
    polling,        \* a network is polled instead
    buffered,       \* transactions on their way to the list
    flushTimeout,   \* "null", "set", or "fired": neither pending nor null
    updating,       \* React has functions of setTxs to run
    seenRef, txs    \* ids ever listed, and the list

socketVars == <<connecting, opened, live, retries, reconnects, queue, fetching>>
bufferVars == <<buffered, flushTimeout>>
listVars == <<updating, seenRef, txs>>
vars == <<mounted, socketVars, polling, bufferVars, listVars>>

Sockets == 1 .. MaxErrors + 1

(* The effect of the first render connects. *)
Init ==
    /\ mounted = TRUE
    /\ connecting = 1 /\ opened = 0 /\ live = {}
    /\ retries = 0 /\ reconnects = 0
    /\ queue = [s \in Sockets |-> <<>>] /\ fetching = [s \in Sockets |-> {}]
    /\ polling \in BOOLEAN
    /\ buffered = <<>> /\ flushTimeout = "null"
    /\ updating = FALSE /\ seenRef = {} /\ txs = <<>>

-----------------------------------------------------------------------------
(* The import is there.  It is not checked whether the component still is: its socket
   is then never destroyed, though what comes over it is ignored. *)
Connect ==
    /\ connecting > 0
    /\ connecting' = connecting - 1
    /\ opened' = opened + 1
    /\ live' = live \cup {opened'}
    /\ UNCHANGED <<mounted, retries, reconnects, queue, fetching, polling, bufferVars, listVars>>

(* No socket can be made: the network is polled. *)
ConnectFails ==
    /\ connecting > 0
    /\ connecting' = connecting - 1
    /\ polling' = mounted
    /\ UNCHANGED <<mounted, opened, live, retries, reconnects, queue, fetching, bufferVars, listVars>>

(* A queue's next hash is looked up when there is room. *)
processQueue(s, waiting, flying) ==
    LET room == waiting # <<>> /\ Cardinality(flying) < Concurrency
    IN /\ queue' = [queue EXCEPT ![s] = IF room THEN Tail(waiting) ELSE waiting]
       /\ fetching' = [fetching EXCEPT ![s] =
                          IF room THEN flying \cup {Head(waiting)} ELSE flying]

Announced(s, t) ==
    /\ mounted /\ s \in live
    /\ Len(queue[s]) < MaxQueued
    /\ t \notin fetching[s] /\ ~Contains(queue[s], t)
    /\ processQueue(s, Append(queue[s], t), fetching[s])
    /\ UNCHANGED <<mounted, connecting, opened, live, retries, reconnects, polling,
                   bufferVars, listVars>>

LookedUp(s, t) ==
    /\ mounted /\ t \in fetching[s]
    /\ processQueue(s, queue[s], fetching[s] \ {t})

Buffer(list) ==
    /\ Len(buffered) + Len(list) <= MaxBuffered
    /\ buffered' = buffered \o list
    /\ flushTimeout' = IF flushTimeout = "null" THEN "set" ELSE flushTimeout

Found(s, t) ==
    /\ LookedUp(s, t)
    /\ Buffer(<<t>>)
    /\ UNCHANGED <<mounted, connecting, opened, live, retries, reconnects, polling, listVars>>

(* Not found, or not large enough to show. *)
PassedOver(s, t) ==
    /\ LookedUp(s, t)
    /\ UNCHANGED <<mounted, connecting, opened, live, retries, reconnects, polling,
                   bufferVars, listVars>>

(* One more socket, after a while, as long as there are tries left: they are counted
   over all sockets and never given back. *)
handleError ==
    IF retries < MaxErrors
    THEN retries' = retries + 1 /\ reconnects' = reconnects + 1
    ELSE UNCHANGED <<retries, reconnects>>

LookupFails(s, t) ==
    /\ LookedUp(s, t)
    /\ handleError
    /\ UNCHANGED <<mounted, connecting, opened, live, polling, bufferVars, listVars>>

SocketFails(s) ==
    /\ mounted /\ s \in live
    /\ handleError
    /\ UNCHANGED <<mounted, connecting, opened, live, queue, fetching, polling,
                   bufferVars, listVars>>

Reconnect ==
    /\ mounted /\ reconnects > 0
    /\ reconnects' = reconnects - 1
    /\ connecting' = connecting + 1
    /\ UNCHANGED <<mounted, opened, live, retries, queue, fetching, polling,
                   bufferVars, listVars>>

(* A new block; one that holds nothing to show sets the timer all the same. *)
Poll(list) ==
    /\ mounted /\ polling
    /\ Buffer(list)
    /\ UNCHANGED <<mounted, socketVars, polling, listVars>>

-----------------------------------------------------------------------------
(* What the function given to setTxs makes of the list.  Its filter keeps, of what the
   buffer holds when it runs, the places of what was never listed before, each once:
   what it keeps it adds to seenRef on the way. *)
NewToList(batch) == {i \in DOMAIN batch : batch[i] \notin seenRef}
NotSeen(batch) ==
    {i \in DOMAIN batch :
        batch[i] \notin seenRef /\ \A j \in 1 .. i - 1 : batch[j] # batch[i]}

(* They are put before the list, which is then sorted by time and value and cut.  Times
   and values are not modelled: any order may come of it. *)
Merge ==
    LET new == {"new"} \X NotSeen(buffered)
        old == {"old"} \X DOMAIN txs
        At(place) == IF place \in new THEN buffered[place[2]] ELSE txs[place[2]]
        length == Cardinality(new \cup old)
    IN /\ \E sorted \in SetToSeqs(new \cup old) :
              txs' = [n \in 1 .. (IF length > MaxListed THEN MaxListed ELSE length)
                        |-> At(sorted[n])]
       /\ seenRef' = seenRef \cup ToSet(buffered)

(* The timer fires.  An empty buffer returns early, before flushTimeout is null again:
   no timer is set ever after. *)
FlushNothing ==
    /\ mounted /\ flushTimeout = "set" /\ buffered = <<>>
    /\ flushTimeout' = "fired"
    /\ UNCHANGED <<mounted, socketVars, polling, buffered, listVars>>

Flush ==
    /\ mounted /\ flushTimeout = "set" /\ buffered # <<>>
    /\ flushTimeout' = "null"
    /\ buffered' = <<>>
    /\ UNCHANGED <<mounted, socketVars, polling>>

(* React runs the function at once, if it has nothing else to do, *)
FlushAtOnce == Flush /\ ~updating /\ Merge /\ UNCHANGED updating

(* or keeps it. *)
FlushLater == Flush /\ updating' = TRUE /\ UNCHANGED <<seenRef, txs>>

(* It renders and runs what it kept; all but the first find nothing new. *)
Render ==
    /\ mounted /\ updating
    /\ Merge
    /\ updating' = FALSE
    /\ UNCHANGED <<mounted, socketVars, polling, bufferVars>>

(* The page is left: the sockets known by then are destroyed and the timers cleared.
   Of the rest only the calls that await the import go on; what nothing reads any more
   is dropped here. *)
Unmount ==
    /\ mounted
    /\ mounted' = FALSE
    /\ live' = {} /\ retries' = 0 /\ reconnects' = 0 /\ polling' = FALSE
    /\ queue' = [s \in Sockets |-> <<>>] /\ fetching' = [s \in Sockets |-> {}]
    /\ buffered' = <<>> /\ flushTimeout' = "null"
    /\ updating' = FALSE /\ seenRef' = {} /\ txs' = <<>>
    /\ UNCHANGED <<connecting, opened>>

Next ==
    \/ Connect \/ ConnectFails \/ Reconnect
    \/ \E s \in Sockets :
          \/ SocketFails(s)
          \/ \E t \in Txs :
                Announced(s, t) \/ Found(s, t) \/ PassedOver(s, t) \/ LookupFails(s, t)
    \/ Poll(<<>>)
    \/ \E t \in Txs : Poll(<<t>>)
    \/ FlushNothing \/ FlushAtOnce \/ FlushLater \/ Render
    \/ Unmount

Spec == Init /\ [][Next]_vars

-----------------------------------------------------------------------------
(* Properties. *)

(* Every variable has its type. *)
TypeOK ==
    /\ mounted \in BOOLEAN /\ polling \in BOOLEAN /\ updating \in BOOLEAN
    /\ connecting \in Nat /\ retries \in 0 .. MaxErrors /\ reconnects \in 0 .. MaxErrors
    /\ opened \in 0 .. MaxErrors + 1 /\ live \subseteq 1 .. opened
    /\ queue \in [Sockets -> Seq(Txs)]
    /\ \A s \in Sockets :
          fetching[s] \subseteq Txs /\ Cardinality(fetching[s]) <= Concurrency
    /\ buffered \in Seq(Txs) /\ txs \in Seq(Txs) /\ Len(txs) <= MaxListed
    /\ flushTimeout \in {"null", "set", "fired"}
    /\ seenRef \subseteq Txs

(* A transaction is listed once, although sockets that were given up on go on
   announcing it beside the new one, a batch can hold it twice, and React may run a
   merge over a buffer that has changed; and one that was cut off the end of the list
   does not come back as new. *)
ListedOnce ==
    [][/\ \A m, n \in DOMAIN txs' : txs'[m] = txs'[n] => m = n
       /\ ToSet(txs') \cap seenRef \subseteq ToSet(txs)]_vars
===============================================================================
