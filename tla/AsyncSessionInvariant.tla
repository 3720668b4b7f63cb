----------------------- MODULE AsyncSessionInvariant -----------------------
(***************************************************************************)
(* The inductive invariant behind the safety properties of AsyncSession.   *)
(* The properties themselves are not inductive: whether a rejected or a    *)
(* cancelled call can still reach the browser depends on where its command *)
(* is (queue, owner, callbacks) and on whether its token is cancelled.     *)
(***************************************************************************)
EXTENDS AsyncSession

\* No element of T occurs twice in q.
Distinct(q, T) == \A i, j \in 1..Len(q) : i # j /\ q[i] = q[j] => q[i] \notin T

Fresh == {"idle", "preparing", "starting"}

\* Between the queue and native dispatch: the owner may still run it.
Upcoming == Range(queue) \cup (IF owner \in {"checked", "started"} THEN {current} ELSE {})

\* The owner has still to answer it.
Unanswered == Range(queue) \cup {current}

\* The owner holds an item exactly while it works on one, and it works on a
\* command only after setting `started`.
OwnerInv ==
    /\ current # None <=> owner \in {"checked", "started", "native"}
    /\ owner \in {"started", "native"} => current \in started
    /\ owner = "native" /\ current \in Commands => current \in dispatched
    /\ owner \in {"none", "constructing"} => Range(queue) \cap Commands = {}
    /\ dispatched \subseteq started

\* A call leaves traces only once it was enqueued.
FreshInv ==
    \A c \in Commands : phase[c] \in Fresh =>
        /\ c \notin Unanswered \cup dispatched \cup pending \cup sweep \cup settled
        /\ c # marked /\ future[c] = "pending"
        /\ \A v \in {"answered", "rejected", "settled"} : Post(c, v) \notin Range(posts)

\* A command is handled once: it is queued once, and neither taken nor answered
\* while it is queued.
OnceInv ==
    /\ Distinct(queue, Commands)
    /\ \A c \in Commands :
        /\ c \in Range(queue) => c # current
        /\ c \in Upcoming => c \notin dispatched
        /\ c \in Unanswered => /\ c \notin settled /\ future[c] # "answered"
                               /\ Post(c, "settled") \notin Range(posts)
                               /\ Post(c, "answered") \notin Range(posts)

\* A rejection is decided only for a command whose token is cancelled and which
\* the owner had not started; a cancelled future has a cancelled token.
RejectInv ==
    /\ \A c \in Commands :
        /\ future[c] \in {"rejected", "cancelled"} => c \in cancelled
        /\ future[c] = "rejected" => c \notin dispatched
        /\ Post(c, "rejected") \in Range(posts) => c \in cancelled \ dispatched
        /\ future[c] = "cancelled" /\ phase[c] = "awaiting"
              => marked = c /\ closer \notin Sweeping
    /\ marked # None => /\ CarriesToken(marked) => marked \in cancelled
                        /\ IF closer \in Sweeping THEN CarriesToken(marked)
                                                  ELSE phase[marked] = "awaiting"

\* What the caller was told: if the owner can still meet the command of a call
\* that ended, the call was not answered and the token is cancelled.
ToldInv ==
    /\ \A c \in Commands : phase[c] \in Finished /\ c \in Unanswered
                              => phase[c] # "answered" /\ c \in cancelled
    /\ RejectedNeverRan
    /\ CancelledIsQuiet

\* The sweep misses nothing: a command the owner may still run is pending or
\* cancelled, then to be swept or cancelled, then cancelled.
SweepInv ==
    \A c \in Commands \ CloseCommands : c \in Upcoming =>
        \/ c \in cancelled
        \/ ~Closed /\ c \in pending
        \/ closer \in {"sweep", "lastsweep"} /\ c \in sweep

CommandInv == OwnerInv /\ FreshInv /\ OnceInv /\ RejectInv /\ ToldInv /\ SweepInv

IInv == TypeOK /\ CommandInv

=============================================================================
