-------------------------------- MODULE Registry --------------------------------
(***************************************************************************)
(* agent.py: named browser controllers kept alive between the calls of a   *)
(* program.  Names are looked up, added and removed under one lock; the    *)
(* browsers are closed after it is released.                               *)
(***************************************************************************)
EXTENDS Naturals, FiniteSets

CONSTANTS
    Threads,        \* threads that use the registry
    Names,          \* names of controllers
    Controllers,    \* controllers that can be made
    Absent

ASSUME RegistryAssumption == Absent \notin Threads \union Names \union Controllers

VARIABLES
    connections,    \* _CONNECTIONS: name -> the controller registered under it
    nameOf,         \* controller -> the name it was made with
    life,           \* controller -> new, open, closed
    closing,        \* thread -> the controllers it still has to close
    duty            \* thread -> the controllers the call it is in took out

registryVars == <<connections, nameOf, life, closing, duty>>

RegistryInit ==
    /\ connections = [n \in Names |-> Absent]
    /\ nameOf = [b \in Controllers |-> Absent]
    /\ life = [b \in Controllers |-> "new"]
    /\ closing = [t \in Threads |-> {}]
    /\ duty = [t \in Threads |-> {}]

Free(t) == duty[t] = {}

\* _require_available
Available(n) == connections[n] = Absent

\* create
Create(t, n) ==
    /\ Free(t) /\ Available(n)
    /\ \E b \in Controllers :
          /\ life[b] = "new"
          /\ life' = [life EXCEPT ![b] = "open"]
          /\ nameOf' = [nameOf EXCEPT ![b] = n]
          /\ connections' = [connections EXCEPT ![n] = b]
    /\ UNCHANGED <<closing, duty>>

TakeOut(t, names) ==
    /\ closing' = [closing EXCEPT ![t] = {connections[n] : n \in names}]
    /\ duty' = [duty EXCEPT ![t] = {connections[n] : n \in names}]
    /\ connections' = [n \in Names |-> IF n \in names THEN Absent ELSE connections[n]]
    /\ UNCHANGED <<nameOf, life>>

Registered == {n \in Names : connections[n] # Absent}

\* close: pop under the lock, then close.
CloseOne(t, n) ==
    /\ Free(t) /\ n \in Registered
    /\ TakeOut(t, {n})

\* close_all: take a copy and clear under the lock, then close each.
CloseEvery(t) ==
    /\ Free(t) /\ Registered # {}
    /\ TakeOut(t, Registered)

\* A Browser the program holds can be closed without the registry.
CloseHeld(t, b) ==
    /\ Free(t) /\ life[b] = "open"
    /\ life' = [life EXCEPT ![b] = "closed"]
    /\ UNCHANGED <<connections, nameOf, closing, duty>>

\* Mutant of Attempted: the first error ends the loop.
StopAtError(t, b) == {}

\* The loop of close_all goes on after an error.
Attempted(t, b) == closing[t] \ {b}

\* One close() returns; the controller is closed even when it raises.
Closes(t, b) ==
    /\ b \in closing[t]
    /\ life' = [life EXCEPT ![b] = "closed"]
    /\ closing' = [closing EXCEPT ![t] = @ \ {b}]
    /\ UNCHANGED <<connections, nameOf, duty>>

CloseRaises(t, b) ==
    /\ b \in closing[t]
    /\ life' = [life EXCEPT ![b] = "closed"]
    /\ closing' = [closing EXCEPT ![t] = Attempted(t, b)]
    /\ UNCHANGED <<connections, nameOf, duty>>

\* The result, CloseAllError with the errors, or the error of close().
Reports(t) ==
    /\ ~Free(t) /\ closing[t] = {}
    /\ duty' = [duty EXCEPT ![t] = {}]
    /\ UNCHANGED <<connections, nameOf, life, closing>>

RegistryNext ==
    \E t \in Threads :
        \/ \E n \in Names : Create(t, n) \/ CloseOne(t, n)
        \/ CloseEvery(t) \/ Reports(t)
        \/ \E b \in Controllers : CloseHeld(t, b) \/ Closes(t, b) \/ CloseRaises(t, b)

RegistrySpec == RegistryInit /\ [][RegistryNext]_registryVars

-----------------------------------------------------------------------------
(* Properties *)

\* The controller under each name, what became of each controller, and what each
\* thread has taken out and still has to close.
RegistryTypeOK ==
    /\ connections \in [Names -> Controllers \union {Absent}]
    /\ nameOf \in [Controllers -> Names \union {Absent}]
    /\ life \in [Controllers -> {"new", "open", "closed"}]
    /\ closing \in [Threads -> SUBSET Controllers]
    /\ duty \in [Threads -> SUBSET Controllers]

\* A controller is registered under its own name, and no open one is lost: it is
\* registered, or the close of some thread is about to reach it, whatever the
\* closes before it raised.  What a call took out is its own to close and cannot
\* be looked up any more (agent.py:46-103).
OpenIsReachable ==
    /\ \A n \in Registered : nameOf[connections[n]] = n
    /\ \A b \in Controllers :
          life[b] = "open" => \/ \E n \in Registered : connections[n] = b
                              \/ \E t \in Threads : b \in closing[t]
    /\ \A t \in Threads :
          /\ \A other \in Threads \ {t} : duty[t] \intersect duty[other] = {}
          /\ \A n \in Registered : connections[n] \notin duty[t]
=============================================================================
