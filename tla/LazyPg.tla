-------------------------------- MODULE LazyPg --------------------------------
(***************************************************************************)
(* LazyPgConnection: one cached psycopg connection, opened by the first    *)
(* get and opened anew by a get that finds it closed.                      *)
(*                                                                         *)
(* What the client knows (conn.closed) and what the server has are two     *)
(* things: a session the server dropped looks open until an operation on   *)
(* it fails.  The class is for a single-threaded pipeline and takes no     *)
(* lock; two callers are modelled, and overlapped remembers whether their  *)
(* gets ever were inside each other.                                       *)
(***************************************************************************)
EXTENDS Naturals, FiniteSets

CONSTANTS
    Callers,    \* threads that call get and use what it returns
    MaxDrops,   \* bound on the sessions the server drops by itself
    MaxOutages  \* bound on the server's outages

ASSUME LazyPgAssumption ==
    /\ IsFiniteSet(Callers)
    /\ MaxDrops \in Nat
    /\ MaxOutages \in Nat

VARIABLES
    configured, \* _dsn is not None
    conn,       \* _conn: the number of a connection, or None
    closed,     \* connections whose .closed is true
    made,       \* connections 1..made were opened
    live,       \* those of them whose session the server still has
    up,         \* the server accepts connections
    pc,         \* where each caller is in get
    holds,      \* the connection each caller works with, or None
    drops,      \* how many sessions were dropped
    outages,    \* how many outages there were
    failures,   \* history: each caller's operations that failed, by connection
    overlapped  \* history: two callers were in get at once

client == <<configured, conn, closed, made>>
server == <<live, up, drops, outages>>
pgVars == <<client, server, pc, holds, failures, overlapped>>

NoConnection == 0   \* None
MaxConns == Cardinality(Callers) * (MaxDrops + MaxOutages + 1)

PgInit ==
    /\ configured \in BOOLEAN
    /\ conn = NoConnection
    /\ closed = {}
    /\ made = 0
    /\ live = {}
    /\ up \in BOOLEAN
    /\ pc = [c \in Callers |-> "idle"]
    /\ holds = [c \in Callers |-> NoConnection]
    /\ drops = 0
    /\ outages = 0
    /\ failures = [c \in Callers |-> [n \in 1..MaxConns |-> 0]]
    /\ overlapped = FALSE

Goto(c, here, there) == pc[c] = here /\ pc' = [pc EXCEPT ![c] = there]
Holds(c, n) == holds' = [holds EXCEPT ![c] = n]

-----------------------------------------------------------------------------
(* get                                                                     *)

\* Mutant: the sense of .closed is lost.
NeedsWhileOpen == conn = NoConnection \/ conn \notin closed

\* Mutant: a cached connection is never looked at again.
NoneCached == conn = NoConnection

\* There is no connection, or it is known to be closed.
NeedsConnection == conn = NoConnection \/ conn \in closed

\* Without a DSN get returns None, and the caller does without.
GetDisabled(c) ==
    /\ ~ configured
    /\ Goto(c, "idle", "idle")
    /\ Holds(c, NoConnection)
    /\ UNCHANGED <<client, server, failures, overlapped>>

GetCheck(c) ==
    /\ configured
    /\ Goto(c, "idle", IF NeedsConnection THEN "connect" ELSE "return")
    /\ overlapped' = (overlapped \/ \E d \in Callers \ {c} : pc[d] # "idle")
    /\ UNCHANGED <<client, server, holds, failures>>

Connect(c) ==
    /\ up
    /\ Goto(c, "connect", "return")
    /\ made' = made + 1
    /\ conn' = made'
    /\ live' = live \cup {made'}
    /\ UNCHANGED <<configured, closed, up, drops, outages, holds, failures, overlapped>>

\* Mutant: a failed connect turns the wrapper off, as it does the errors client.
ConnectFailsForGood(c) ==
    /\ ~ up
    /\ Goto(c, "connect", "idle")
    /\ configured' = FALSE
    /\ Holds(c, NoConnection)
    /\ UNCHANGED <<conn, closed, made, server, failures, overlapped>>

\* connect raises: a warning and None; the next get tries again.
ConnectFails(c) ==
    /\ ~ up
    /\ Goto(c, "connect", "idle")
    /\ Holds(c, NoConnection)
    /\ UNCHANGED <<client, server, failures, overlapped>>

\* "return self._conn" reads the attribute again.
GetReturn(c) ==
    /\ Goto(c, "return", "idle")
    /\ Holds(c, conn)
    /\ UNCHANGED <<client, server, failures, overlapped>>

-----------------------------------------------------------------------------
(* The caller and the server                                               *)

\* An operation on a lost session fails, and psycopg sets closed; the caller
\* gives up what it was at and asks get again.
UseFails(c) ==
    /\ pc[c] = "idle"
    /\ holds[c] # NoConnection
    /\ holds[c] \notin live
    /\ closed' = closed \cup {holds[c]}
    /\ failures' = [failures EXCEPT ![c][holds[c]] = @ + 1]
    /\ Holds(c, NoConnection)
    /\ UNCHANGED <<configured, conn, made, server, pc, overlapped>>

\* An idle timeout, an eviction, an administrator.
Drop(n) ==
    /\ n \in live
    /\ drops < MaxDrops
    /\ drops' = drops + 1
    /\ live' = live \ {n}
    /\ UNCHANGED <<client, up, outages, pc, holds, failures, overlapped>>

Outage ==
    /\ up
    /\ outages < MaxOutages
    /\ outages' = outages + 1
    /\ up' = FALSE
    /\ live' = {}
    /\ UNCHANGED <<client, drops, pc, holds, failures, overlapped>>

Restart ==
    /\ ~ up
    /\ up' = TRUE
    /\ UNCHANGED <<client, live, drops, outages, pc, holds, failures, overlapped>>

-----------------------------------------------------------------------------
Get(c) == GetDisabled(c) \/ GetCheck(c) \/ Connect(c) \/ ConnectFails(c) \/ GetReturn(c)

PgNext ==
    \/ \E c \in Callers : Get(c) \/ UseFails(c)
    \/ (\E n \in 1..made : Drop(n)) \/ Outage \/ Restart

PgSpec == PgInit /\ [][PgNext]_pgVars

\* A pipeline that goes on: it calls get, calls return, and an operation on a
\* lost session does not hang for ever.  The server comes back.
FairPgSpec ==
    /\ PgSpec
    /\ WF_pgVars(Restart)
    /\ \A c \in Callers : WF_pgVars(Get(c)) /\ SF_pgVars(UseFails(c))

-----------------------------------------------------------------------------
(* Properties                                                              *)

\* Every variable has its type; what is known to be closed has no session.
PgTypeOK ==
    /\ conn \in 0..made
    /\ made \in 0..MaxConns
    /\ closed \subseteq (1..made) \ live
    /\ live \subseteq 1..made
    /\ pc \in [Callers -> {"idle", "connect", "return"}]
    /\ holds \in [Callers -> 0..made]

\* Callers that take turns keep one session on the server at a time, the
\* cached one: a reconnect never leaves an old session behind it.
OneSession == PgTypeOK /\ (overlapped \/ live \subseteq {conn})

\* A lost session costs each caller one failed operation, no more: a caller
\* that found it out is never given it again.  Another one may be, by a get that
\* passed its test of .closed before, and then fails once itself.
LossFoundOnce == \A c \in Callers : \A n \in 1..made : failures[c][n] <= 1

\* With a DSN, each caller that goes on ends up with a session the server has,
\* for good, whatever was dropped or refused before.
Recovers == configured => \A c \in Callers : <>[](holds[c] \in live)
=============================================================================
