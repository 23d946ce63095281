-------------------------- MODULE TieredRateLimit ---------------------------
(***************************************************************************)
(* checkRateLimitTiered of src/worker/middleware/index.ts for one identity *)
(* and any number of concurrent Worker invocations: the RateLimiterDO      *)
(* first (here just an answer: it shares no state with the rest, and       *)
(* RateLimiterDO models it), and the KV namespace when the object cannot   *)
(* be reached.  KV is read and written in two calls with other requests in *)
(* between, and a read may return the version before the latest.           *)
(***************************************************************************)
EXTENDS RateLimits

CONSTANTS
    Requests,   \* Worker invocations for one identity
    Grace,      \* the 10 s the key outlives the window: expirationTtl
    MaxGrants,  \* bound: the history of grants saturates here
    Unlimited   \* the admin tier's Infinity

ASSUME GraceAssumption == Grace \in Nat
ASSUME MaxGrantsAssumption ==
    MaxGrants \in Nat /\ \A max \in Limits : max \in 1..MaxGrants

VARIABLES
    kv,         \* the stored RateLimitData and when the key expires
    older,      \* the version that another location may still return
    req,        \* each invocation: control state, limit, clock, data read
    kvGrants    \* history: the requests granted on KV, by window end

store == <<kv, older>>
fallback == <<now, store, req, kvGrants>>

Ends == 0..(MaxTime + Window)
Data == [count : 1..MaxGrants, resetAt : Ends, expires : Nat] \cup {None}
Idle == [pc |-> "idle", max |-> 0, at |-> 0, seen |-> None]

FallbackTypeOK ==
    /\ now \in 0..MaxTime
    /\ kv \in Data /\ older \in Data
    /\ req \in [Requests ->
          [pc : {"idle", "object", "read", "write", "allowed", "denied"},
           max : Limits \cup {0, Unlimited}, at : 0..MaxTime, seen : Data]]
    /\ kvGrants \in [Ends -> 0..MaxGrants]

FallbackInit ==
    /\ now = 0
    /\ kv = None /\ older = None
    /\ req = [r \in Requests |-> Idle]
    /\ kvGrants = [e \in Ends |-> 0]

Goto(r, pc) == req' = [req EXCEPT ![r].pc = pc]

-----------------------------------------------------------------------------
\* The limit is the tier's or the API key's; zero (a disabled key) and
\* Infinity (admin) are answered without touching either store.
Arrive(r) ==
    /\ req[r] = Idle
    /\ \E max \in Limits \cup {0, Unlimited} :
          req' = [req EXCEPT ![r].max = max,
                             ![r].pc = CASE max = 0 -> "denied"
                                         [] max = Unlimited -> "allowed"
                                         [] OTHER -> "object"]
    /\ UNCHANGED <<now, store, kvGrants>>

\* The object answers and its answer is final.
ObjectAnswers(r) ==
    /\ req[r].pc = "object"
    /\ \E decision \in {"allowed", "denied"} : Goto(r, decision)
    /\ UNCHANGED <<now, store, kvGrants>>

\* The object is unreachable or answers with an error: the request goes on to
\* KV, with the time read before the get().
FallBack(r) ==
    /\ req[r].pc = "object"
    /\ req' = [req EXCEPT ![r].pc = "read", ![r].at = now]
    /\ UNCHANGED <<now, store, kvGrants>>

\* The window to write for the data read.
NextData_Mut(r) ==                              \* mutant: count is not reset
    LET d == req[r].seen
    IN [count |-> IF d = None THEN 1 ELSE d.count + 1,
        resetAt |-> IF d = None \/ req[r].at > d.resetAt
                    THEN req[r].at + Window ELSE d.resetAt,
        expires |-> now + Window + Grace]
NextData_MutTtl(r) ==                           \* mutant: TTL without window
    LET d == req[r].seen
        fresh == d = None \/ req[r].at > d.resetAt
    IN [count |-> IF fresh THEN 1 ELSE d.count + 1,
        resetAt |-> IF fresh THEN req[r].at + Window ELSE d.resetAt,
        expires |-> now]
NextData(r) ==
    LET d == req[r].seen
        fresh == d = None \/ req[r].at > d.resetAt
    IN [count |-> IF fresh THEN 1 ELSE d.count + 1,
        resetAt |-> IF fresh THEN req[r].at + Window ELSE d.resetAt,
        expires |-> now + Window + Grace]

KvRead(r) ==
    /\ req[r].pc = "read"
    /\ \E d \in {kv, older} :
          req' = [req EXCEPT ![r].seen = d,
                     ![r].pc = IF /\ d # None /\ req[r].at <= d.resetAt
                                  /\ d.count >= req[r].max
                               THEN "denied" ELSE "write"]
    /\ UNCHANGED <<now, store, kvGrants>>

KvWrite(r) ==
    /\ req[r].pc = "write"
    /\ kv' = NextData(r) /\ older' = kv
    /\ kvGrants' = [kvGrants EXCEPT ![NextData(r).resetAt] =
                       IF @ < MaxGrants THEN @ + 1 ELSE @]
    /\ Goto(r, "allowed")
    /\ UNCHANGED now

\* Both versions go when the key's time to live is over.
KvExpires ==
    /\ kv # None /\ now > kv.expires
    /\ kv' = None /\ older' = None
    /\ UNCHANGED <<now, req, kvGrants>>

\* The invocation ends; a later one takes its place.
Return(r) ==
    /\ req[r].pc \in {"allowed", "denied"}
    /\ req' = [req EXCEPT ![r] = Idle]
    /\ UNCHANGED <<now, store, kvGrants>>

Elapse ==
    /\ now < MaxTime
    /\ now' = now + 1
    /\ UNCHANGED <<store, req, kvGrants>>

FallbackNext ==
    \/ \E r \in Requests :
          \/ Arrive(r) \/ ObjectAnswers(r) \/ FallBack(r)
          \/ KvRead(r) \/ KvWrite(r) \/ Return(r)
    \/ KvExpires
    \/ Elapse

FallbackSpec == FallbackInit /\ [][FallbackNext]_fallback

-----------------------------------------------------------------------------
\* Lost updates and stale reads only ever lose counts: no version of the key,
\* and no version a request has read and may yet write back, counts more
\* requests than were granted in its window.
CountHonest ==
    \A d \in {kv, older} \cup {req[r].seen : r \in Requests} :
        d # None => d.count <= kvGrants[d.resetAt]

\* A request is refused by KV only if its whole limit was granted in the
\* window it read, whatever interleaving the count went through.
NoFalseRefusal ==
    \A r \in Requests :
        req[r].pc = "denied" /\ req[r].seen # None =>
            kvGrants[req[r].seen.resetAt] >= req[r].max

\* The time to live never removes a live window, not even one that a slow
\* request has written back with the end it read long ago.
LiveWindowKept ==
    [][KvExpires => now > kv.resetAt /\ (older # None => now > older.resetAt)]_fallback
=============================================================================
