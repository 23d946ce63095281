--------------------------- MODULE CompileHandler ---------------------------
(***************************************************************************)
(* POST /compile (and each item of /compile/batch) for one cache key,      *)
(* src/worker/handlers/compile.ts: the CompilationCoordinator protocol     *)
(* first, and when it throws, or is not bound, deduplication local to the  *)
(* Worker isolate by the pendingCompilations map, with the KV cache.       *)
(*                                                                         *)
(* Requests with pre-fetched content have no cache key: they share nothing *)
(* and are not modelled.  An isolate is one JavaScript thread; requests of *)
(* one isolate interleave where the handler awaits, requests of different  *)
(* isolates everywhere.                                                    *)
(***************************************************************************)
EXTENDS CompilationCoordinator

CONSTANTS
    Isolates,       \* Worker isolates
    IsolateOf,      \* where each request is handled
    Coordinated     \* whether env.COMPILATION_COORDINATOR is bound

\* What a client is answered, and from whose compilation.
Responses == [kind : {"fresh", "deduplicated", "cached", "serverError"},
              of : Requests \cup {None}]

ASSUME IsolateOfAssumption == IsolateOf \in [Requests -> Isolates]
ASSUME CoordinatedAssumption == Coordinated \in BOOLEAN
ASSUME NothingAssumption == None \notin {"success", "failure"} \cup Responses

VARIABLES
    pending,        \* pendingCompilations: per isolate, whose promise it holds
    cached,         \* whether COMPILATION_CACHE holds a result for the key
    loc,            \* where each request is in the handler
    awaits,         \* the request whose promise a request awaits
    settled,        \* how each request's compilationPromise settled
    response        \* kind of the response, and whose compilation it carries

local == <<pending, loc, awaits, settled, response>>
all == <<vars, local, cached>>

\* "killed" is a Worker that the platform ended in its local compilation.
Locs == {"coordinate", "local", "reading", "compiling", "putting", "settled",
         "awaiting", "done", "killed"}

HTypeOK ==
    /\ TypeOK
    /\ pending \in [Isolates -> Requests \cup {None}]
    /\ cached \in BOOLEAN
    /\ loc \in [Requests -> Locs]
    /\ awaits \in [Requests -> Requests \cup {None}]
    /\ settled \in [Requests -> {None, "success", "failure"}]
    /\ response \in [Requests -> Responses \cup {None}]

HInit ==
    /\ Init
    /\ pending = [w \in Isolates |-> None]
    /\ cached = FALSE
    /\ loc = [r \in Requests |-> IF Coordinated THEN "coordinate" ELSE "local"]
    /\ awaits = [r \in Requests |-> None]
    /\ settled = [r \in Requests |-> None]
    /\ response = [r \in Requests |-> None]

-----------------------------------------------------------------------------
\* A step of the protocol; compileFn stores a successful result in KV, and
\* only logs a put that fails.
Coordinate(r) ==
    /\ loc[r] = "coordinate"
    /\ Step(r)
    /\ \/ UNCHANGED cached
       \/ pc[r] = "compile" /\ pc'[r] = "complete" /\ cached' = TRUE
    /\ UNCHANGED local

At(r, place) == loc' = [loc EXCEPT ![r] = place]

Answer(r, kind, of) ==
    /\ response' = [response EXCEPT ![r] = [kind |-> kind, of |-> of]]
    /\ At(r, "done")

\* The protocol returned: the request's own result, or another's.
CoordinatedAnswer(r) ==
    /\ loc[r] = "coordinate" /\ pc[r] = "returned"
    /\ Answer(r, IF answer[r] = r THEN "fresh" ELSE "deduplicated", answer[r])
    /\ UNCHANGED <<vars, cached, pending, awaits, settled>>

\* catch (doError): whatever went wrong, the request starts over locally.
FallBack(r) ==
    /\ loc[r] = "coordinate" /\ pc[r] = "threw"
    /\ At(r, "local")
    /\ UNCHANGED <<vars, cached, pending, awaits, settled, response>>

\* pendingCompilations.get(cacheKey)
CheckPending(r) ==
    /\ loc[r] = "local"
    /\ LET owner == pending[IsolateOf[r]]
       IN IF owner # None
          THEN At(r, "awaiting") /\ awaits' = [awaits EXCEPT ![r] = owner]
          ELSE At(r, "reading") /\ UNCHANGED awaits
    /\ UNCHANGED <<vars, cached, pending, settled, response>>

\* COMPILATION_CACHE.get() returns a result that can be read.
CacheHit(r) ==
    /\ loc[r] = "reading"
    /\ cached
    /\ Answer(r, "cached", None)
    /\ UNCHANGED <<vars, cached, pending, awaits, settled>>

\* The call itself fails: it is outside any try, and the router answers 500.
CacheFails(r) ==
    /\ loc[r] = "reading"
    /\ Answer(r, "serverError", None)
    /\ UNCHANGED <<vars, cached, pending, awaits, settled>>

\* It does not, as it is not there, not visible yet or does not decompress:
\* the promise is created and put into the map, over any entry that was added
\* since CheckPending.
CacheMiss(r) ==
    /\ loc[r] = "reading"
    /\ pending' = [pending EXCEPT ![IsolateOf[r]] = r]
    /\ At(r, "compiling")
    /\ UNCHANGED <<vars, cached, awaits, settled, response>>

\* The promise settles; its finally block deletes the key's entry, whoever's
\* promise the entry holds by now.
Settle_MutLeak(r, outcome) ==                   \* mutant: delete on success only
    /\ settled' = [settled EXCEPT ![r] = outcome]
    /\ pending' = IF outcome = "success"
                  THEN [pending EXCEPT ![IsolateOf[r]] = None] ELSE pending
    /\ At(r, "settled")
Settle(r, outcome) ==
    /\ settled' = [settled EXCEPT ![r] = outcome]
    /\ pending' = [pending EXCEPT ![IsolateOf[r]] = None]
    /\ At(r, "settled")

LocalCompiled(r) ==
    /\ loc[r] = "compiling"
    /\ \/ At(r, "putting") /\ UNCHANGED <<pending, settled>>
       \/ Settle(r, "failure")
    /\ UNCHANGED <<vars, cached, awaits, response>>

\* The put may fail; the result is returned in any case.
Put(r) ==
    /\ loc[r] = "putting"
    /\ cached' \in {cached, TRUE}
    /\ Settle(r, "success")
    /\ UNCHANGED <<vars, awaits, response>>

OwnAnswer(r) ==
    /\ loc[r] = "settled"
    /\ Answer(r, IF settled[r] = "success" THEN "fresh" ELSE "serverError", r)
    /\ UNCHANGED <<vars, cached, pending, awaits, settled>>

\* `await pending`, then JsonResponse.success whatever the promise came to.
DeduplicatedAnswer_Mut(r) ==                    \* mutant: never settles on failure
    /\ loc[r] = "awaiting" /\ settled[awaits[r]] = "success"
    /\ Answer(r, "deduplicated", awaits[r])
    /\ UNCHANGED <<vars, cached, pending, awaits, settled>>
DeduplicatedAnswer(r) ==
    /\ loc[r] = "awaiting" /\ settled[awaits[r]] # None
    /\ Answer(r, "deduplicated", awaits[r])
    /\ UNCHANGED <<vars, cached, pending, awaits, settled>>

\* The object is evicted, or a Worker is killed while it compiles under the
\* coordinator.
Disturb ==
    /\ Evict \/ \E r \in Requests : loc[r] = "coordinate" /\ Die(r)
    /\ UNCHANGED <<local, cached>>

\* A Worker is killed in its local compilation: the promise never settles, the
\* finally block does not run, and the isolate's map keeps the entry.
KilledLocally(r) ==
    /\ "die" \in Faults
    /\ loc[r] \in {"compiling", "putting"}
    /\ At(r, "killed")
    /\ UNCHANGED <<vars, cached, pending, awaits, settled, response>>

CacheExpires ==
    /\ cached
    /\ cached' = FALSE
    /\ UNCHANGED <<vars, local>>

HStep(r) ==
    \/ Coordinate(r) \/ CoordinatedAnswer(r) \/ FallBack(r)
    \/ CheckPending(r) \/ CacheHit(r) \/ CacheFails(r) \/ CacheMiss(r)
    \/ LocalCompiled(r) \/ Put(r) \/ OwnAnswer(r) \/ DeduplicatedAnswer(r)

HNext ==
    \/ \E r \in Requests : HStep(r) \/ KilledLocally(r)
    \/ Disturb \/ CacheExpires

HSpec == HInit /\ [][HNext]_all

\* Awaited calls return, compilations and timers end.
HFairSpec == HSpec /\ \A r \in Requests : WF_all(HStep(r))

-----------------------------------------------------------------------------
\* An entry of pendingCompilations is a promise of that isolate that has not
\* settled, although two requests may set and delete it in turn: a later request
\* is never attached to a compilation that is over.  It may be attached to one
\* that was killed.
NoStalePending ==
    \A w \in Isolates : pending[w] # None =>
        /\ IsolateOf[pending[w]] = w
        /\ settled[pending[w]] = None
        /\ loc[pending[w]] \in {"compiling", "putting", "killed"}

\* A request that awaits the promise of a killed compilation: nothing settles it.
Hangs(r) == loc[r] = "awaiting" /\ loc[awaits[r]] = "killed"

\* Every request whose Worker lives is answered, in whatever order the two
\* paths, the map and the cache are met, unless the local compilation that it
\* has joined was killed.
EveryoneAnswered ==
    \A r \in Requests :
        <>(response[r] # None \/ pc[r] = "dead" \/ loc[r] = "killed" \/ Hangs(r))
=============================================================================
