-------------------------- MODULE FilterDownloader --------------------------
(***************************************************************************)
(* Concurrent download() calls on one FilterDownloader instance,           *)
(* src/src/downloader/FilterDownloader.ts: the depth-first resolution of   *)
(* !#include directives with its cycle check, depth limit, retries and     *)
(* swallowed failures.                                                     *)
(*                                                                         *)
(* visitedUrls is a field of the instance, cleared by every download() and *)
(* read by all of them; a call is suspended in every fetch, every back-off *)
(* and at every include.  A list is abstracted to the includes that are    *)
(* left once its !#if blocks are resolved, and its own rules to its name.  *)
(* The circuit breaker of a URL (module CircuitBreaker) only turns a fetch *)
(* into a failure at once, which FetchFails covers.                        *)
(***************************************************************************)
EXTENDS Naturals, Sequences

CONSTANTS
    Callers,            \* concurrent callers of download()
    Sources,            \* URLs and paths of filter lists
    Includes,           \* what each list includes, in order
    MaxIncludeDepth,    \* options.maxIncludeDepth
    MaxRetries          \* options.maxRetries

ASSUME IncludesAssumption == Includes \in [Sources -> Seq(Sources)]
ASSUME MaxIncludeDepthAssumption == MaxIncludeDepth \in Nat
ASSUME MaxRetriesAssumption == MaxRetries \in Nat

VARIABLES
    visited,    \* visitedUrls
    stack,      \* each call's chain of downloadInternal() activations
    rules,      \* the lists whose rules each call has collected, in order
    verdict,    \* how each caller's latest download() stands
    dropped,    \* history: the call has left an include out
    disturbed   \* history: another download() of the instance overlapped it

calls == <<stack, rules, verdict, dropped, disturbed>>
downloader == <<visited, calls>>

\* An activation fetches its list (done = FALSE, retry number try), then
\* resolves its includes; next is the one it has reached.
Frames == [src : Sources, done : BOOLEAN, try : 0..MaxRetries, next : Nat \ {0}]
Frame(s) == [src |-> s, done |-> FALSE, try |-> 0, next |-> 1]

DTypeOK ==
    /\ visited \subseteq Sources
    /\ stack \in [Callers -> Seq(Frames)]
    /\ rules \in [Callers -> Seq(Sources)]
    /\ verdict \in [Callers -> {"none", "running", "resolved", "rejected"}]
    /\ dropped \in [Callers -> BOOLEAN]
    /\ disturbed \in [Callers -> BOOLEAN]

DInit ==
    /\ visited = {}
    /\ stack = [c \in Callers |-> <<>>]
    /\ rules = [c \in Callers |-> <<>>]
    /\ verdict = [c \in Callers |-> "none"]
    /\ dropped = [c \in Callers |-> FALSE]
    /\ disturbed = [c \in Callers |-> FALSE]

-----------------------------------------------------------------------------
Running == {c \in Callers : verdict[c] = "running"}
Depth(c) == Len(stack[c]) - 1
Top(c) == stack[c][Len(stack[c])]

Active(c) == c \in Running /\ stack[c] # <<>>
Fetching(c) == Active(c) /\ ~Top(c).done
AtInclude(c) == Active(c) /\ Top(c).done /\ Top(c).next <= Len(Includes[Top(c).src])
Target(c) == Includes[Top(c).src][Top(c).next]

\* The activation that awaited this one goes on behind its include.
Advance(frame) == [frame EXCEPT !.next = @ + 1]
Outer(c) == SubSeq(stack[c], 1, Len(stack[c]) - 1)
Resume(c) ==
    LET outer == Outer(c)
    IN [stack EXCEPT ![c] = IF outer = <<>> THEN <<>>
                            ELSE [outer EXCEPT ![Len(outer)] = Advance(@)]]

\* download(): clears the shared set and enters downloadInternal(source, 0),
\* whose checks pass, without a pause.
Download(c, s) ==
    /\ c \notin Running
    /\ visited' = {s}
    /\ stack' = [stack EXCEPT ![c] = <<Frame(s)>>]
    /\ rules' = [rules EXCEPT ![c] = <<>>]
    /\ verdict' = [verdict EXCEPT ![c] = "running"]
    /\ dropped' = [dropped EXCEPT ![c] = FALSE]
    /\ disturbed' = [d \in Callers |->
          IF d = c THEN Running # {} ELSE disturbed[d] \/ d \in Running]

\* fetchUrl() or readFile() returns the text.
FetchOk(c) ==
    /\ Fetching(c)
    /\ stack' = [stack EXCEPT ![c][Len(stack[c])].done = TRUE]
    /\ rules' = [rules EXCEPT ![c] = Append(@, Top(c).src)]
    /\ UNCHANGED <<visited, verdict, dropped, disturbed>>

\* A timeout, a network error, an empty body, a 5xx or a 429: tried again
\* after the back-off.
FetchRetry_Mut(c) ==                        \* mutant: no last retry
    /\ Fetching(c)
    /\ stack' = [stack EXCEPT ![c][Len(stack[c])].try = (@ + 1) % (MaxRetries + 1)]
    /\ UNCHANGED <<visited, rules, verdict, dropped, disturbed>>
FetchRetry(c) ==
    /\ Fetching(c)
    /\ Top(c).try < MaxRetries
    /\ stack' = [stack EXCEPT ![c][Len(stack[c])].try = @ + 1]
    /\ UNCHANGED <<visited, rules, verdict, dropped, disturbed>>

\* A 4xx, a missing file, an open circuit, or the last retry: download()
\* rejects; the loop over an including list only logs a warning.
FetchFails(c) ==
    /\ Fetching(c)
    /\ IF Depth(c) = 0
       THEN /\ verdict' = [verdict EXCEPT ![c] = "rejected"]
            /\ UNCHANGED dropped
       ELSE /\ dropped' = [dropped EXCEPT ![c] = TRUE]
            /\ UNCHANGED verdict
    /\ stack' = Resume(c)
    /\ UNCHANGED <<visited, rules, disturbed>>

\* downloadInternal(include, depth + 1) returns [] for a list visited before ...
SkipVisited(c) ==
    /\ AtInclude(c)
    /\ Target(c) \in visited
    /\ stack' = [stack EXCEPT ![c][Len(stack[c])] = Advance(@)]
    /\ UNCHANGED <<visited, rules, verdict, dropped, disturbed>>

\* ... and for one beyond the depth limit, which is then not marked visited.
SkipTooDeep(c) ==
    /\ AtInclude(c)
    /\ Target(c) \notin visited
    /\ Depth(c) + 1 > MaxIncludeDepth
    /\ stack' = [stack EXCEPT ![c][Len(stack[c])] = Advance(@)]
    /\ dropped' = [dropped EXCEPT ![c] = TRUE]
    /\ UNCHANGED <<visited, rules, verdict, disturbed>>

Enter_MutMark(c) ==                         \* mutant: marked only later
    /\ AtInclude(c)
    /\ Target(c) \notin visited
    /\ Depth(c) + 1 <= MaxIncludeDepth
    /\ stack' = [stack EXCEPT ![c] = Append(@, Frame(Target(c)))]
    /\ UNCHANGED <<visited, rules, verdict, dropped, disturbed>>
Enter(c) ==
    /\ AtInclude(c)
    /\ Target(c) \notin visited
    /\ Depth(c) + 1 <= MaxIncludeDepth
    /\ visited' = visited \cup {Target(c)}
    /\ stack' = [stack EXCEPT ![c] = Append(@, Frame(Target(c)))]
    /\ UNCHANGED <<rules, verdict, dropped, disturbed>>

\* processDirectives() has reached the last line.
ListDone(c) ==
    /\ Active(c)
    /\ Top(c).done /\ ~AtInclude(c)
    /\ verdict' = IF Depth(c) = 0 THEN [verdict EXCEPT ![c] = "resolved"]
                                  ELSE verdict
    /\ stack' = Resume(c)
    /\ UNCHANGED <<visited, rules, dropped, disturbed>>

\* The caller has used the result.
Forget(c) ==
    /\ c \notin Running
    /\ rules' = [rules EXCEPT ![c] = <<>>]
    /\ verdict' = [verdict EXCEPT ![c] = "none"]
    /\ dropped' = [dropped EXCEPT ![c] = FALSE]
    /\ disturbed' = [disturbed EXCEPT ![c] = FALSE]
    /\ UNCHANGED <<visited, stack>>

DStep(c) ==
    \/ FetchOk(c) \/ FetchRetry(c) \/ FetchFails(c)
    \/ SkipVisited(c) \/ SkipTooDeep(c) \/ Enter(c)
    \/ ListDone(c)

DNext == \E c \in Callers :
            DStep(c) \/ Forget(c) \/ \E s \in Sources : Download(c, s)

DSpec == DInit /\ [][DNext]_downloader

-----------------------------------------------------------------------------
\* The lists an include chain leads to: the least set that holds the source
\* and what its members include.
Closed(S) == \A s \in S : \A i \in 1..Len(Includes[s]) : Includes[s][i] \in S
Reachable == [s \in Sources |->
    {t \in Sources : \A S \in SUBSET Sources : s \in S /\ Closed(S) => t \in S}]

Listed(seq) == {seq[i] : i \in 1..Len(seq)}

\* A download that no other one overlaps puts no list into its result twice,
\* however the includes circle and whichever of them fail.
OnceWhenAlone ==
    \A c \in Callers : ~disturbed[c] =>
        \A i, j \in 1..Len(rules[c]) : rules[c][i] = rules[c][j] => i = j
=============================================================================
