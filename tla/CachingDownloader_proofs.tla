----------------------- MODULE CachingDownloader_proofs -----------------------
(***************************************************************************)
(* What holds of CachingDownloader for any sources, callers and number of  *)
(* calls and storage faults, by way of what holds of FilterDownloader for  *)
(* any lists, include graph, limits and number of concurrent downloads.    *)
(***************************************************************************)
EXTENDS CachingDownloader, FiniteSetTheorems, SequenceTheorems, TLAPS
-----------------------------------------------------------------------------
(* The filter downloader.                                                  *)

\* A call runs as long as it has an activation, and only the innermost one
\* can still be fetching.
Shape ==
    \A c \in Callers :
        /\ c \in Running <=> stack[c] # <<>>
        /\ \A i \in 1..(Len(stack[c]) - 1) : stack[c][i].done

\* What protects a download from a second copy while it has visitedUrls for
\* itself: whatever it has collected is marked, and the list it is fetching is
\* marked but not yet collected.
Once(c) == \A i, j \in 1..Len(rules[c]) : rules[c][i] = rules[c][j] => i = j
Marked(c) ==
    c \in Running =>
        /\ Running = {c}
        /\ Listed(rules[c]) \subseteq visited
        /\ Fetching(c) => Top(c).src \in visited \ Listed(rules[c])

IInv ==
    /\ DTypeOK
    /\ Shape
    /\ \A c \in Callers : ~disturbed[c] => Once(c) /\ Marked(c)

-----------------------------------------------------------------------------
\* Replacing the last element keeps a sequence a sequence of its length.
LEMMA LastReplaced ==
    ASSUME NEW S, NEW q \in Seq(S), q # <<>>, NEW e \in S
    PROVE  LET r == [q EXCEPT ![Len(q)] = e]
           IN /\ r \in Seq(S)
              /\ Len(r) = Len(q)
              /\ r[Len(r)] = e
              /\ \A i \in 1..(Len(q) - 1) : r[i] = q[i]
  OBVIOUS

\* Dropping the last element leaves the others in place.
LEMMA LastDropped ==
    ASSUME NEW S, NEW q \in Seq(S), q # <<>>
    PROVE  LET r == SubSeq(q, 1, Len(q) - 1)
           IN /\ r \in Seq(S)
              /\ Len(r) = Len(q) - 1
              /\ \A i \in 1..Len(r) : r[i] = q[i]
  <1>1. /\ Len(q) \in Nat \ {0}
        /\ \A i \in 1..(Len(q) - 1) : q[i] \in S
    OBVIOUS
  <1> DEFINE n == Len(q) - 1
  <1>2. n \in Int /\ 1 \in Int /\ n >= 0
    BY <1>1
  <1> HIDE DEF n
  <1>3. /\ SubSeq(q, 1, n) \in Seq(S)
        /\ Len(SubSeq(q, 1, n)) = IF 1 <= n THEN n - 1 + 1 ELSE 0
        /\ \A i \in 1..(n - 1 + 1) : SubSeq(q, 1, n)[i] = q[1 + i - 1]
    BY <1>1, <1>2, SubSeqProperties DEF n
  <1>4. /\ Len(SubSeq(q, 1, n)) = n
        /\ \A i \in 1..n : SubSeq(q, 1, n)[i] = q[i]
    BY <1>2, <1>3
  <1> QED BY <1>3, <1>4 DEF n

\* Appending a new element repeats none.
LEMMA AppendedOnce ==
    ASSUME NEW S, NEW q \in Seq(S), NEW e \in S, e \notin Listed(q),
           \A i, j \in 1..Len(q) : q[i] = q[j] => i = j
    PROVE  /\ Listed(Append(q, e)) = Listed(q) \cup {e}
           /\ \A i, j \in 1..Len(Append(q, e)) : Append(q, e)[i] = Append(q, e)[j] => i = j
  <1> DEFINE r == Append(q, e)
  <1>1. /\ r \in Seq(S) /\ Len(r) = Len(q) + 1
        /\ \A i \in 1..Len(q) : r[i] = q[i] /\ r[i] # e
        /\ r[Len(q) + 1] = e
    BY DEF Listed
  <1>2. Listed(r) = Listed(q) \cup {e}
    <2>1. Listed(r) \subseteq Listed(q) \cup {e}
      BY <1>1 DEF Listed
    <2>2. Listed(q) \subseteq Listed(r)
      BY <1>1 DEF Listed
    <2>3. e \in Listed(r)
      BY <1>1, Len(q) + 1 \in 1..Len(r) DEF Listed
    <2> QED BY <2>1, <2>2, <2>3
  <1>3. ASSUME NEW i \in 1..Len(r), NEW j \in 1..Len(r), r[i] = r[j] PROVE i = j
    BY <1>1, <1>3
  <1> QED BY <1>2, <1>3

\* The caller below an activation that ends stands behind its include.
LEMMA Resumed ==
    ASSUME DTypeOK, NEW c \in Callers, stack[c] # <<>>
    PROVE  /\ Resume(c) \in [Callers -> Seq(Frames)]
           /\ \A d \in Callers \ {c} : Resume(c)[d] = stack[d]
           /\ Len(Resume(c)[c]) = Len(stack[c]) - 1
           /\ \A i \in 1..(Len(stack[c]) - 1) : Resume(c)[c][i].done = stack[c][i].done
  <1> DEFINE q == Outer(c)
  <1>1. stack[c] \in Seq(Frames)
    BY DEF DTypeOK
  <1>2. /\ q \in Seq(Frames) /\ Len(q) = Len(stack[c]) - 1
        /\ \A i \in 1..Len(q) : q[i] = stack[c][i]
    BY <1>1, LastDropped DEF Outer
  <1>3. CASE q = <<>>
    BY <1>2, <1>3 DEF Resume, DTypeOK
  <1>4. CASE q # <<>>
    <2> DEFINE e == Advance(q[Len(q)])
               r == [q EXCEPT ![Len(q)] = e]
    <2>1. q[Len(q)] \in Frames
      BY <1>2, <1>4
    <2>2. e \in Frames /\ e.done = q[Len(q)].done
      BY <2>1 DEF Advance, Frames
    <2>3. /\ r \in Seq(Frames) /\ Len(r) = Len(q) /\ r[Len(r)] = e
          /\ \A i \in 1..(Len(q) - 1) : r[i] = q[i]
      BY <1>2, <1>4, <2>2, LastReplaced
    <2>4. Resume(c) = [stack EXCEPT ![c] = r]
      BY <1>4 DEF Resume
    <2>5. \A i \in 1..Len(q) : r[i].done = q[i].done
      BY <1>2, <2>2, <2>3
    <2> HIDE DEF r, q
    <2> QED BY <1>2, <2>3, <2>4, <2>5 DEF DTypeOK
  <1> QED BY <1>3, <1>4

-----------------------------------------------------------------------------
\* What a step of c must show: types and shape for c, nothing about others
\* changed, and c's own protection.
Kept(c) ==
    \A d \in Callers \ {c} :
        /\ stack'[d] = stack[d] /\ rules'[d] = rules[d]
        /\ verdict'[d] = verdict[d] /\ disturbed'[d] = disturbed[d]
Own(c) ==
    /\ c \in Running' <=> stack'[c] # <<>>
    /\ \A i \in 1..(Len(stack'[c]) - 1) : stack'[c][i].done
    /\ ~disturbed'[c] => Once(c)' /\ Marked(c)'

LEMMA StepKeepsOthers ==
    ASSUME IInv, NEW c \in Callers, c \in Running, DTypeOK', Kept(c), Own(c)
    PROVE  IInv'
  <1>1. Shape'
    BY DEF IInv, Shape, Kept, Own, Running
  <1>2. ASSUME NEW d \in Callers \ {c}, ~disturbed'[d] PROVE Once(d)' /\ Marked(d)'
    <2>1. d \notin Running
      BY <1>2 DEF IInv, Kept, Marked
    <2>2. d \notin Running'
      BY <1>2, <2>1 DEF Kept, Running
    <2>3. Once(d)'
      BY <1>2 DEF IInv, Kept, Once
    <2> QED BY <2>2, <2>3 DEF Marked
  <1> QED BY <1>1, <1>2 DEF IInv, Own

\* A call that goes on with its outermost activations, or ends, is not
\* fetching, because only the innermost activation was.
LEMMA ResumeKeeps ==
    ASSUME IInv, NEW c \in Callers, Active(c), stack' = Resume(c),
           verdict' \in [Callers -> {"none", "running", "resolved", "rejected"}],
           dropped' \in [Callers -> BOOLEAN],
           \A d \in Callers \ {c} : verdict'[d] = verdict[d],
           verdict'[c] = "running" <=> Depth(c) > 0,
           UNCHANGED <<visited, rules, disturbed>>
    PROVE  IInv'
  <1>1. /\ stack' \in [Callers -> Seq(Frames)]
        /\ \A d \in Callers \ {c} : stack'[d] = stack[d]
        /\ Len(stack'[c]) = Len(stack[c]) - 1
        /\ \A i \in 1..(Len(stack[c]) - 1) : stack'[c][i].done = stack[c][i].done
    BY Resumed DEF IInv, Active
  <1>2. Len(stack[c]) \in Nat \ {0} /\ Len(stack'[c]) \in Nat
    BY DEF IInv, DTypeOK, Active
  <1>3. \A i \in 1..Len(stack'[c]) : stack'[c][i].done
    BY <1>1, <1>2 DEF IInv, Shape
  <1>4. stack'[c] # <<>> <=> Len(stack'[c]) > 0
    BY <1>1 DEF IInv, DTypeOK
  <1>5. c \in Running' <=> stack'[c] # <<>>
    BY <1>1, <1>2, <1>4 DEF Running, Depth
  <1>6. ~Fetching(c)'
    BY <1>2, <1>3, <1>4 DEF Fetching, Active, Top
  <1>7. c \in Running' => Running' = Running
    BY DEF Running, Active
  <1>8. ~disturbed'[c] => Once(c)' /\ Marked(c)'
    BY <1>6, <1>7 DEF IInv, Once, Marked, Active
  <1>9. DTypeOK' /\ Kept(c)
    BY <1>1 DEF IInv, DTypeOK, Kept
  <1> QED BY <1>2, <1>3, <1>5, <1>8, <1>9, StepKeepsOthers DEF Own, Active

\* A change of the innermost activation alone.
LEMMA TopKept ==
    ASSUME IInv, NEW c \in Callers, Active(c), NEW e \in Frames,
           stack' = [stack EXCEPT ![c] = [@ EXCEPT ![Len(stack[c])] = e]],
           UNCHANGED <<verdict, disturbed>>,
           rules' \in [Callers -> Seq(Sources)],
           dropped' \in [Callers -> BOOLEAN],
           visited' = visited,
           \A d \in Callers \ {c} : rules'[d] = rules[d],
           ~disturbed[c] => /\ Once(c)'
                            /\ Listed(rules'[c]) \subseteq visited
                            /\ ~e.done => e.src \in visited \ Listed(rules'[c])
    PROVE  IInv'
  <1>1. /\ stack[c] \in Seq(Frames) /\ stack[c] # <<>>
        /\ stack \in [Callers -> Seq(Frames)]
    BY DEF IInv, DTypeOK, Active
  <1>2. /\ stack'[c] \in Seq(Frames)
        /\ Len(stack'[c]) = Len(stack[c])
        /\ stack'[c][Len(stack'[c])] = e
        /\ \A i \in 1..(Len(stack[c]) - 1) : stack'[c][i] = stack[c][i]
    BY <1>1, LastReplaced
  <1>3. DTypeOK' /\ Kept(c)
    BY <1>1, <1>2 DEF IInv, DTypeOK, Kept
  <1>4. c \in Running' /\ Running' = Running /\ stack'[c] # <<>>
    BY <1>1, <1>2 DEF Running, Active
  <1>5. \A i \in 1..(Len(stack'[c]) - 1) : stack'[c][i].done
    BY <1>2 DEF IInv, Shape
  <1>6. ~disturbed'[c] => Once(c)' /\ Marked(c)'
    BY <1>2, <1>4 DEF IInv, Marked, Fetching, Top
  <1> QED BY <1>3, <1>4, <1>5, <1>6, StepKeepsOthers DEF Own, Active

-----------------------------------------------------------------------------
\* The invariant is inductive.
LEMMA Inductive == IInv /\ [DNext]_downloader => IInv'
  <1> SUFFICES ASSUME IInv, [DNext]_downloader PROVE IInv'
    OBVIOUS
  <1>1. CASE UNCHANGED downloader
    <2>1. DTypeOK' /\ Running' = Running /\ disturbed' = disturbed
      BY <1>1 DEF IInv, DTypeOK, Running, downloader, calls
    <2>2. Shape'
      BY <1>1, <2>1 DEF IInv, Shape, downloader, calls
    <2>3. \A c \in Callers : Once(c) => Once(c)'
      BY <1>1 DEF Once, downloader, calls
    <2>4. \A c \in Callers : Marked(c) => Marked(c)'
      BY <1>1, <2>1 DEF Marked, Fetching, Active, Top, Listed, downloader, calls
    <2> QED BY <2>1, <2>2, <2>3, <2>4 DEF IInv
  <1>2. ASSUME NEW c \in Callers, NEW s \in Sources, Download(c, s) PROVE IInv'
    <2>1. c \notin Running
      BY <1>2 DEF Download
    <2>2. Frame(s) \in Frames /\ ~Frame(s).done /\ Frame(s).src = s
      BY MaxRetriesAssumption DEF Frame, Frames
    <2>3. stack'[c] = <<Frame(s)>> /\ rules'[c] = <<>> /\ verdict'[c] = "running"
      BY <1>2 DEF Download, IInv, DTypeOK
    <2>4. Running' = Running \cup {c}
      BY <1>2 DEF Download, Running, IInv, DTypeOK
    <2>5. \A d \in Callers \ {c} : stack'[d] = stack[d] /\ rules'[d] = rules[d]
      BY <1>2 DEF Download, IInv, DTypeOK
    <2>6. DTypeOK'
      <3>1. <<Frame(s)>> \in Seq(Frames)
        BY <2>2
      <3>2. stack' \in [Callers -> Seq(Frames)]
        BY <1>2, <3>1 DEF Download, IInv, DTypeOK
      <3>3. \A d \in Callers : disturbed[d] \in BOOLEAN
        BY DEF IInv, DTypeOK
      <3>4. disturbed' \in [Callers -> BOOLEAN]
        BY <1>2, <3>3, Zenon DEF Download
      <3>5. /\ visited' \subseteq Sources
            /\ rules' \in [Callers -> Seq(Sources)]
            /\ verdict' \in [Callers -> {"none", "running", "resolved", "rejected"}]
            /\ dropped' \in [Callers -> BOOLEAN]
        BY <1>2 DEF Download, IInv, DTypeOK
      <3> QED BY <3>2, <3>4, <3>5 DEF DTypeOK
    <2>7. Shape'
      <3>1. stack'[c] # <<>> /\ Len(stack'[c]) = 1
        BY <2>3
      <3>2. \A i \in 1..(Len(stack'[c]) - 1) : stack'[c][i].done
        BY <3>1
      <3> QED BY <2>4, <2>5, <3>1, <3>2 DEF IInv, Shape
    <2>8. ~disturbed'[c] => Once(c)' /\ Marked(c)'
      <3>1. ~disturbed'[c] => Running = {}
        BY <1>2 DEF Download
      <3>2. visited' = {s}
        BY <1>2 DEF Download
      <3>3. Top(c)' = Frame(s)
        BY <2>3 DEF Top
      <3> QED BY <2>2, <2>3, <2>4, <3>1, <3>2, <3>3 DEF Once, Marked, Listed
    <2>9. ASSUME NEW d \in Callers \ {c}, ~disturbed'[d] PROVE Once(d)' /\ Marked(d)'
      <3>1. ~disturbed[d] /\ d \notin Running
        BY <1>2, <2>9 DEF Download
      <3> QED BY <2>4, <2>5, <3>1 DEF IInv, Once, Marked
    <2> QED BY <2>6, <2>7, <2>8, <2>9 DEF IInv
  <1>3. ASSUME NEW c \in Callers, Forget(c) PROVE IInv'
    <2>1. Running' = Running /\ c \notin Running
      BY <1>3 DEF Forget, Running, IInv, DTypeOK
    <2>2. DTypeOK' /\ Shape'
      BY <1>3, <2>1 DEF Forget, IInv, DTypeOK, Shape
    <2>3. Once(c)' /\ Marked(c)'
      BY <1>3, <2>1 DEF Forget, IInv, DTypeOK, Once, Marked
    <2>4. ASSUME NEW d \in Callers \ {c}, ~disturbed'[d] PROVE Once(d)' /\ Marked(d)'
      BY <1>3, <2>1, <2>4 DEF Forget, IInv, DTypeOK, Once, Marked, Listed,
         Fetching, Active, Top
    <2> QED BY <2>2, <2>3, <2>4 DEF IInv
  <1>4. ASSUME NEW c \in Callers, DStep(c) PROVE IInv'
    <2> DEFINE top == Top(c)
    <2>1. Active(c)
      BY <1>4 DEF DStep, FetchOk, FetchRetry, FetchFails, SkipVisited, SkipTooDeep,
         Enter, ListDone, Fetching, AtInclude
    <2>2. top \in Frames /\ Len(stack[c]) \in Nat \ {0}
      BY <2>1 DEF IInv, DTypeOK, Active, Top
    <2>3. /\ rules[c] \in Seq(Sources) /\ visited \subseteq Sources
          /\ rules \in [Callers -> Seq(Sources)]
          /\ dropped \in [Callers -> BOOLEAN]
          /\ verdict \in [Callers -> {"none", "running", "resolved", "rejected"}]
      BY DEF IInv, DTypeOK
    <2>4. ~disturbed[c] => Once(c) /\ Listed(rules[c]) \subseteq visited
      BY <2>1 DEF IInv, Marked, Active
    <2>5. ~disturbed[c] /\ Fetching(c) => top.src \in visited \ Listed(rules[c])
      BY <2>1 DEF IInv, Marked, Active
    <2>6. CASE FetchOk(c)
      <3> DEFINE e == [top EXCEPT !.done = TRUE]
      <3>1. e \in Frames /\ e.done
        BY <2>2 DEF Frames
      <3>2. stack' = [stack EXCEPT ![c] = [@ EXCEPT ![Len(stack[c])] = e]]
        BY <2>6 DEF FetchOk, Top
      <3>3. /\ rules' \in [Callers -> Seq(Sources)]
            /\ rules'[c] = Append(rules[c], top.src)
            /\ \A d \in Callers \ {c} : rules'[d] = rules[d]
        BY <2>2, <2>3, <2>6 DEF FetchOk, Frames
      <3>4. ~disturbed[c] => Once(c)' /\ Listed(rules'[c]) \subseteq visited
        <4> SUFFICES ASSUME ~disturbed[c]
                     PROVE  Once(c)' /\ Listed(rules'[c]) \subseteq visited
          OBVIOUS
        <4>1. top.src \in visited \ Listed(rules[c])
          BY <2>5, <2>6 DEF FetchOk
        <4>2. \A i, j \in 1..Len(rules[c]) : rules[c][i] = rules[c][j] => i = j
          BY <2>4 DEF Once
        <4>3. /\ Listed(rules'[c]) = Listed(rules[c]) \cup {top.src}
              /\ \A i, j \in 1..Len(rules'[c]) : rules'[c][i] = rules'[c][j] => i = j
          <5> DEFINE q == rules[c]
                     t == top.src
          <5>1. q \in Seq(Sources) /\ t \in Sources /\ t \notin Listed(q)
            BY <2>3, <4>1
          <5>2. rules'[c] = Append(q, t)
            BY <3>3
          <5>3. \A i, j \in 1..Len(q) : q[i] = q[j] => i = j
            BY <4>2
          <5> HIDE DEF q, t
          <5>4. /\ Listed(Append(q, t)) = Listed(q) \cup {t}
                /\ \A i, j \in 1..Len(Append(q, t)) :
                      Append(q, t)[i] = Append(q, t)[j] => i = j
            BY <5>1, <5>3, AppendedOnce
          <5> QED BY <5>2, <5>4 DEF q, t
        <4> QED BY <2>4, <4>1, <4>3 DEF Once
      <3> HIDE DEF e, top
      <3> QED BY <2>1, <2>3, <2>6, <3>1, <3>2, <3>3, <3>4, TopKept DEF FetchOk
    <2>7. CASE FetchRetry(c)
      <3> DEFINE e == [top EXCEPT !.try = @ + 1]
      <3>1. e \in Frames /\ e.src = top.src /\ e.done = top.done
        BY <2>2, <2>7, MaxRetriesAssumption DEF Frames, FetchRetry
      <3>2. stack' = [stack EXCEPT ![c] = [@ EXCEPT ![Len(stack[c])] = e]]
        BY <2>7 DEF FetchRetry, Top
      <3>3. ~disturbed[c] => /\ Once(c)' /\ Listed(rules'[c]) \subseteq visited
                             /\ e.src \in visited \ Listed(rules'[c])
        BY <2>4, <2>5, <2>7, <3>1 DEF FetchRetry, Once
      <3> HIDE DEF e, top
      <3> QED BY <2>1, <2>3, <2>7, <3>1, <3>2, <3>3, TopKept DEF FetchRetry
    <2>8. CASE FetchFails(c)
      <3>1. /\ verdict' \in [Callers -> {"none", "running", "resolved", "rejected"}]
            /\ dropped' \in [Callers -> BOOLEAN]
            /\ \A d \in Callers \ {c} : verdict'[d] = verdict[d]
        BY <2>3, <2>8 DEF FetchFails
      <3>2. verdict'[c] = "running" <=> Depth(c) > 0
        <4>1. Depth(c) \in Nat /\ verdict[c] = "running"
          BY <2>1, <2>2 DEF Depth, Active, Running
        <4>2. verdict'[c] = IF Depth(c) = 0 THEN "rejected" ELSE verdict[c]
          BY <2>3, <2>8 DEF FetchFails
        <4> QED BY <4>1, <4>2
      <3> QED BY <2>1, <2>8, <3>1, <3>2, ResumeKeeps DEF FetchFails
    <2>9. CASE SkipVisited(c) \/ SkipTooDeep(c)
      <3> DEFINE e == Advance(top)
      <3>1. e \in Frames /\ e.done
        BY <2>2, <2>9 DEF Frames, Advance, SkipVisited, SkipTooDeep, AtInclude
      <3>2. stack' = [stack EXCEPT ![c] = [@ EXCEPT ![Len(stack[c])] = e]]
        BY <2>9 DEF SkipVisited, SkipTooDeep, Top
      <3>3. dropped' \in [Callers -> BOOLEAN]
        BY <2>3, <2>9 DEF SkipVisited, SkipTooDeep
      <3>4. ~disturbed[c] => Once(c)' /\ Listed(rules'[c]) \subseteq visited
        BY <2>4, <2>9 DEF SkipVisited, SkipTooDeep, Once
      <3>5. UNCHANGED <<visited, rules, verdict, disturbed>>
        BY <2>9 DEF SkipVisited, SkipTooDeep
      <3> HIDE DEF e, top
      <3> QED BY <2>1, <2>3, <3>1, <3>2, <3>3, <3>4, <3>5, TopKept
    <2>10. CASE Enter(c)
      <3> DEFINE t == Target(c)
      <3>1. t \in Sources
        BY <2>2, <2>10, IncludesAssumption DEF Enter, AtInclude, Target, Frames
      <3>2. Frame(t) \in Frames /\ ~Frame(t).done /\ Frame(t).src = t
        BY <3>1, MaxRetriesAssumption DEF Frame, Frames
      <3>3. /\ stack'[c] = Append(stack[c], Frame(t))
            /\ \A d \in Callers \ {c} : stack'[d] = stack[d]
        BY <2>10 DEF Enter, IInv, DTypeOK
      <3>4. DTypeOK' /\ Kept(c)
        BY <2>10, <3>1, <3>2, <3>3 DEF Enter, IInv, DTypeOK, Kept
      <3>5. c \in Running' /\ Running' = Running
        BY <2>1, <2>10 DEF Enter, Running, Active
      <3>6. /\ stack'[c] # <<>> /\ Len(stack'[c]) = Len(stack[c]) + 1
            /\ stack'[c][Len(stack'[c])] = Frame(t)
            /\ \A i \in 1..Len(stack[c]) : stack'[c][i] = stack[c][i]
        <4>1. stack[c] \in Seq(Frames)
          BY DEF IInv, DTypeOK
        <4> HIDE DEF t
        <4> QED BY <3>2, <3>3, <4>1
      <3>7. \A i \in 1..(Len(stack'[c]) - 1) : stack'[c][i].done
        BY <2>2, <2>10, <3>6 DEF Enter, AtInclude, Top, IInv, Shape
      <3>8. ~disturbed'[c] => Once(c)' /\ Marked(c)'
        BY <2>1, <2>4, <2>10, <3>2, <3>5, <3>6 DEF Enter, Once, Marked, Top, Active,
           IInv
      <3> QED BY <2>1, <3>4, <3>5, <3>6, <3>7, <3>8, StepKeepsOthers DEF Own, Active
    <2>11. CASE ListDone(c)
      <3>1. /\ verdict' \in [Callers -> {"none", "running", "resolved", "rejected"}]
            /\ \A d \in Callers \ {c} : verdict'[d] = verdict[d]
        BY <2>3, <2>11 DEF ListDone
      <3>2. verdict'[c] = "running" <=> Depth(c) > 0
        <4>1. Depth(c) \in Nat /\ verdict[c] = "running"
          BY <2>1, <2>2 DEF Depth, Active, Running
        <4>2. verdict'[c] = IF Depth(c) = 0 THEN "resolved" ELSE verdict[c]
          BY <2>3, <2>11 DEF ListDone
        <4> QED BY <4>1, <4>2
      <3> QED BY <2>1, <2>3, <2>11, <3>1, <3>2, ResumeKeeps DEF ListDone
    <2> QED BY <1>4, <2>6, <2>7, <2>8, <2>9, <2>10, <2>11 DEF DStep
  <1> QED BY <1>1, <1>2, <1>3, <1>4 DEF DNext

\* Types: a download that runs has a chain of activations of known lists, none
\* of which is tried more than MaxRetries times again.
THEOREM TypeCorrect == DSpec => []DTypeOK
  <1>1. DInit => IInv
    BY DEF DInit, IInv, DTypeOK, Shape, Once, Marked, Running
  <1>2. IInv => DTypeOK
    BY DEF IInv
  <1> QED BY <1>1, <1>2, Inductive, PTL DEF DSpec

\* A download that has visitedUrls for itself collects no list twice, for any
\* graph of includes, any limits and any fetches that fail.
THEOREM OnceWhenAloneAlways == DSpec => []OnceWhenAlone
  <1>1. DInit => IInv
    BY DEF DInit, IInv, DTypeOK, Shape, Once, Marked, Running
  <1>2. IInv => OnceWhenAlone
    BY DEF IInv, OnceWhenAlone, Once
  <1> QED BY <1>1, <1>2, Inductive, PTL DEF DSpec
-----------------------------------------------------------------------------
(* The caching downloader around it.                                       *)

\* The types, with the filter downloader's own invariant.
CInv == IInv /\ TypeOK

-----------------------------------------------------------------------------
\* Every step of the caching downloader is one of the filter downloader or
\* leaves it alone.
LEMMA StepRefines == TypeOK /\ [Next]_vars => [DNext]_downloader
  <1> SUFFICES ASSUME TypeOK, [Next]_vars PROVE [DNext]_downloader
    OBVIOUS
  <1>1. CASE UNCHANGED vars
    BY <1>1 DEF vars
  <1>2. ASSUME NEW c \in Callers, NEW s \in Configured, Call(c, s)
        PROVE  [DNext]_downloader
    BY <1>2 DEF Call
  <1>3. ASSUME NEW s \in Configured, Expire(s) PROVE [DNext]_downloader
    BY <1>3 DEF Expire
  <1>4. ASSUME NEW c \in Callers, Step(c) PROVE [DNext]_downloader
    <2>1. CASE LookUp(c) \/ Evict(c) \/ Store(c) \/ Snapshot(c) \/ Recall(c)
      BY <2>1 DEF LookUp, Evict, Store, Snapshot, Recall
    <2>2. CASE Start(c)
      <3>1. wanted[c] \in Sources
        BY <2>2, ConfiguredAssumption DEF Start, TypeOK
      <3> QED BY <2>2, <3>1 DEF Start, DNext
    <2>3. CASE Base(c)
      BY <2>3 DEF Base, DNext
    <2>4. CASE Record(c)
      BY <2>4 DEF Record, DNext
    <2> QED BY <1>4, <2>1, <2>2, <2>3, <2>4 DEF Step
  <1> QED BY <1>1, <1>2, <1>3, <1>4 DEF Next

\* What the caching downloader keeps for c while it moves c along.
LEMMA Updates ==
    ASSUME NEW m \in Health, NEW ok \in BOOLEAN
    PROVE  Updated(m, ok) \in Health
  <1>1. m.recent \in Seq(BOOLEAN) /\ m.total \in Nat /\ m.failed \in Nat
    BY DEF Health, Outcomes
  <1> DEFINE q == <<ok>> \o m.recent
  <1>2. q \in Seq(BOOLEAN)
    BY <1>1
  <1>3. Newest(q, MaxRecent) \in Seq(BOOLEAN)
    <2> DEFINE n == IF Len(q) < MaxRecent THEN Len(q) ELSE MaxRecent
    <2>1. n \in Int /\ n <= Len(q) /\ 1 \in Int /\ Len(q) \in Nat
      BY <1>2, MaxRecentAssumption
    <2>2. \A i \in 1..n : q[i] \in BOOLEAN
      BY <1>2, <2>1
    <2> HIDE DEF n, q
    <2>3. SubSeq(q, 1, n) \in Seq(BOOLEAN)
      BY <2>1, <2>2, SubSeqProperties
    <2> QED BY <2>3 DEF Newest, n
  <1> HIDE DEF q
  <1>4. [total |-> m.total + 1, failed |-> m.failed + (IF ok THEN 0 ELSE 1),
         recent |-> Newest(q, MaxRecent)] \in Health
    BY <1>1, <1>3 DEF Health, Outcomes
  <1> QED BY <1>4 DEF Updated, q

LEMMA TypesInductive == CInv /\ [Next]_vars => CInv'
  <1> SUFFICES ASSUME CInv, [Next]_vars PROVE CInv'
    OBVIOUS
  <1>1. IInv'
    BY StepRefines, Inductive DEF CInv
  <1>2. DTypeOK'
    BY <1>1 DEF IInv
  <1>3. CASE UNCHANGED vars
    BY <1>1, <1>2, <1>3 DEF vars, CInv, TypeOK, records, history
  <1> USE DEF Goes, Flaw, Fine, records, history
  <1>4. ASSUME NEW c \in Callers, NEW s \in Configured, Call(c, s) PROVE TypeOK'
    BY <1>2, <1>4, BoundsAssumption DEF CInv, TypeOK, Call, Phases
  <1>5. ASSUME NEW s \in Configured, Expire(s) PROVE TypeOK'
    <2>1. cache[s] \in Entries
      BY <1>5 DEF Expire, CInv, TypeOK
    <2>2. [cache[s] EXCEPT !.live = FALSE] \in Entries
      BY <2>1 DEF Entries
    <2>3. cache' \in [Configured -> {None} \cup Entries]
      BY <1>5, <2>2 DEF Expire, CInv, TypeOK
    <2> QED BY <1>2, <1>5, <2>3 DEF Expire, CInv, TypeOK
  <1>6. ASSUME NEW c \in Callers, Step(c) PROVE TypeOK'
    <2> USE BoundsAssumption
    <2>1. CASE LookUp(c)
      BY <1>2, <2>1 DEF LookUp, CInv, TypeOK, Phases
    <2>2. CASE Evict(c)
      BY <1>2, <2>2 DEF Evict, CInv, TypeOK, Phases
    <2>3. CASE Start(c)
      BY <1>2, <2>3 DEF Start, CInv, TypeOK, Phases
    <2>4. CASE Base(c)
      BY <1>2, <2>4 DEF Base, CInv, TypeOK
    <2>5. CASE Store(c)
      <3> DEFINE e == [list |-> rules[c], excused |-> disturbed[c] \/ dropped[c],
                       live |-> TRUE]
      <3>1. disturbed[c] \in BOOLEAN /\ dropped[c] \in BOOLEAN /\ rules[c] \in Seq(Sources)
        BY DEF CInv, TypeOK, DTypeOK
      <3>2. (disturbed[c] \/ dropped[c]) \in BOOLEAN
        BY <3>1, Zenon
      <3>3. e \in Entries
        BY <3>1, <3>2 DEF Entries
      <3>4. cache' = [cache EXCEPT ![wanted[c]] = e] \/ cache' = cache
        BY <2>5 DEF Store
      <3> HIDE DEF e
      <3>5. wanted[c] \in Configured
        BY <2>5 DEF Store, CInv, TypeOK
      <3>6. cache' \in [Configured -> {None} \cup Entries]
        BY <3>3, <3>4 DEF CInv, TypeOK
      <3>7. torn' \subseteq Configured
        BY <2>5, <3>5 DEF Store, CInv, TypeOK
      <3> QED BY <1>2, <2>5, <3>6, <3>7 DEF Store, CInv, TypeOK, Phases
    <2>6. CASE Snapshot(c)
      <3>1. wanted[c] \in Configured /\ rules[c] \in Seq(Sources)
        BY <2>6 DEF Snapshot, CInv, TypeOK, DTypeOK
      <3> QED BY <1>2, <2>6, <3>1 DEF Snapshot, CInv, TypeOK, Phases
    <2>7. CASE Recall(c)
      <3>1. wanted[c] \in Configured
        BY <2>7 DEF Recall, CInv, TypeOK
      <3>2. health[wanted[c]] \in Health /\ Unknown \in Health
        BY <3>1 DEF CInv, TypeOK, Unknown, Health, Outcomes
      <3> QED BY <1>2, <2>7, <3>1, <3>2 DEF Recall, CInv, TypeOK, Phases
    <2>8. CASE Record(c)
      <3>1. wanted[c] \in Configured /\ metrics[c] \in Health /\ Unknown \in Health
        BY <2>8 DEF Record, CInv, TypeOK, Unknown, Health, Outcomes
      <3>2. Succeeded(c) \in BOOLEAN
        BY DEF Succeeded
      <3>3. Updated(metrics[c], Succeeded(c)) \in Health
        BY <3>1, <3>2, Updates
      <3>4. <<Succeeded(c)>> \o settled[wanted[c]] \in Outcomes
        BY <3>1, <3>2 DEF CInv, TypeOK, Outcomes
      <3>5. health' \in [Configured -> Health]
        BY <2>8, <3>3 DEF Record, CInv, TypeOK
      <3>6. settled' \in [Configured -> Outcomes]
        BY <2>8, <3>4 DEF Record, CInv, TypeOK
      <3>7. metrics' \in [Callers -> Health]
        BY <2>8, <3>1 DEF Record, CInv, TypeOK
      <3> QED BY <1>2, <2>8, <3>1, <3>5, <3>6, <3>7 DEF Record, CInv, TypeOK, Phases
    <2> QED BY <1>6, <2>1, <2>2, <2>3, <2>4, <2>5, <2>6, <2>7, <2>8 DEF Step
  <1> QED BY <1>1, <1>3, <1>4, <1>5, <1>6 DEF Next, CInv

LEMMA TypesInit == Init => CInv
  <1> SUFFICES ASSUME Init PROVE CInv
    OBVIOUS
  <1>1. IInv
    BY DEF Init, DInit, IInv, DTypeOK, Shape, Once, Marked, Running
  <1>2. Unknown \in Health /\ <<>> \in Outcomes
    BY DEF Unknown, Health, Outcomes
  <1> QED BY <1>1, <1>2, BoundsAssumption DEF Init, CInv, TypeOK, IInv, Phases

\* Types: a call under way has a source, and the three records of a source are
\* a list, a snapshot and metrics.
THEOREM CachingTypes == Spec => []TypeOK
  <1>1. CInv => TypeOK
    BY DEF CInv
  <1> QED BY <1>1, TypesInit, TypesInductive, PTL DEF Spec

\* The composition drives the filter downloader by its own actions only, so all
\* that is proved of FilterDownloader holds in it.
THEOREM DrivesDownloader == Spec => DSpec
  <1>1. Init => DInit
    BY DEF Init
  <1>2. CInv => TypeOK
    BY DEF CInv
  <1> QED BY <1>1, <1>2, TypesInit, TypesInductive, StepRefines, PTL DEF Spec, DSpec

\* In the composition, too, a download without company collects no list twice.
THEOREM CachedOnceWhenAlone == Spec => []OnceWhenAlone
  BY DrivesDownloader, OnceWhenAloneAlways

-----------------------------------------------------------------------------
\* A settled attempt adds one to the failures exactly if it failed.
LEMMA FailuresCounted ==
    ASSUME NEW q \in Seq(BOOLEAN), NEW ok \in BOOLEAN, IsFiniteSet(Failures(q))
    PROVE  /\ IsFiniteSet(Failures(<<ok>> \o q))
           /\ Cardinality(Failures(<<ok>> \o q))
                = Cardinality(Failures(q)) + (IF ok THEN 0 ELSE 1)
  <1> DEFINE r == <<ok>> \o q
             shifted == {i + 1 : i \in Failures(q)}
             f == [i \in Failures(q) |-> i + 1]
  <1>1. /\ r \in Seq(BOOLEAN) /\ Len(r) = Len(q) + 1 /\ r[1] = ok
        /\ \A i \in 1..Len(q) : r[i + 1] = q[i]
    OBVIOUS
  <1>2. Failures(q) \subseteq 1..Len(q) /\ Len(q) \in Nat
    BY DEF Failures
  <1>3. f \in Bijection(Failures(q), shifted)
    <2>1. f \in [Failures(q) -> shifted]
      OBVIOUS
    <2>2. \A i, j \in Failures(q) : f[i] = f[j] => i = j
      BY <1>2
    <2>3. \A t \in shifted : \E i \in Failures(q) : f[i] = t
      OBVIOUS
    <2> HIDE DEF f, shifted
    <2> QED BY <2>1, <2>2, <2>3 DEF Bijection, Injection, Surjection, IsInjective
  <1>4. IsFiniteSet(shifted) /\ Cardinality(shifted) = Cardinality(Failures(q))
    <2>1. ExistsBijection(Failures(q), shifted)
      BY <1>3 DEF ExistsBijection
    <2> HIDE DEF shifted, f
    <2> QED BY <2>1, FS_Bijection
  <1>5. 1 \notin shifted
    BY <1>2
  <1>6. Failures(r) = IF ok THEN shifted ELSE shifted \cup {1}
    <2>1. \A i \in 1..Len(r) : i = 1 \/ i - 1 \in 1..Len(q)
      BY <1>1, <1>2
    <2>2. \A i \in 1..Len(q) : i \in Failures(q) <=> i + 1 \in Failures(r)
      BY <1>1, <1>2 DEF Failures
    <2>3. shifted \subseteq Failures(r)
      BY <1>2, <2>2
    <2>4. 1 \in Failures(r) <=> ~ok
      BY <1>1, <1>2 DEF Failures
    <2>5. \A i \in Failures(r) : i = 1 \/ i \in shifted
      <3> SUFFICES ASSUME NEW i \in Failures(r), i # 1 PROVE i \in shifted
        OBVIOUS
      <3>1. i \in 1..Len(r) /\ i - 1 \in 1..Len(q) /\ (i - 1) + 1 = i
        BY <1>1, <2>1 DEF Failures
      <3>2. i - 1 \in Failures(q)
        BY <2>2, <3>1
      <3> QED BY <3>1, <3>2
    <2> HIDE DEF r, shifted, f
    <2>6. CASE ok
      BY <2>3, <2>4, <2>5, <2>6
    <2>7. CASE ~ok
      BY <2>3, <2>4, <2>5, <2>7
    <2> QED BY <2>6, <2>7
  <1> HIDE DEF shifted, f, r
  <1>7. Cardinality(shifted) \in Nat
    BY <1>4, FS_CardinalityType
  <1>8. IsFiniteSet(shifted \cup {1}) /\ Cardinality(shifted \cup {1}) = Cardinality(shifted) + 1
    BY <1>4, <1>5, FS_AddElement
  <1>9. IsFiniteSet(Failures(r)) /\ Cardinality(Failures(r))
                = Cardinality(Failures(q)) + (IF ok THEN 0 ELSE 1)
    BY <1>4, <1>6, <1>7, <1>8
  <1> QED BY <1>9 DEF r


-----------------------------------------------------------------------------
\* A record counts no more than has settled, in the storage and in the hands of
\* every call that is about to write it back.
Within(m, q) == m.total <= Len(q) /\ m.failed <= Cardinality(Failures(q))
CountInv ==
    /\ \A s \in Configured :
          IsFiniteSet(Failures(settled[s])) /\ Within(health[s], settled[s])
    /\ \A c \in Callers : phase[c] = "record" => Within(metrics[c], settled[wanted[c]])

LEMMA CountInit == Init => CountInv
  <1> SUFFICES ASSUME Init PROVE CountInv
    OBVIOUS
  <1>1. Failures(<<>>) = {} /\ Len(<<>>) = 0
    BY DEF Failures
  <1>2. IsFiniteSet({}) /\ Cardinality({}) = 0
    BY FS_EmptySet
  <1>3. Within(Unknown, <<>>)
    <2>1. Unknown.total = 0 /\ Unknown.failed = 0
      BY DEF Unknown
    <2>2. Cardinality(Failures(<<>>)) = 0
      BY <1>1, <1>2, Zenon
    <2> QED BY <1>1, <2>1, <2>2 DEF Within
  <1>4. \A s \in Configured : settled[s] = <<>> /\ health[s] = Unknown
    BY DEF Init
  <1>5. \A c \in Callers : phase[c] # "record"
    BY DEF Init
  <1> QED BY <1>1, <1>2, <1>3, <1>4, <1>5 DEF CountInv

\* More settled attempts leave a record within them.
LEMMA WithinMore ==
    ASSUME NEW q \in Seq(BOOLEAN), NEW ok \in BOOLEAN, IsFiniteSet(Failures(q)),
           NEW m \in Health, Within(m, q)
    PROVE  /\ IsFiniteSet(Failures(<<ok>> \o q))
           /\ Within(m, <<ok>> \o q)
           /\ Within(Updated(m, ok), <<ok>> \o q)
  <1>1. /\ IsFiniteSet(Failures(<<ok>> \o q))
        /\ Cardinality(Failures(<<ok>> \o q)) = Cardinality(Failures(q)) + (IF ok THEN 0 ELSE 1)
    BY FailuresCounted
  <1>2. Len(<<ok>> \o q) = Len(q) + 1 /\ Len(q) \in Nat
    OBVIOUS
  <1>3. Cardinality(Failures(q)) \in Nat
    BY FS_CardinalityType
  <1>4. m.total \in Nat /\ m.failed \in Nat
    BY DEF Health
  <1>5. Updated(m, ok).total = m.total + 1
        /\ Updated(m, ok).failed = m.failed + (IF ok THEN 0 ELSE 1)
    BY DEF Updated
  <1> QED BY <1>1, <1>2, <1>3, <1>4, <1>5 DEF Within

LEMMA CountInductive == CInv /\ CountInv /\ [Next]_vars => CountInv'
  <1> SUFFICES ASSUME CInv, CountInv, [Next]_vars PROVE CountInv'
    OBVIOUS
  <1> USE DEF Goes
  <1>1. Unknown \in Health /\ \A s \in Configured : Within(Unknown, settled[s])
    <2>1. Unknown \in Health
      BY DEF Unknown, Health, Outcomes
    <2>2. ASSUME NEW s \in Configured PROVE Within(Unknown, settled[s])
      <3>1. Cardinality(Failures(settled[s])) \in Nat
        BY FS_CardinalityType DEF CountInv
      <3>2. Len(settled[s]) \in Nat
        BY DEF CInv, TypeOK, Outcomes
      <3> QED BY <3>1, <3>2 DEF Within, Unknown
    <2> QED BY <2>1, <2>2
  <1>2. CASE UNCHANGED vars
    BY <1>2 DEF vars, CountInv, records, history
  <1>3. ASSUME NEW c \in Callers, NEW s \in Configured, Call(c, s) PROVE CountInv'
    BY <1>3 DEF Call, CountInv, records, history, CInv, TypeOK
  <1>4. ASSUME NEW s \in Configured, Expire(s) PROVE CountInv'
    BY <1>4 DEF Expire, CountInv, history
  <1>5. ASSUME NEW c \in Callers, Step(c) PROVE CountInv'
    <2>1. CASE LookUp(c)
      BY <2>1 DEF LookUp, CountInv, records, history, CInv, TypeOK
    <2>2. CASE Evict(c)
      BY <2>2 DEF Evict, CountInv, history, CInv, TypeOK
    <2>3. CASE Start(c)
      BY <2>3 DEF Start, CountInv, records, history, CInv, TypeOK
    <2>4. CASE Base(c)
      BY <2>4 DEF Base, CountInv, records, history
    <2>5. CASE Store(c)
      BY <2>5 DEF Store, CountInv, CInv, TypeOK
    <2>6. CASE Snapshot(c)
      BY <2>6 DEF Snapshot, CountInv, CInv, TypeOK
    <2>7. CASE Recall(c)
      <3>1. wanted[c] \in Configured
        BY <2>7 DEF Recall, CInv, TypeOK
      <3>2. metrics'[c] \in {health[wanted[c]], Unknown}
        BY <2>7 DEF Recall, CInv, TypeOK
      <3>3. Within(metrics'[c], settled[wanted[c]])
        BY <1>1, <3>1, <3>2 DEF CountInv
      <3>4. \A d \in Callers \ {c} : metrics'[d] = metrics[d] /\ phase'[d] = phase[d]
        BY <2>7 DEF Recall, CInv, TypeOK
      <3> QED BY <2>7, <3>3, <3>4 DEF Recall, CountInv, records
    <2>8. CASE Record(c)
      <3> DEFINE s == wanted[c]
                 q == settled[s]
                 ok == Succeeded(c)
      <3>1. s \in Configured /\ q \in Seq(BOOLEAN) /\ ok \in BOOLEAN
        BY <2>8 DEF Record, CInv, TypeOK, Outcomes, Succeeded
      <3>2. settled' = [settled EXCEPT ![s] = <<ok>> \o q]
        BY <2>8 DEF Record
      <3>3. health'[s] \in {health[s], Updated(metrics[c], ok)}
            /\ \A t \in Configured \ {s} : health'[t] = health[t]
        BY <2>8, <3>1 DEF Record, CInv, TypeOK
      <3>4. /\ \A d \in Callers \ {c} : phase'[d] = phase[d] /\ wanted'[d] = wanted[d]
                                        /\ metrics'[d] = metrics[d]
            /\ phase'[c] = "idle"
        BY <2>8 DEF Record, CInv, TypeOK
      <3>5. /\ metrics[c] \in Health /\ health[s] \in Health
            /\ \A d \in Callers : metrics[d] \in Health
        BY <3>1 DEF CInv, TypeOK
      <3>6. IsFiniteSet(Failures(q)) /\ Within(health[s], q) /\ Within(metrics[c], q)
        BY <2>8, <3>1 DEF CountInv, Record
      <3>7. settled'[s] = <<ok>> \o q /\ \A t \in Configured \ {s} : settled'[t] = settled[t]
        BY <3>1, <3>2 DEF CInv, TypeOK
      <3> HIDE DEF s, q, ok
      <3>8. IsFiniteSet(Failures(settled'[s])) /\ Within(health'[s], settled'[s])
        BY <3>1, <3>3, <3>5, <3>6, <3>7, WithinMore
      <3>9. ASSUME NEW d \in Callers, phase'[d] = "record"
            PROVE  Within(metrics'[d], settled'[wanted'[d]])
        <4>1. d # c /\ phase[d] = "record" /\ metrics'[d] = metrics[d] /\ wanted'[d] = wanted[d]
          BY <3>4, <3>9
        <4>2. wanted[d] \in Configured /\ Within(metrics[d], settled[wanted[d]])
          BY <4>1 DEF CountInv, CInv, TypeOK
        <4>3. CASE wanted[d] = s
          BY <3>1, <3>5, <3>6, <3>7, <4>1, <4>2, <4>3, WithinMore DEF q
        <4>4. CASE wanted[d] # s
          BY <3>7, <4>1, <4>2, <4>4
        <4> QED BY <4>3, <4>4
      <3>10. ASSUME NEW t \in Configured
             PROVE  IsFiniteSet(Failures(settled'[t])) /\ Within(health'[t], settled'[t])
        BY <3>3, <3>7, <3>8 DEF CountInv
      <3> QED BY <3>9, <3>10 DEF CountInv
    <2> QED BY <1>5, <2>1, <2>2, <2>3, <2>4, <2>5, <2>6, <2>7, <2>8 DEF Step
  <1> QED BY <1>2, <1>3, <1>4, <1>5 DEF Next

\* No record of a source shows more attempts or failures than there were,
\* however many calls overlap and whatever fails in the storage.
THEOREM NeverOvercountedAlways == Spec => []NeverOvercounted
  <1>1. CountInv => NeverOvercounted
    BY DEF CountInv, NeverOvercounted, Within
  <1> QED BY <1>1, TypesInit, TypesInductive, CountInit, CountInductive, PTL DEF Spec

-----------------------------------------------------------------------------
\* A record that no update of which overlapped or failed is exact, and so is
\* what the one call that is about to write it back has read.
Exact(m, q) ==
    /\ m.total = Len(q)
    /\ m.failed = Cardinality(Failures(q))
    /\ m.recent = Newest(q, MaxRecent)
ExactInv ==
    \A s \in Configured \ lost :
        /\ Exact(health[s], settled[s])
        /\ \A c \in Callers : phase[c] = "record" /\ wanted[c] = s =>
              /\ Exact(metrics[c], settled[s])
              /\ \A d \in Callers : phase[d] = "record" /\ wanted[d] = s => d = c

\* Cutting before or after a new first element comes to the same.
LEMMA NewestPrepended ==
    ASSUME NEW q \in Seq(BOOLEAN), NEW ok \in BOOLEAN, NEW n \in Nat \ {0}
    PROVE  Newest(<<ok>> \o Newest(q, n), n) = Newest(<<ok>> \o q, n)
  <1> DEFINE k == IF Len(q) < n THEN Len(q) ELSE n
             p == Newest(q, n)
             x == <<ok>> \o p
             y == <<ok>> \o q
             m == IF Len(y) < n THEN Len(y) ELSE n
             l == IF Len(x) < n THEN Len(x) ELSE n
  <1>1. k \in Nat /\ k <= Len(q) /\ Len(q) \in Nat
    OBVIOUS
  <1>2. /\ p \in Seq(BOOLEAN) /\ Len(p) = k
        /\ \A i \in 1..k : p[i] = q[i]
    <2>1. \A i \in 1..k : q[i] \in BOOLEAN
      BY <1>1
    <2>2. p = SubSeq(q, 1, k)
      BY DEF Newest
    <2> HIDE DEF k, p
    <2>3. /\ SubSeq(q, 1, k) \in Seq(BOOLEAN)
          /\ Len(SubSeq(q, 1, k)) = IF 1 <= k THEN k - 1 + 1 ELSE 0
          /\ \A i \in 1..(k - 1 + 1) : SubSeq(q, 1, k)[i] = q[1 + i - 1]
      BY <1>1, <2>1, SubSeqProperties
    <2> QED BY <1>1, <2>2, <2>3
  <1>3. /\ y \in Seq(BOOLEAN) /\ Len(y) = Len(q) + 1 /\ y[1] = ok
        /\ \A i \in 1..Len(q) : y[i + 1] = q[i]
    OBVIOUS
  <1>4. /\ x \in Seq(BOOLEAN) /\ Len(x) = k + 1 /\ x[1] = ok
        /\ \A i \in 1..k : x[i + 1] = q[i]
    <2> HIDE DEF p, k
    <2> QED BY <1>1, <1>2
  <1>5. l = m /\ m \in Nat \ {0} /\ m <= k + 1 /\ m <= Len(y)
    <2> HIDE DEF x, y, p
    <2> QED BY <1>1, <1>3, <1>4
  <1>6. \A i \in 1..m : x[i] = y[i]
    <2> SUFFICES ASSUME NEW i \in 1..m PROVE x[i] = y[i]
      OBVIOUS
    <2> HIDE DEF x, y, p, m, l, k
    <2>1. CASE i = 1
      BY <1>3, <1>4, <2>1
    <2>2. CASE i # 1
      <3>1. i - 1 \in 1..k /\ i - 1 \in 1..Len(q) /\ (i - 1) + 1 = i
        BY <1>1, <1>5, <2>2
      <3>2. x[(i - 1) + 1] = q[i - 1] /\ y[(i - 1) + 1] = q[i - 1]
        BY <1>3, <1>4, <3>1
      <3> QED BY <3>1, <3>2
    <2> QED BY <2>1, <2>2
  <1>7. SubSeq(x, 1, m) = SubSeq(y, 1, m)
    <2> HIDE DEF x, y, p, m, l, k
    <2>1. \A i \in 1..m : x[i] \in BOOLEAN /\ y[i] \in BOOLEAN
      BY <1>1, <1>3, <1>4, <1>5
    <2>2. /\ SubSeq(x, 1, m) \in Seq(BOOLEAN)
          /\ Len(SubSeq(x, 1, m)) = IF 1 <= m THEN m - 1 + 1 ELSE 0
          /\ \A i \in 1..(m - 1 + 1) : SubSeq(x, 1, m)[i] = x[1 + i - 1]
      BY <1>5, <2>1, SubSeqProperties
    <2>3. /\ SubSeq(y, 1, m) \in Seq(BOOLEAN)
          /\ Len(SubSeq(y, 1, m)) = IF 1 <= m THEN m - 1 + 1 ELSE 0
          /\ \A i \in 1..(m - 1 + 1) : SubSeq(y, 1, m)[i] = y[1 + i - 1]
      BY <1>5, <2>1, SubSeqProperties
    <2>4. \A i \in 1..m : SubSeq(x, 1, m)[i] = SubSeq(y, 1, m)[i]
      BY <1>5, <1>6, <2>2, <2>3
    <2>5. Len(SubSeq(x, 1, m)) = m /\ Len(SubSeq(y, 1, m)) = m
      BY <1>5, <2>2, <2>3
    <2> DEFINE a == SubSeq(x, 1, m)
               b == SubSeq(y, 1, m)
    <2> HIDE DEF a, b
    <2>6. a \in Seq(BOOLEAN) /\ b \in Seq(BOOLEAN) /\ Len(a) = m /\ Len(b) = m
          /\ \A i \in 1..m : a[i] = b[i]
      BY <2>2, <2>3, <2>4, <2>5 DEF a, b
    <2>7. a = b
      BY <2>6, SeqEqual
    <2> QED BY <2>7 DEF a, b
  <1> QED BY <1>5, <1>7 DEF Newest

LEMMA ExactInit == Init => ExactInv
  <1> SUFFICES ASSUME Init PROVE ExactInv
    OBVIOUS
  <1>1. Failures(<<>>) = {} /\ Len(<<>>) = 0
    BY DEF Failures
  <1>2. Cardinality(Failures(<<>>)) = 0
    BY <1>1, FS_EmptySet, Zenon
  <1>3. Newest(<<>>, MaxRecent) = <<>>
    <2>1. (IF Len(<<>>) < MaxRecent THEN Len(<<>>) ELSE MaxRecent) = 0
      BY <1>1, MaxRecentAssumption
    <2>2. SubSeq(<<>>, 1, 0) = <<>>
      BY SubSeqEmpty
    <2> QED BY <2>1, <2>2 DEF Newest
  <1>4. Unknown.total = 0 /\ Unknown.failed = 0 /\ Unknown.recent = <<>>
    BY DEF Unknown
  <1>5. Exact(Unknown, <<>>)
    BY <1>1, <1>2, <1>3, <1>4 DEF Exact
  <1>6. \A s \in Configured : settled[s] = <<>> /\ health[s] = Unknown
    BY DEF Init
  <1>7. \A c \in Callers : phase[c] # "record"
    BY DEF Init
  <1> QED BY <1>5, <1>6, <1>7 DEF ExactInv

\* An exact record stays exact when the attempt that settles is added.
LEMMA ExactUpdated ==
    ASSUME NEW q \in Seq(BOOLEAN), NEW ok \in BOOLEAN, IsFiniteSet(Failures(q)),
           NEW m, Exact(m, q)
    PROVE  Exact(Updated(m, ok), <<ok>> \o q)
  <1>1. Cardinality(Failures(<<ok>> \o q)) = Cardinality(Failures(q)) + (IF ok THEN 0 ELSE 1)
    BY FailuresCounted
  <1>2. Len(<<ok>> \o q) = Len(q) + 1
    OBVIOUS
  <1>3. Newest(<<ok>> \o m.recent, MaxRecent) = Newest(<<ok>> \o q, MaxRecent)
    BY MaxRecentAssumption, NewestPrepended DEF Exact
  <1>4. /\ Updated(m, ok).total = m.total + 1
        /\ Updated(m, ok).failed = m.failed + (IF ok THEN 0 ELSE 1)
        /\ Updated(m, ok).recent = Newest(<<ok>> \o m.recent, MaxRecent)
    BY DEF Updated
  <1> QED BY <1>1, <1>2, <1>3, <1>4 DEF Exact

LEMMA ExactInductive == CInv /\ CountInv /\ ExactInv /\ [Next]_vars => ExactInv'
  <1> SUFFICES ASSUME CInv, CountInv, ExactInv, [Next]_vars PROVE ExactInv'
    OBVIOUS
  <1> USE DEF Goes
  <1>1. CASE UNCHANGED vars
    BY <1>1 DEF vars, ExactInv, records, history
  <1>2. ASSUME NEW c \in Callers, NEW s \in Configured, Call(c, s) PROVE ExactInv'
    BY <1>2 DEF Call, ExactInv, records, history, CInv, TypeOK
  <1>3. ASSUME NEW s \in Configured, Expire(s) PROVE ExactInv'
    BY <1>3 DEF Expire, ExactInv, history
  <1>4. ASSUME NEW c \in Callers, Step(c) PROVE ExactInv'
    <2>1. CASE LookUp(c)
      BY <2>1 DEF LookUp, ExactInv, records, history, CInv, TypeOK
    <2>2. CASE Evict(c)
      BY <2>2 DEF Evict, ExactInv, history, CInv, TypeOK
    <2>3. CASE Start(c)
      BY <2>3 DEF Start, ExactInv, records, history, CInv, TypeOK
    <2>4. CASE Base(c)
      BY <2>4 DEF Base, ExactInv, records, history
    <2>5. CASE Store(c)
      BY <2>5 DEF Store, ExactInv, CInv, TypeOK
    <2>6. CASE Snapshot(c)
      BY <2>6 DEF Snapshot, ExactInv, CInv, TypeOK
    <2>7. CASE Recall(c)
      <3> SUFFICES ASSUME NEW s \in Configured, s \notin lost'
                   PROVE  /\ Exact(health'[s], settled'[s])
                          /\ \A d \in Callers : phase'[d] = "record" /\ wanted'[d] = s =>
                                /\ Exact(metrics'[d], settled'[s])
                                /\ \A e \in Callers :
                                      phase'[e] = "record" /\ wanted'[e] = s => e = d
        BY DEF ExactInv
      <3>1. s \notin lost /\ health' = health /\ settled' = settled /\ wanted' = wanted
        BY <2>7 DEF Recall, records
      <3>2. \A d \in Callers \ {c} : phase'[d] = phase[d] /\ metrics'[d] = metrics[d]
        BY <2>7 DEF Recall, CInv, TypeOK
      <3>3. CASE wanted[c] # s
        BY <3>1, <3>2, <3>3 DEF ExactInv
      <3>4. CASE wanted[c] = s
        <4>1. metrics'[c] = health[s]
          BY <2>7, <3>4 DEF Recall, CInv, TypeOK
        <4>2. \A d \in Callers \ {c} : ~(phase[d] = "record" /\ wanted[d] = s)
          BY <2>7, <3>4 DEF Recall, Elsewhere
        <4> QED BY <3>1, <3>2, <4>1, <4>2 DEF ExactInv
      <3> QED BY <3>3, <3>4
    <2>8. CASE Record(c)
      <3> DEFINE s == wanted[c]
                 q == settled[s]
                 ok == Succeeded(c)
      <3>1. s \in Configured /\ q \in Seq(BOOLEAN) /\ ok \in BOOLEAN /\ IsFiniteSet(Failures(q))
        BY <2>8 DEF Record, CInv, TypeOK, Outcomes, Succeeded, CountInv
      <3>2. /\ settled'[s] = <<ok>> \o q
            /\ \A t \in Configured \ {s} : settled'[t] = settled[t] /\ health'[t] = health[t]
        BY <2>8, <3>1 DEF Record, CInv, TypeOK
      <3>3. s \notin lost' => health'[s] = Updated(metrics[c], ok)
        BY <2>8, <3>1 DEF Record, CInv, TypeOK
      <3>4. lost \subseteq lost'
        BY <2>8 DEF Record
      <3>5. /\ \A d \in Callers \ {c} : phase'[d] = phase[d] /\ wanted'[d] = wanted[d]
                                        /\ metrics'[d] = metrics[d]
            /\ phase'[c] = "idle" /\ phase[c] = "record"
        BY <2>8 DEF Record, CInv, TypeOK
      <3>6. s \notin lost =>
               /\ Exact(metrics[c], q)
               /\ \A d \in Callers : phase[d] = "record" /\ wanted[d] = s => d = c
        BY <3>1, <3>5 DEF ExactInv
      <3> HIDE DEF s, q, ok
      <3>7. s \notin lost' => Exact(health'[s], settled'[s])
        BY <3>1, <3>2, <3>3, <3>4, <3>6, ExactUpdated
      <3>8. ASSUME NEW t \in Configured, t \notin lost', t # s
            PROVE  /\ Exact(health'[t], settled'[t])
                   /\ \A d \in Callers : phase'[d] = "record" /\ wanted'[d] = t =>
                         /\ Exact(metrics'[d], settled'[t])
                         /\ \A e \in Callers :
                               phase'[e] = "record" /\ wanted'[e] = t => e = d
        BY <3>2, <3>4, <3>5, <3>8 DEF ExactInv
      <3>9. s \notin lost' => \A d \in Callers : ~(phase'[d] = "record" /\ wanted'[d] = s)
        BY <3>4, <3>5, <3>6
      <3> QED BY <3>7, <3>8, <3>9 DEF ExactInv
    <2> QED BY <1>4, <2>1, <2>2, <2>3, <2>4, <2>5, <2>6, <2>7, <2>8 DEF Step
  <1> QED BY <1>1, <1>2, <1>3, <1>4 DEF Next

\* The record of a source is the history of its attempts, to the last one,
\* unless two updates of it overlapped or the storage failed in one.
THEOREM HealthIsHistoryAlways == Spec => []HealthIsHistory
  <1>1. ExactInv => HealthIsHistory
    BY DEF ExactInv, HealthIsHistory, Exact
  <1> QED BY <1>1, TypesInit, TypesInductive, CountInit, CountInductive, ExactInit,
             ExactInductive, PTL DEF Spec

-----------------------------------------------------------------------------
\* While one call is between its two writes the cache holds its list, unless
\* that has been evicted; otherwise cache and snapshot agree.
Storing(s) == {c \in Callers : phase[c] = "snapshot" /\ wanted[c] = s}
MatchInv ==
    \A s \in Configured \ torn : cache[s] # None =>
        /\ Storing(s) = {} => cache[s].list = snapshot[s]
        /\ \A c \in Storing(s) : cache[s].list = rules[c]
AtMostOne ==
    \A s \in Configured \ torn : \A c, d \in Storing(s) : c = d

\* A step that leaves the two writes of every call alone.
LEMMA MatchUndisturbed ==
    ASSUME MatchInv, AtMostOne, torn' = torn, snapshot' = snapshot,
           \A s \in Configured : Storing(s)' = Storing(s),
           \A s \in Configured : \A c \in Storing(s) : rules'[c] = rules[c],
           \A s \in Configured :
              cache'[s] # None => cache[s] # None /\ cache'[s].list = cache[s].list
    PROVE  MatchInv' /\ AtMostOne'
  BY DEF MatchInv, AtMostOne

LEMMA MatchInductive == CInv /\ MatchInv /\ AtMostOne /\ [Next]_vars => MatchInv' /\ AtMostOne'
  <1> SUFFICES ASSUME CInv, MatchInv, AtMostOne, [Next]_vars PROVE MatchInv' /\ AtMostOne'
    OBVIOUS
  <1> USE DEF Goes
  <1>1. CASE UNCHANGED vars
    BY <1>1, MatchUndisturbed DEF vars, Storing, records, history, downloader, calls
  <1>2. ASSUME NEW c \in Callers, NEW s \in Configured, Call(c, s)
        PROVE  MatchInv' /\ AtMostOne'
    <2>1. \A t \in Configured : Storing(t)' = Storing(t)
      BY <1>2 DEF Call, Storing, CInv, TypeOK
    <2> QED BY <1>2, <2>1, MatchUndisturbed DEF Call, records, history, downloader, calls
  <1>3. ASSUME NEW s \in Configured, Expire(s) PROVE MatchInv' /\ AtMostOne'
    <2>1. \A t \in Configured : Storing(t)' = Storing(t)
      BY <1>3 DEF Expire, Storing
    <2>2. \A t \in Configured :
             cache'[t] # None => cache[t] # None /\ cache'[t].list = cache[t].list
      BY <1>3 DEF Expire, CInv, TypeOK, Entries
    <2> QED BY <1>3, <2>1, <2>2, MatchUndisturbed DEF Expire, history, downloader, calls
  <1>4. ASSUME NEW c \in Callers, Step(c) PROVE MatchInv' /\ AtMostOne'
    <2>1. CASE LookUp(c)
      <3>1. \A t \in Configured : Storing(t)' = Storing(t)
        BY <2>1 DEF LookUp, Storing, CInv, TypeOK
      <3> QED BY <2>1, <3>1, MatchUndisturbed DEF LookUp, records, history, downloader, calls
    <2>2. CASE Evict(c)
      <3>1. \A t \in Configured : Storing(t)' = Storing(t)
        BY <2>2 DEF Evict, Storing, CInv, TypeOK
      <3>2. \A t \in Configured :
               cache'[t] # None => cache[t] # None /\ cache'[t].list = cache[t].list
        BY <2>2 DEF Evict, CInv, TypeOK
      <3> QED BY <2>2, <3>1, <3>2, MatchUndisturbed DEF Evict, history, downloader, calls
    <2>3. CASE Start(c)
      <3>1. \A t \in Configured : Storing(t)' = Storing(t) /\ c \notin Storing(t)
        BY <2>3 DEF Start, Storing, CInv, TypeOK
      <3>2. \A d \in Callers \ {c} : rules'[d] = rules[d]
        BY <2>3 DEF Start, Download, CInv, TypeOK, DTypeOK
      <3>3. \A t \in Configured : \A d \in Storing(t) : rules'[d] = rules[d]
        BY <3>1, <3>2 DEF Storing
      <3> QED BY <2>3, <3>1, <3>3, MatchUndisturbed DEF Start, records, history
    <2>4. CASE Base(c)
      <3>1. \A t \in Configured : Storing(t)' = Storing(t) /\ c \notin Storing(t)
        BY <2>4 DEF Base, Storing
      <3>2. \A d \in Callers \ {c} : rules'[d] = rules[d]
        BY <2>4 DEF Base, DStep, FetchOk, FetchRetry, FetchFails, SkipVisited, SkipTooDeep,
           Enter, ListDone, CInv, TypeOK, DTypeOK
      <3>3. \A t \in Configured : \A d \in Storing(t) : rules'[d] = rules[d]
        BY <3>1, <3>2 DEF Storing
      <3> QED BY <2>4, <3>1, <3>3, MatchUndisturbed DEF Base, records, history
    <2>5. CASE Store(c)
      <3>0. PICK s \in Configured : s = wanted[c]
        BY <2>5 DEF Store, CInv, TypeOK
      <3>1. UNCHANGED <<snapshot, rules, wanted>>
        BY <2>5 DEF Store, CInv, TypeOK, downloader, calls
      <3>2. /\ phase[c] = "base" /\ phase'[c] = "snapshot"
            /\ \A d \in Callers \ {c} : phase'[d] = phase[d]
        BY <2>5, <3>0 DEF Store, CInv, TypeOK
      <3>3. /\ Storing(s)' = Storing(s) \cup {c}
            /\ \A t \in Configured \ {s} : Storing(t)' = Storing(t)
        BY <3>0, <3>1, <3>2 DEF Storing
      <3>4. torn \subseteq torn' /\ \A t \in Configured \ {s} : cache'[t] = cache[t]
        BY <2>5, <3>0 DEF Store, CInv, TypeOK
      <3>5. s \notin torn' => cache'[s].list = rules[c] /\ Storing(s) = {}
        BY <2>5, <3>0, <3>1 DEF Store, Elsewhere, Storing, CInv, TypeOK
      <3>6. ASSUME NEW t \in Configured, t \notin torn', cache'[t] # None
            PROVE  /\ Storing(t)' = {} => cache'[t].list = snapshot'[t]
                   /\ \A d \in Storing(t)' : cache'[t].list = rules'[d]
        <4>1. CASE t = s
          BY <3>1, <3>3, <3>5, <3>6, <4>1
        <4>2. CASE t # s
          <5>1. /\ t \notin torn /\ cache'[t] = cache[t] /\ Storing(t)' = Storing(t)
                /\ rules' = rules /\ snapshot' = snapshot
            BY <3>1, <3>3, <3>4, <3>6, <4>2
          <5> QED BY <3>6, <5>1 DEF MatchInv
        <4> QED BY <4>1, <4>2
      <3>7. AtMostOne'
        <4> SUFFICES ASSUME NEW t \in Configured, t \notin torn'
                     PROVE  \A d, e \in Storing(t)' : d = e
          BY DEF AtMostOne
        <4>1. CASE t = s
          BY <3>3, <3>5, <4>1
        <4>2. CASE t # s
          <5>1. t \notin torn /\ Storing(t)' = Storing(t)
            BY <3>3, <3>4, <4>2
          <5> QED BY <5>1 DEF AtMostOne
        <4> QED BY <4>1, <4>2
      <3> QED BY <3>6, <3>7 DEF MatchInv
    <2>6. CASE Snapshot(c)
      <3>0. PICK s \in Configured : s = wanted[c]
        BY <2>6 DEF Snapshot, CInv, TypeOK
      <3>1. UNCHANGED <<cache, rules, wanted>>
        BY <2>6 DEF Snapshot, CInv, TypeOK, downloader, calls
      <3>2. /\ phase[c] = "snapshot" /\ phase'[c] = "recall"
            /\ \A d \in Callers \ {c} : phase'[d] = phase[d]
        BY <2>6, <3>0 DEF Snapshot, CInv, TypeOK
      <3>3. /\ c \in Storing(s) /\ Storing(s)' = Storing(s) \ {c}
            /\ \A t \in Configured \ {s} : Storing(t)' = Storing(t)
        BY <3>0, <3>1, <3>2 DEF Storing
      <3>4. torn \subseteq torn' /\ \A t \in Configured \ {s} : snapshot'[t] = snapshot[t]
        BY <2>6, <3>0 DEF Snapshot, CInv, TypeOK
      <3>5. s \notin torn' => snapshot'[s] = rules[c]
        BY <2>6, <3>0, <3>1 DEF Snapshot, CInv, TypeOK
      <3>6. ASSUME NEW t \in Configured, t \notin torn', cache'[t] # None
            PROVE  /\ Storing(t)' = {} => cache'[t].list = snapshot'[t]
                   /\ \A d \in Storing(t)' : cache'[t].list = rules'[d]
        <4>1. CASE t = s
          <5>1. s \notin torn /\ cache[s] # None
            BY <3>1, <3>4, <3>6, <4>1
          <5>2. cache[s].list = rules[c]
            BY <3>1, <3>3, <5>1 DEF MatchInv
          <5>3. Storing(s)' = {}
            BY <3>1, <3>3, <5>1 DEF AtMostOne
          <5> QED BY <3>1, <3>5, <3>6, <4>1, <5>2, <5>3
        <4>2. CASE t # s
          <5>1. /\ t \notin torn /\ cache'[t] = cache[t] /\ Storing(t)' = Storing(t)
                /\ rules' = rules /\ snapshot'[t] = snapshot[t]
            BY <3>1, <3>3, <3>4, <3>6, <4>2
          <5> QED BY <3>6, <5>1 DEF MatchInv
        <4> QED BY <4>1, <4>2
      <3>7. AtMostOne'
        <4> SUFFICES ASSUME NEW t \in Configured, t \notin torn'
                     PROVE  \A d, e \in Storing(t)' : d = e
          BY DEF AtMostOne
        <4>1. t \notin torn /\ Storing(t)' \subseteq Storing(t)
          BY <3>3, <3>4
        <4> QED BY <4>1 DEF AtMostOne
      <3> QED BY <3>6, <3>7 DEF MatchInv
    <2>7. CASE Recall(c)
      <3>1. phase[c] # "snapshot" /\ phase'[c] # "snapshot"
        BY <2>7 DEF Recall, CInv, TypeOK
      <3>2. \A t \in Configured : Storing(t)' = Storing(t)
        BY <2>7, <3>1 DEF Recall, Storing, CInv, TypeOK
      <3> QED BY <2>7, <3>2, MatchUndisturbed DEF Recall, records, downloader, calls
    <2>8. CASE Record(c)
      <3>1. \A t \in Configured : Storing(t)' = Storing(t) /\ c \notin Storing(t)
        BY <2>8 DEF Record, Storing, CInv, TypeOK
      <3>2. \A d \in Callers \ {c} : rules'[d] = rules[d]
        BY <2>8 DEF Record, Forget, CInv, TypeOK, DTypeOK
      <3>3. \A t \in Configured : \A d \in Storing(t) : rules'[d] = rules[d]
        BY <3>1, <3>2 DEF Storing
      <3> QED BY <2>8, <3>1, <3>3, MatchUndisturbed DEF Record
    <2> QED BY <1>4, <2>1, <2>2, <2>3, <2>4, <2>5, <2>6, <2>7, <2>8 DEF Step
  <1> QED BY <1>1, <1>2, <1>3, <1>4 DEF Next

\* The snapshot describes the cached list, unless two downloads of the source
\* stored at once or the storage failed.
THEOREM CacheMatchesSnapshotAlways == Spec => []CacheMatchesSnapshot
  <1>1. Init => MatchInv /\ AtMostOne
    BY DEF Init, MatchInv, AtMostOne, Storing
  <1>2. MatchInv => CacheMatchesSnapshot
    BY DEF MatchInv, CacheMatchesSnapshot, Storing
  <1> QED BY <1>1, <1>2, TypesInit, TypesInductive, MatchInductive, PTL DEF Spec
-----------------------------------------------------------------------------
(* A cached list is whole.                                                 *)

\* What a download that has visitedUrls for itself, and leaves nothing out, has
\* seen so far: only lists the source leads to, each of them collected or just
\* being fetched; and of a collected list every include has been seen, or the
\* list still has an activation, which has seen the includes before its next,
\* and the next if another activation came of it.
Reached(q, i, k) == k < q[i].next \/ (k = q[i].next /\ i < Len(q))
Seen(r, e) == Listed(r) \cup (IF e.done THEN {e.src} ELSE {})
Moved(f, e, v) ==
    /\ e.src = f.src /\ (f.done => e.done) /\ (~e.done => e.next = 1)
    /\ \A k \in 1..Len(Includes[e.src]) : k < e.next => Includes[e.src][k] \in v
Complete(f) == f.done /\ f.next > Len(Includes[f.src])
Popped(q, p) ==
    /\ Len(p) = Len(q) - 1 /\ p[Len(p)] = Advance(q[Len(p)])
    /\ \A i \in 1..(Len(p) - 1) : p[i] = q[i]
Finished(x, v) == \A k \in 1..Len(Includes[x]) : Includes[x][k] \in v
WholeSoFar(q, r, v) ==
    /\ Listed(r) \subseteq v /\ v \subseteq Reachable[q[1].src]
    /\ \A x \in v \ Listed(r) : ~q[Len(q)].done /\ x = q[Len(q)].src
    /\ ~q[Len(q)].done => q[Len(q)].next = 1
    /\ \A i \in 1..Len(q) :
          /\ q[i].src \in v
          /\ \A k \in 1..Len(Includes[q[i].src]) :
                Reached(q, i, k) => Includes[q[i].src][k] \in v
    /\ \A x \in Listed(r) :
          Finished(x, v) \/ \E i \in 1..Len(q) : q[i].done /\ q[i].src = x

\* The lists a source leads to are the least closed set around it.
LEMMA ReachableIsLeast ==
    ASSUME NEW s \in Sources
    PROVE  /\ s \in Reachable[s] /\ Closed(Reachable[s]) /\ Reachable[s] \subseteq Sources
           /\ \A S \in SUBSET Sources : s \in S /\ Closed(S) => Reachable[s] \subseteq S
  <1>1. Reachable[s] =
           {t \in Sources : \A S \in SUBSET Sources : s \in S /\ Closed(S) => t \in S}
    BY DEF Reachable
  <1>2. Closed(Reachable[s])
    <2> SUFFICES ASSUME NEW t \in Reachable[s], NEW i \in 1..Len(Includes[t])
                 PROVE  Includes[t][i] \in Reachable[s]
      BY DEF Closed
    <2>1. t \in Sources
      BY <1>1
    <2>2. Includes[t][i] \in Sources
      BY <2>1, IncludesAssumption
    <2>3. ASSUME NEW S \in SUBSET Sources, s \in S, Closed(S) PROVE Includes[t][i] \in S
      BY <1>1, <2>3 DEF Closed
    <2> QED BY <1>1, <2>2, <2>3
  <1> QED BY <1>1, <1>2

\* The innermost activation has been fetched, or stands behind one more include.
LEMMA TopWhole ==
    ASSUME NEW q \in Seq(Frames), q # <<>>, NEW e \in Frames,
           NEW r, NEW t, NEW v, WholeSoFar(q, r, v), Moved(q[Len(q)], e, v),
           Listed(t) = Seen(r, e)
    PROVE  LET p == [q EXCEPT ![Len(q)] = e]
           IN WholeSoFar(p, t, v) /\ p[1].src = q[1].src
  <1> DEFINE n == Len(q)
  <1>a. PICK p \in Seq(Frames) :
           /\ p = [q EXCEPT ![Len(q)] = e] /\ Len(p) = Len(q) /\ p[Len(q)] = e
           /\ \A i \in 1..(Len(q) - 1) : p[i] = q[i]
    <2> DEFINE x == [q EXCEPT ![Len(q)] = e]
    <2>1. /\ x \in Seq(Frames) /\ Len(x) = Len(q) /\ x[Len(x)] = e
          /\ \A i \in 1..(Len(q) - 1) : x[i] = q[i]
      BY LastReplaced
    <2> QED BY <2>1
  <1>b. /\ e.src = q[Len(q)].src /\ (q[Len(q)].done => e.done) /\ (~e.done => e.next = 1)
        /\ \A k \in 1..Len(Includes[e.src]) : k < e.next => Includes[e.src][k] \in v
    BY DEF Moved
  <1>0. Listed(t) = Listed(r) \cup (IF e.done THEN {e.src} ELSE {})
    BY DEF Seen
  <1>1. n \in Nat /\ n >= 1 /\ n \in 1..n
    OBVIOUS
  <1>c. /\ Len(p) = n /\ p[n] = e
        /\ \A i \in 1..(n - 1) : p[i] = q[i]
    BY <1>a
  <1>2. \A i \in 1..n : p[i].src = q[i].src /\ (q[i].done => p[i].done)
    <2>1. \A i \in 1..n : i = n \/ i \in 1..(n - 1)
      BY <1>1
    <2> HIDE DEF n
    <2> QED BY <1>b, <1>c, <2>1 DEF n
  <1>3. e.src \in v /\ Listed(r) \subseteq v
    BY <1>1, <1>b DEF WholeSoFar
  <1>4. \A x \in v \ Listed(t) : ~e.done /\ x = e.src
    BY <1>0, <1>b DEF WholeSoFar
  <1>5. ASSUME NEW i \in 1..n
        PROVE  /\ p[i].src \in v
               /\ \A k \in 1..Len(Includes[p[i].src]) :
                     Reached(p, i, k) => Includes[p[i].src][k] \in v
    <2>1. CASE i = n
      <3>1. p[i] = e /\ Len(p) = i
        BY <1>c, <2>1
      <3>2. \A k : Reached(p, i, k) => k < e.next
        BY <1>1, <2>1, <3>1 DEF Reached
      <3> QED BY <1>3, <1>b, <3>1, <3>2
    <2>2. CASE i # n
      <3>1. i \in 1..(n - 1) /\ i < n
        BY <1>1, <2>2
      <3>2. p[i] = q[i]
        BY <1>c, <3>1
      <3>3. \A k : Reached(p, i, k) <=> Reached(q, i, k)
        BY <1>c, <3>2 DEF Reached
      <3> QED BY <3>2, <3>3 DEF WholeSoFar
    <2> QED BY <2>1, <2>2
  <1>6. \A x \in Listed(t) : Finished(x, v) \/ \E i \in 1..n : p[i].done /\ p[i].src = x
    <2> SUFFICES ASSUME NEW x \in Listed(t), ~Finished(x, v)
                 PROVE  \E i \in 1..n : p[i].done /\ p[i].src = x
      OBVIOUS
    <2>1. CASE x \in Listed(r)
      <3>1. PICK i \in 1..n : q[i].done /\ q[i].src = x
        BY <2>1 DEF WholeSoFar
      <3> QED BY <1>2, <3>1
    <2>2. CASE x \notin Listed(r)
      <3>1. e.done /\ x = e.src
        BY <1>0, <2>2
      <3> QED BY <1>1, <1>c, <3>1
    <2> QED BY <2>1, <2>2
  <1>7. p[1].src = q[1].src /\ v \subseteq Reachable[p[1].src]
    BY <1>1, <1>2 DEF WholeSoFar
  <1>8. Listed(t) \subseteq v
    BY <1>0, <1>3
  <1>9. WholeSoFar(p, t, v)
    BY <1>b, <1>c, <1>4, <1>5, <1>6, <1>7, <1>8 DEF WholeSoFar
  <1> QED BY <1>a, <1>7, <1>9

\* How an activation changes.
LEMMA FramesOf ==
    ASSUME NEW q \in Seq(Frames)
    PROVE  \A i \in 1..Len(q) : q[i] \in Frames
  OBVIOUS
LEMMA FrameAdvanced ==
    ASSUME NEW f \in Frames
    PROVE  /\ Advance(f) \in Frames /\ Advance(f).done = f.done
           /\ Advance(f).src = f.src /\ Advance(f).next = f.next + 1
  BY DEF Advance, Frames
LEMMA FrameRetried ==
    ASSUME NEW f \in Frames, f.try < MaxRetries
    PROVE  LET g == [f EXCEPT !.try = @ + 1]
           IN g \in Frames /\ g.done = f.done /\ g.src = f.src /\ g.next = f.next
  BY MaxRetriesAssumption DEF Frames

\* A list that no one has seen is entered.
LEMMA EnterWhole ==
    ASSUME NEW q \in Seq(Frames), q # <<>>, q[Len(q)].done,
           NEW r, NEW v, WholeSoFar(q, r, v),
           q[Len(q)].next \in 1..Len(Includes[q[Len(q)].src]),
           NEW t, t = Includes[q[Len(q)].src][q[Len(q)].next]
    PROVE  /\ WholeSoFar(Append(q, Frame(t)), r, v \cup {t})
           /\ Append(q, Frame(t))[1].src = q[1].src
  <1> DEFINE n == Len(q)
             p == Append(q, Frame(t))
             w == v \cup {t}
  <1>1. n \in Nat /\ n >= 1 /\ n \in 1..n /\ q[1] \in Frames /\ q[n] \in Frames
    OBVIOUS
  <1>2. t \in Sources
    BY <1>1, IncludesAssumption DEF Frames
  <1>3. Frame(t) \in Frames /\ ~Frame(t).done /\ Frame(t).src = t /\ Frame(t).next = 1
    BY <1>2, MaxRetriesAssumption DEF Frame, Frames
  <1>4. /\ Len(p) = n + 1 /\ p[n + 1] = Frame(t)
        /\ \A i \in 1..n : p[i] = q[i]
    <2> HIDE DEF w
    <2> QED BY <1>3
  <1>5. p[1].src = q[1].src /\ q[1].src \in Sources
    BY <1>1, <1>4 DEF Frames
  <1>6. w \subseteq Reachable[p[1].src]
    <2>1. q[n].src \in Reachable[q[1].src]
      BY <1>1 DEF WholeSoFar
    <2>2. t \in Reachable[q[1].src]
      BY <1>5, <2>1, ReachableIsLeast DEF Closed
    <2> QED BY <1>5, <2>2 DEF WholeSoFar
  <1> HIDE DEF p
  <1>7. \A x \in w \ Listed(r) : ~p[n + 1].done /\ x = p[n + 1].src
    BY <1>3, <1>4 DEF WholeSoFar
  <1>8. ASSUME NEW i \in 1..(n + 1)
        PROVE  /\ p[i].src \in w
               /\ \A k \in 1..Len(Includes[p[i].src]) :
                     Reached(p, i, k) => Includes[p[i].src][k] \in w
    <2>0. i = n + 1 \/ i = n \/ i \in 1..(n - 1)
      BY <1>1
    <2>1. CASE i = n + 1
      <3>1. p[i].src = t /\ p[i].next = 1 /\ ~(i < Len(p))
        BY <1>1, <1>3, <1>4, <2>1
      <3>2. \A k \in 1..Len(Includes[p[i].src]) : ~Reached(p, i, k)
        BY <3>1 DEF Reached
      <3> QED BY <3>1, <3>2
    <2>2. CASE i = n
      <3>1. p[i] = q[n] /\ q[n].src \in v /\ q[n].next \in Nat
        BY <1>1, <1>4, <2>2 DEF WholeSoFar, Frames
      <3>2. \A k \in 1..Len(Includes[q[n].src]) : k < q[n].next => Includes[q[n].src][k] \in v
        BY <1>1 DEF WholeSoFar, Reached
      <3>3. \A k \in 1..Len(Includes[q[n].src]) :
               Reached(p, i, k) => k < q[n].next \/ k = q[n].next
        BY <3>1 DEF Reached
      <3> QED BY <3>1, <3>2, <3>3
    <2>3. CASE i \in 1..(n - 1)
      <3>1. p[i] = q[i] /\ i \in 1..n /\ i < n
        BY <1>1, <1>4, <2>3
      <3>2. \A k : Reached(p, i, k) => Reached(q, i, k)
        BY <3>1 DEF Reached
      <3> QED BY <3>1, <3>2 DEF WholeSoFar
    <2> QED BY <2>0, <2>1, <2>2, <2>3
  <1>9. \A x \in Listed(r) :
           Finished(x, w) \/ \E i \in 1..(n + 1) : p[i].done /\ p[i].src = x
    <2> SUFFICES ASSUME NEW x \in Listed(r), ~Finished(x, w)
                 PROVE  \E i \in 1..(n + 1) : p[i].done /\ p[i].src = x
      OBVIOUS
    <2>1. ~Finished(x, v)
      BY DEF Finished
    <2>2. PICK i \in 1..n : q[i].done /\ q[i].src = x
      BY <2>1 DEF WholeSoFar
    <2>3. i \in 1..(n + 1) /\ p[i] = q[i]
      BY <1>1, <1>4
    <2> QED BY <2>2, <2>3
  <1>10. Listed(r) \subseteq w
    BY DEF WholeSoFar
  <1> HIDE DEF w, n
  <1>11. WholeSoFar(p, r, w)
    <2>1. Len(p) = n + 1 /\ p[Len(p)].next = 1
      BY <1>3, <1>4
    <2> QED BY <1>6, <1>7, <1>8, <1>9, <1>10, <2>1 DEF WholeSoFar
  <1> QED BY <1>5, <1>11 DEF p, w

\* An activation has seen all its includes: so has its list.
LEMMA PopWhole ==
    ASSUME NEW q \in Seq(Frames), NEW p \in Seq(Frames), p # <<>>,
           \A i \in 1..Len(p) : q[i].done, Popped(q, p), Complete(q[Len(q)]),
           NEW r, NEW v, WholeSoFar(q, r, v)
    PROVE  WholeSoFar(p, r, v) /\ p[1].src = q[1].src
  <1> DEFINE n == Len(p)
  <1>0. /\ Len(p) = Len(q) - 1 /\ p[Len(p)] = Advance(q[Len(p)])
        /\ \A i \in 1..(Len(p) - 1) : p[i] = q[i]
        /\ q[Len(q)].done /\ q[Len(q)].next > Len(Includes[q[Len(q)].src])
    BY DEF Popped, Complete
  <1>1. n \in Nat /\ n >= 1 /\ n \in 1..n /\ Len(q) = n + 1 /\ n < Len(q)
    BY <1>0
  <1>2. q[n] \in Frames /\ q[n + 1] \in Frames
    BY <1>1
  <1>3. Advance(q[n]).src = q[n].src /\ Advance(q[n]).done = q[n].done
        /\ Advance(q[n]).next = q[n].next + 1 /\ q[n].next \in Nat
    BY <1>2 DEF Advance, Frames
  <1>4. ASSUME NEW i \in 1..n PROVE p[i].src = q[i].src /\ p[i].done
    <2>1. CASE i = n
      BY <1>0, <1>1, <1>3, <2>1
    <2>2. CASE i # n
      BY <1>0, <1>1, <2>2
    <2> QED BY <2>1, <2>2
  <1>5. p[1].src = q[1].src
    BY <1>1, <1>4
  <1>6. Finished(q[n + 1].src, v)
    <2>1. Includes[q[n + 1].src] \in Seq(Sources) /\ q[n + 1].next \in Nat
      BY <1>2, IncludesAssumption DEF Frames
    <2>2. \A k \in 1..Len(Includes[q[n + 1].src]) : Reached(q, n + 1, k)
      BY <1>0, <1>1, <2>1 DEF Reached
    <2> QED BY <1>1, <2>2 DEF WholeSoFar, Finished
  <1>7. ASSUME NEW i \in 1..n
        PROVE  /\ p[i].src \in v
               /\ \A k \in 1..Len(Includes[p[i].src]) :
                     Reached(p, i, k) => Includes[p[i].src][k] \in v
    <2>1. i \in 1..Len(q) /\ p[i].src = q[i].src
      BY <1>1, <1>4
    <2>2. CASE i = n
      <3>1. \A k \in Nat : Reached(p, i, k) => Reached(q, i, k)
        BY <1>0, <1>1, <1>3, <2>2 DEF Reached
      <3> QED BY <2>1, <3>1 DEF WholeSoFar
    <2>3. CASE i # n
      <3>1. i \in 1..(n - 1) /\ i < n
        BY <1>1, <2>3
      <3>2. \A k : Reached(p, i, k) => Reached(q, i, k)
        BY <1>0, <1>1, <3>1 DEF Reached
      <3> QED BY <2>1, <3>2 DEF WholeSoFar
    <2> QED BY <2>2, <2>3
  <1>8. \A x \in Listed(r) : Finished(x, v) \/ \E i \in 1..n : p[i].done /\ p[i].src = x
    <2> SUFFICES ASSUME NEW x \in Listed(r), ~Finished(x, v)
                 PROVE  \E i \in 1..n : p[i].done /\ p[i].src = x
      OBVIOUS
    <2>1. PICK i \in 1..Len(q) : q[i].done /\ q[i].src = x
      BY DEF WholeSoFar
    <2>2. i # n + 1
      BY <1>6, <2>1
    <2>3. i \in 1..n
      BY <1>1, <2>1, <2>2
    <2> QED BY <1>4, <2>1, <2>3
  <1>9. v \ Listed(r) = {}
    BY <1>0, <1>1 DEF WholeSoFar
  <1>10. p[n].done
    BY <1>1, <1>4
  <1> QED BY <1>5, <1>7, <1>8, <1>9, <1>10 DEF WholeSoFar

\* The source itself has seen all its includes: everything has been collected.
LEMMA EndWhole ==
    ASSUME NEW q \in Seq(Frames), Len(q) = 1,
           q[1].done, q[1].next > Len(Includes[q[1].src]),
           NEW r \in Seq(Sources), NEW v, WholeSoFar(q, r, v)
    PROVE  Listed(r) = Reachable[q[1].src]
  <1>0. q[1] \in Frames /\ 1 \in 1..Len(q)
    BY FramesOf
  <1>1. q[1].src \in Sources /\ q[1].next \in Nat /\ 1 \in 1..Len(q)
    BY <1>0 DEF Frames
  <1>2. v = Listed(r)
    BY DEF WholeSoFar
  <1>3. Finished(q[1].src, v)
    <2>1. Includes[q[1].src] \in Seq(Sources)
      BY <1>1, IncludesAssumption
    <2>2. \A k \in 1..Len(Includes[q[1].src]) : Reached(q, 1, k)
      BY <1>1, <2>1 DEF Reached
    <2> QED BY <1>1, <2>2 DEF WholeSoFar, Finished
  <1>4. \A x \in v : Finished(x, v)
    <2>1. \A i \in 1..Len(q) : i = 1
      OBVIOUS
    <2> QED BY <1>2, <1>3, <2>1 DEF WholeSoFar
  <1>5. Closed(v)
    BY <1>4 DEF Closed, Finished
  <1>6. v \in SUBSET Sources
    BY <1>2 DEF Listed
  <1>7. q[1].src \in v /\ v \subseteq Reachable[q[1].src]
    BY <1>1 DEF WholeSoFar
  <1>8. Reachable[q[1].src] \subseteq v
    BY <1>1, <1>5, <1>6, <1>7, ReachableIsLeast
  <1> QED BY <1>2, <1>7, <1>8

\* The activation below one that ends stands behind its include.
LEMMA ResumedTop ==
    ASSUME DTypeOK, NEW c \in Callers, NEW q \in Seq(Frames), q = stack[c], Len(q) > 1
    PROVE  \E p \in Seq(Frames) :
              Resume(c)[c] = p /\ p # <<>> /\ Popped(q, p)
  <1>1. PICK o \in Seq(Frames) : /\ o = Outer(c) /\ o # <<>> /\ Len(o) = Len(q) - 1
                                 /\ \A i \in 1..Len(o) : o[i] = q[i]
    <2>1. SubSeq(q, 1, Len(q) - 1) = Outer(c)
      BY DEF Outer
    <2>2. /\ Outer(c) \in Seq(Frames) /\ Len(Outer(c)) = Len(q) - 1
          /\ \A i \in 1..Len(Outer(c)) : Outer(c)[i] = q[i]
      BY <2>1, LastDropped
    <2> QED BY <2>2
  <1> DEFINE e == Advance(o[Len(o)])
             p == [o EXCEPT ![Len(o)] = e]
  <1>2. o[Len(o)] \in Frames /\ o[Len(o)] = q[Len(o)]
    BY <1>1
  <1>3. e \in Frames
    BY <1>2, FrameAdvanced
  <1>4. /\ p \in Seq(Frames) /\ Len(p) = Len(o) /\ p[Len(p)] = e
        /\ \A i \in 1..(Len(o) - 1) : p[i] = o[i]
    BY <1>1, <1>3, LastReplaced
  <1>5. Resume(c)[c] = p
    BY <1>1 DEF Resume, DTypeOK
  <1>6. p # <<>>
    BY <1>1, <1>4
  <1>7. \A i \in 1..(Len(p) - 1) : p[i] = q[i]
    <2>1. Len(o) \in Nat
      BY <1>1
    <2> HIDE DEF p
    <2> QED BY <1>1, <1>4, <2>1
  <1>8. e = Advance(q[Len(o)])
    BY <1>2
  <1> HIDE DEF p, e
  <1>9. Popped(q, p)
    BY <1>1, <1>4, <1>7, <1>8 DEF Popped
  <1> QED BY <1>4, <1>5, <1>6, <1>9

\* A download without company, that leaves nothing out, goes on or ends whole.
LEMMA BaseWhole ==
    ASSUME IInv, NEW c \in Callers, DStep(c), ~disturbed[c], ~dropped'[c],
           WholeSoFar(stack[c], rules[c], visited)
    PROVE  /\ c \in Running' => /\ WholeSoFar(stack'[c], rules'[c], visited')
                                /\ stack'[c][1].src = stack[c][1].src
           /\ verdict'[c] = "resolved" =>
                 Listed(rules'[c]) = Reachable[stack[c][1].src]
  <1>1. Active(c)
    BY DEF DStep, FetchOk, FetchRetry, FetchFails, SkipVisited, SkipTooDeep,
       Enter, ListDone, Fetching, AtInclude
  <1>2. PICK q \in Seq(Frames), r \in Seq(Sources) :
           q = stack[c] /\ q # <<>> /\ r = rules[c]
    BY <1>1 DEF Active, IInv, DTypeOK
  <1>3. /\ Len(q) \in Nat /\ Len(q) >= 1 /\ Top(c) = q[Len(q)] /\ Top(c) \in Frames
        /\ Top(c).src \in Sources /\ Top(c).next \in Nat /\ Includes[Top(c).src] \in Seq(Sources)
        /\ Depth(c) = 0 => Len(q) = 1
        /\ Depth(c) # 0 => Len(q) > 1
    <2>1. Top(c) = q[Len(q)] /\ Depth(c) = Len(q) - 1
      BY <1>2 DEF Top, Depth
    <2>2. Len(q) \in Nat /\ Len(q) >= 1 /\ q[Len(q)] \in Frames
      BY <1>2
    <2>3. (Depth(c) = 0 => Len(q) = 1) /\ (Depth(c) # 0 => Len(q) > 1)
      <3>1. \A n \in Nat : n >= 1 => (n - 1 = 0 => n = 1) /\ (n - 1 # 0 => n > 1)
        OBVIOUS
      <3>2. Len(q) \in Nat /\ Len(q) >= 1 /\ Depth(c) = Len(q) - 1
        BY <2>1, <2>2
      <3> HIDE DEF Depth
      <3> QED BY <3>1, <3>2
    <2> QED BY <2>1, <2>2, <2>3, IncludesAssumption DEF Frames
  <1>4. \A i \in 1..(Len(q) - 1) : q[i].done
    BY <1>2 DEF IInv, Shape
  <1>5. /\ stack \in [Callers -> Seq(Frames)] /\ rules \in [Callers -> Seq(Sources)]
        /\ verdict[c] = "running" /\ dropped \in [Callers -> BOOLEAN]
        /\ verdict \in [Callers -> {"none", "running", "resolved", "rejected"}]
    BY <1>1 DEF IInv, DTypeOK, Active, Running
  <1>6. WholeSoFar(q, r, visited)
    BY <1>2
  <1>7. ASSUME NEW e \in Frames, NEW t \in Seq(Sources), rules'[c] = t,
               stack' = [stack EXCEPT ![c] = [@ EXCEPT ![Len(stack[c])] = e]],
               visited' = visited, verdict' = verdict,
               e.src = Top(c).src, Top(c).done => e.done, ~e.done => e.next = 1,
               \A k \in 1..Len(Includes[e.src]) : k < e.next => Includes[e.src][k] \in visited,
               Listed(t) = Seen(r, e)
        PROVE  /\ c \in Running' => /\ WholeSoFar(stack'[c], rules'[c], visited')
                                    /\ stack'[c][1].src = stack[c][1].src
               /\ verdict'[c] # "resolved"
    <2>1. PICK p : p = [q EXCEPT ![Len(q)] = e]
      OBVIOUS
    <2>2. p = stack'[c]
      BY <1>2, <1>5, <1>7, <2>1
    <2>3. Moved(q[Len(q)], e, visited)
      BY <1>3, <1>7 DEF Moved
    <2>4. WholeSoFar(p, t, visited) /\ p[1].src = q[1].src
      <3>1. PICK v : v = visited
        OBVIOUS
      <3>2. WholeSoFar(q, r, v) /\ Moved(q[Len(q)], e, v) /\ q # <<>> /\ Listed(t) = Seen(r, e)
        BY <1>2, <1>6, <1>7, <2>3, <3>1
      <3>3. WholeSoFar(p, t, v) /\ p[1].src = q[1].src
        BY <2>1, <3>2, TopWhole
      <3> QED BY <3>1, <3>3
    <2> QED BY <1>2, <1>5, <1>7, <2>2, <2>4
  <1>8. CASE FetchOk(c)
    <2> DEFINE e == [Top(c) EXCEPT !.done = TRUE]
               t == Append(r, Top(c).src)
    <2>1. e \in Frames /\ e.done /\ e.src = Top(c).src /\ e.next = Top(c).next
      BY <1>3 DEF Frames
    <2>2. stack' = [stack EXCEPT ![c] = [@ EXCEPT ![Len(stack[c])] = e]]
      BY <1>8 DEF FetchOk, Top
    <2>3. t \in Seq(Sources) /\ rules'[c] = t
      BY <1>2, <1>3, <1>5, <1>8 DEF FetchOk
    <2>4. Listed(t) = Seen(r, e)
      <3>1. /\ Len(t) = Len(r) + 1 /\ t[Len(r) + 1] = Top(c).src
            /\ \A i \in 1..Len(r) : t[i] = r[i]
        BY <1>3
      <3>2. /\ \A i \in 1..Len(t) : i = Len(r) + 1 \/ i \in 1..Len(r)
            /\ Len(r) + 1 \in 1..Len(t) /\ 1..Len(r) \subseteq 1..Len(t)
        BY <1>3
      <3> HIDE DEF t
      <3>3. Listed(t) = Listed(r) \cup {Top(c).src}
        BY <3>1, <3>2 DEF Listed
      <3> HIDE DEF e
      <3> QED BY <2>1, <3>3 DEF Seen
    <2>5. Top(c).next = 1
      BY <1>3, <1>6, <1>8 DEF WholeSoFar, FetchOk, Fetching
    <2>6. \A k \in 1..Len(Includes[e.src]) : ~(k < e.next)
      BY <2>1, <2>5
    <2> HIDE DEF e, t
    <2> QED BY <1>7, <1>8, <2>1, <2>2, <2>3, <2>4, <2>6 DEF FetchOk
  <1>9. CASE FetchRetry(c)
    <2> DEFINE e == [Top(c) EXCEPT !.try = @ + 1]
    <2>1. e \in Frames /\ ~e.done /\ ~Top(c).done /\ e.src = Top(c).src /\ e.next = Top(c).next
      <3>1. ~Top(c).done /\ Top(c).try < MaxRetries
        BY <1>9 DEF FetchRetry, Fetching
      <3> QED BY <1>3, <3>1, FrameRetried
    <2>2. stack' = [stack EXCEPT ![c] = [@ EXCEPT ![Len(stack[c])] = e]]
      BY <1>9 DEF FetchRetry, Top
    <2>3. e.next = 1
      BY <1>3, <1>6, <2>1 DEF WholeSoFar
    <2>4. \A k \in 1..Len(Includes[e.src]) : ~(k < e.next)
      BY <2>3
    <2>5. Listed(r) = Seen(r, e)
      BY <2>1 DEF Seen
    <2> HIDE DEF e
    <2> QED BY <1>2, <1>7, <1>9, <2>1, <2>2, <2>3, <2>4, <2>5 DEF FetchRetry
  <1>10. CASE FetchFails(c)
    <2>1. verdict'[c] = IF Depth(c) = 0 THEN "rejected" ELSE verdict[c]
      BY <1>5, <1>10 DEF FetchFails
    <2>2. Depth(c) = 0
      BY <1>5, <1>10 DEF FetchFails
    <2> QED BY <2>1, <2>2 DEF Running
  <1>11. CASE SkipVisited(c)
    <2> DEFINE e == Advance(Top(c))
    <2>1. /\ e \in Frames /\ e.done /\ e.src = Top(c).src /\ e.next = Top(c).next + 1
          /\ Top(c).done
      <3>1. Top(c).done
        BY <1>11 DEF SkipVisited, AtInclude
      <3> QED BY <1>3, <3>1, FrameAdvanced
    <2>2. stack' = [stack EXCEPT ![c] = [@ EXCEPT ![Len(stack[c])] = e]]
      BY <1>11 DEF SkipVisited, Top
    <2>3. Len(q) \in 1..Len(q) /\ q[Len(q)].src \in visited
      BY <1>3, <1>6 DEF WholeSoFar
    <2>4. Listed(r) = Seen(r, e)
      BY <1>3, <1>6, <2>1, <2>3 DEF WholeSoFar, Seen
    <2>5. \A k \in 1..Len(Includes[e.src]) : k < e.next => Includes[e.src][k] \in visited
      <3> SUFFICES ASSUME NEW k \in 1..Len(Includes[Top(c).src]), k < Top(c).next + 1
                   PROVE  Includes[Top(c).src][k] \in visited
        BY <2>1
      <3>1. CASE k = Top(c).next
        BY <1>11, <3>1 DEF SkipVisited, Target
      <3>2. CASE k # Top(c).next
        <4>1. Reached(q, Len(q), k)
          BY <1>3, <3>2 DEF Reached
        <4> QED BY <1>3, <1>6, <2>3, <4>1 DEF WholeSoFar
      <3> QED BY <3>1, <3>2
    <2> HIDE DEF e
    <2> QED BY <1>2, <1>7, <1>11, <2>1, <2>2, <2>4, <2>5 DEF SkipVisited
  <1>12. CASE SkipTooDeep(c)
    BY <1>5, <1>12 DEF SkipTooDeep
  <1>13. CASE Enter(c)
    <2>1. PICK t : t = Target(c)
      OBVIOUS
    <2>2. /\ q[Len(q)].done /\ q[Len(q)].next \in 1..Len(Includes[q[Len(q)].src])
          /\ t = Includes[q[Len(q)].src][q[Len(q)].next]
      BY <1>3, <1>13, <2>1 DEF Enter, AtInclude, Target, Frames
    <2>3. /\ stack'[c] = Append(q, Frame(t)) /\ visited' = visited \cup {t}
          /\ rules' = rules /\ verdict' = verdict
      BY <1>2, <1>5, <1>13, <2>1 DEF Enter
    <2>4. /\ WholeSoFar(Append(q, Frame(t)), r, visited \cup {t})
          /\ Append(q, Frame(t))[1].src = q[1].src
      BY <1>2, <1>6, <2>2, EnterWhole
    <2> QED BY <1>2, <1>5, <2>3, <2>4
  <1>14. CASE ListDone(c)
    <2>1. /\ q[Len(q)].done /\ q[Len(q)].next > Len(Includes[q[Len(q)].src])
      BY <1>1, <1>3, <1>14 DEF ListDone, AtInclude
    <2>2. visited' = visited /\ rules' = rules /\ stack' = Resume(c)
      BY <1>14 DEF ListDone
    <2>3. CASE Depth(c) = 0
      <3>1. Len(q) = 1
        BY <1>3, <2>3
      <3>2. Listed(r) = Reachable[q[1].src]
        BY <1>6, <2>1, <3>1, EndWhole
      <3>3. verdict'[c] = "resolved"
        BY <1>5, <1>14, <2>3 DEF ListDone
      <3> QED BY <1>2, <2>2, <3>2, <3>3 DEF Running
    <2>4. CASE Depth(c) # 0
      <3>1. Len(q) > 1
        BY <1>3, <2>4
      <3>2. PICK p \in Seq(Frames) :
               Resume(c)[c] = p /\ p # <<>> /\ Popped(q, p)
        BY <1>2, <3>1, ResumedTop DEF IInv
      <3>3. (\A i \in 1..Len(p) : q[i].done) /\ Complete(q[Len(q)])
        BY <1>4, <2>1, <3>2 DEF Popped, Complete
      <3>4. WholeSoFar(p, r, visited) /\ p[1].src = q[1].src
        <4>1. PICK v : v = visited
          OBVIOUS
        <4>2. WholeSoFar(q, r, v)
          BY <1>6, <4>1
        <4>3. WholeSoFar(p, r, v) /\ p[1].src = q[1].src
          BY <3>2, <3>3, <4>2, PopWhole
        <4> QED BY <4>1, <4>3
      <3>5. verdict'[c] = "running"
        BY <1>5, <1>14, <2>4 DEF ListDone
      <3> QED BY <1>2, <2>2, <3>2, <3>4, <3>5
    <2> QED BY <2>3, <2>4
  <1> QED BY <1>7, <1>8, <1>9, <1>10, <1>11, <1>12, <1>13, <1>14 DEF DStep

\* A call that waits for its download, while the downloader works for it alone
\* and after that, until the list is stored.
WholeInv ==
    \A c \in Callers : phase[c] = "base" /\ ~disturbed[c] /\ ~dropped[c] =>
        /\ c \in Running => /\ stack[c][1].src = wanted[c]
                            /\ WholeSoFar(stack[c], rules[c], visited)
        /\ Succeeded(c) => Listed(rules[c]) = Reachable[wanted[c]]

\* A step in which the downloader rests.
LEMMA WholeUndisturbed ==
    ASSUME WholeInv, UNCHANGED downloader,
           \A c \in Callers : phase'[c] = "base" => phase[c] = "base" /\ wanted'[c] = wanted[c]
    PROVE  WholeInv'
  <1>1. /\ Running' = Running
        /\ \A c \in Callers : Succeeded(c)' <=> Succeeded(c)
    BY DEF Running, Succeeded, downloader, calls
  <1> QED BY <1>1 DEF WholeInv, downloader, calls

\* What a step of c leaves of the other calls.
LEMMA OthersWhole ==
    ASSUME WholeInv, NEW c \in Callers, NEW d \in Callers \ {c},
           phase'[d] = phase[d], wanted'[d] = wanted[d], rules'[d] = rules[d],
           verdict'[d] = verdict[d], dropped'[d] = dropped[d],
           disturbed[d] => disturbed'[d],
           d \in Running => disturbed'[d]
    PROVE  phase'[d] = "base" /\ ~disturbed'[d] /\ ~dropped'[d] =>
              /\ d \in Running' => /\ stack'[d][1].src = wanted'[d]
                                   /\ WholeSoFar(stack'[d], rules'[d], visited')
              /\ Succeeded(d)' => Listed(rules'[d]) = Reachable[wanted'[d]]
  BY DEF WholeInv, Running, Succeeded

LEMMA FreshWhole ==
    ASSUME NEW s \in Sources
    PROVE  WholeSoFar(<<Frame(s)>>, <<>>, {s}) /\ <<Frame(s)>>[1].src = s
  <1>1. Frame(s) \in Frames /\ ~Frame(s).done /\ Frame(s).src = s /\ Frame(s).next = 1
    BY MaxRetriesAssumption DEF Frame, Frames
  <1>2. PICK f \in Frames : f = Frame(s)
    BY <1>1
  <1>3. Len(<<f>>) = 1 /\ <<f>>[1] = f /\ \A i \in 1..1 : i = 1
    OBVIOUS
  <1>4. Listed(<<>>) = {}
    BY DEF Listed
  <1>5. PICK q : q = <<f>>
    OBVIOUS
  <1>6. Len(q) = 1 /\ q[1] = f /\ f.src = s /\ ~f.done /\ f.next = 1
    BY <1>1, <1>2, <1>3, <1>5
  <1>7. {s} \subseteq Reachable[s]
    BY ReachableIsLeast
  <1>8. \A k \in 1..Len(Includes[s]) : ~Reached(q, 1, k)
    <2>1. Includes[s] \in Seq(Sources)
      BY IncludesAssumption
    <2> QED BY <1>6, <2>1 DEF Reached
  <1>9. WholeSoFar(q, <<>>, {s})
    BY <1>3, <1>4, <1>6, <1>7, <1>8 DEF WholeSoFar
  <1> QED BY <1>2, <1>5, <1>6, <1>9

LEMMA WholeInductive == CInv /\ WholeInv /\ [Next]_vars => WholeInv'
  <1> SUFFICES ASSUME CInv, WholeInv, [Next]_vars PROVE WholeInv'
    OBVIOUS
  <1> USE DEF Goes
  <1>0. /\ phase \in [Callers -> Phases]
        /\ stack \in [Callers -> Seq(Frames)] /\ rules \in [Callers -> Seq(Sources)]
        /\ verdict \in [Callers -> {"none", "running", "resolved", "rejected"}]
        /\ dropped \in [Callers -> BOOLEAN] /\ disturbed \in [Callers -> BOOLEAN]
        /\ wanted \in [Callers -> Configured \cup {None}]
        /\ \A c \in Callers : phase[c] # "idle" => wanted[c] \in Sources
    BY ConfiguredAssumption DEF CInv, TypeOK, DTypeOK
  <1>1. CASE UNCHANGED vars
    BY <1>1, WholeUndisturbed DEF vars
  <1>2. ASSUME NEW c \in Callers, NEW s \in Configured, Call(c, s) PROVE WholeInv'
    BY <1>0, <1>2, WholeUndisturbed DEF Call
  <1>3. ASSUME NEW s \in Configured, Expire(s) PROVE WholeInv'
    BY <1>3, WholeUndisturbed DEF Expire
  <1>4. ASSUME NEW c \in Callers, Step(c) PROVE WholeInv'
    <2>1. CASE LookUp(c) \/ Evict(c) \/ Store(c) \/ Snapshot(c) \/ Recall(c)
      <3>1. UNCHANGED downloader
        BY <2>1 DEF LookUp, Evict, Store, Snapshot, Recall
      <3>2. /\ phase'[c] # "base"
            /\ \A d \in Callers \ {c} : phase'[d] = phase[d] /\ wanted'[d] = wanted[d]
        BY <1>0, <2>1 DEF LookUp, Evict, Store, Snapshot, Recall
      <3> QED BY <3>1, <3>2, WholeUndisturbed
    <2>2. CASE Start(c)
      <3>1. PICK s \in Sources : s = wanted[c] /\ wanted' = wanted /\ Download(c, s)
        BY <1>0, <2>2 DEF Start
      <3>2. /\ verdict'[c] = "running" /\ stack'[c] = <<Frame(s)>> /\ rules'[c] = <<>>
            /\ visited' = {s}
        BY <1>0, <3>1 DEF Download
      <3>3. /\ c \in Running' => /\ stack'[c][1].src = wanted'[c]
                                 /\ WholeSoFar(stack'[c], rules'[c], visited')
            /\ ~Succeeded(c)'
        BY <3>1, <3>2, FreshWhole DEF Succeeded
      <3>4. ASSUME NEW d \in Callers \ {c}
            PROVE  /\ phase'[d] = phase[d] /\ wanted'[d] = wanted[d] /\ rules'[d] = rules[d]
                   /\ verdict'[d] = verdict[d] /\ dropped'[d] = dropped[d]
                   /\ disturbed[d] => disturbed'[d]
                   /\ d \in Running => disturbed'[d]
        <4>1. /\ phase'[d] = phase[d] /\ wanted'[d] = wanted[d] /\ rules'[d] = rules[d]
              /\ verdict'[d] = verdict[d] /\ dropped'[d] = dropped[d]
          BY <1>0, <2>2, <3>1 DEF Start, Download
        <4>2. disturbed'[d] = (disturbed[d] \/ d \in Running)
          BY <3>1, Zenon DEF Download
        <4> QED BY <4>1, <4>2
      <3> QED BY <3>3, <3>4, OthersWhole DEF WholeInv
    <2>3. CASE Base(c)
      <3>1. /\ DStep(c) /\ c \in Running /\ phase' = phase /\ wanted' = wanted
            /\ phase[c] = "base" /\ disturbed' = disturbed
        BY <2>3 DEF Base, DStep, FetchOk, FetchRetry, FetchFails, SkipVisited, SkipTooDeep,
           Enter, ListDone, Fetching, AtInclude, Active
      <3>2. /\ dropped[c] => dropped'[c]
            /\ \A d \in Callers \ {c} : /\ rules'[d] = rules[d] /\ verdict'[d] = verdict[d]
                                        /\ dropped'[d] = dropped[d]
        BY <1>0, <3>1 DEF DStep, FetchOk, FetchRetry, FetchFails, SkipVisited, SkipTooDeep,
           Enter, ListDone
      <3>3. ASSUME ~disturbed'[c], ~dropped'[c]
            PROVE  /\ c \in Running' => /\ stack'[c][1].src = wanted'[c]
                                        /\ WholeSoFar(stack'[c], rules'[c], visited')
                   /\ Succeeded(c)' => Listed(rules'[c]) = Reachable[wanted'[c]]
        <4>1. WholeSoFar(stack[c], rules[c], visited) /\ stack[c][1].src = wanted[c]
          BY <3>1, <3>2, <3>3 DEF WholeInv
        <4> QED BY <3>1, <3>3, <4>1, BaseWhole DEF CInv, Succeeded
      <3>4. \A d \in Callers \ {c} : d \in Running => disturbed'[d]
        BY <3>1 DEF CInv, IInv, Marked
      <3> QED BY <3>1, <3>2, <3>3, <3>4, OthersWhole DEF WholeInv
    <2>4. CASE Record(c)
      <3>1. /\ phase'[c] = "idle" /\ visited' = visited /\ stack' = stack
            /\ \A d \in Callers \ {c} :
                  /\ phase'[d] = phase[d] /\ wanted'[d] = wanted[d] /\ rules'[d] = rules[d]
                  /\ verdict'[d] = verdict[d] /\ dropped'[d] = dropped[d]
                  /\ disturbed'[d] = disturbed[d]
        BY <1>0, <2>4 DEF Record, Forget
      <3> QED BY <3>1 DEF WholeInv, Running, Succeeded
    <2> QED BY <1>4, <2>1, <2>2, <2>3, <2>4 DEF Step
  <1> QED BY <1>1, <1>2, <1>3, <1>4 DEF Next

LEMMA CachedStep == CInv /\ WholeInv /\ CachedIsWhole /\ [Next]_vars => CachedIsWhole'
  <1> SUFFICES ASSUME CInv, WholeInv, CachedIsWhole, [Next]_vars PROVE CachedIsWhole'
    OBVIOUS
  <1>0. cache \in [Configured -> {None} \cup Entries]
    BY DEF CInv, TypeOK
  <1>1. ASSUME \A s \in Configured : cache'[s] # None =>
                  /\ cache[s] # None
                  /\ cache'[s].list = cache[s].list /\ cache'[s].excused = cache[s].excused
        PROVE  CachedIsWhole'
    BY <1>1 DEF CachedIsWhole
  <1>2. CASE UNCHANGED cache
    BY <1>1, <1>2
  <1>3. ASSUME NEW s \in Configured, Expire(s) PROVE CachedIsWhole'
    BY <1>0, <1>1, <1>3 DEF Expire, Entries
  <1>4. ASSUME NEW c \in Callers, Evict(c) PROVE CachedIsWhole'
    BY <1>0, <1>1, <1>4 DEF Evict
  <1>5. ASSUME NEW c \in Callers, Store(c) PROVE CachedIsWhole'
    <2>1. wanted[c] \in Configured /\ rules[c] \in Seq(Sources)
      BY <1>5 DEF Store, CInv, TypeOK, DTypeOK
    <2> DEFINE e == [list |-> rules[c], excused |-> disturbed[c] \/ dropped[c], live |-> TRUE]
    <2>2. cache' = cache \/ cache' = [cache EXCEPT ![wanted[c]] = e]
      BY <1>5 DEF Store
    <2>3. e.list = rules[c] /\ (~e.excused => ~disturbed[c] /\ ~dropped[c])
      OBVIOUS
    <2> HIDE DEF e
    <2>4. ~e.excused => Listed(rules[c]) = Reachable[wanted[c]]
      BY <1>5, <2>3 DEF Store, WholeInv
    <2>5. ~e.excused => \A i, j \in 1..Len(rules[c]) : rules[c][i] = rules[c][j] => i = j
      BY <2>3 DEF CInv, IInv, Once
    <2>6. DOMAIN rules[c] = 1..Len(rules[c])
      BY <2>1
    <2>7. CASE cache' = [cache EXCEPT ![wanted[c]] = e]
      <3>1. cache'[wanted[c]] = e
            /\ \A s \in Configured \ {wanted[c]} : cache'[s] = cache[s]
        BY <1>0, <2>1, <2>7
      <3>2. ~e.excused =>
               /\ Listed(e.list) = Reachable[wanted[c]]
               /\ \A i, j \in DOMAIN e.list : e.list[i] = e.list[j] => i = j
        BY <2>3, <2>4, <2>5, <2>6
      <3> QED BY <3>1, <3>2 DEF CachedIsWhole
    <2> QED BY <1>2, <2>2, <2>7
  <1>6. Next => \/ UNCHANGED cache \/ \E s \in Configured : Expire(s)
                \/ \E c \in Callers : Evict(c) \/ Store(c)
    BY DEF Next, Step, Call, LookUp, Start, Base, Snapshot, Recall, Record, records
  <1>7. UNCHANGED vars => UNCHANGED cache
    BY DEF vars, records
  <1> QED BY <1>2, <1>3, <1>4, <1>5, <1>6, <1>7

\* The cache holds all that a source and its includes hold, each list once, for
\* any graph of includes and any number of callers, unless the download that
\* filled it left an include out or shared visitedUrls with another one.
THEOREM CachedIsWholeAlways == Spec => []CachedIsWhole
  <1>1. Init => WholeInv /\ CachedIsWhole
    BY DEF Init, WholeInv, CachedIsWhole
  <1> QED BY <1>1, TypesInit, TypesInductive, WholeInductive, CachedStep, PTL DEF Spec
=============================================================================
