--------------------------- MODULE PlatformProofs ---------------------------
(***************************************************************************)
(* Proofs about seven of the parts of MCPlatform: RateLimits,              *)
(* ProviderConfig, ProviderStream, Transcription, Webhooks, CursorPages    *)
(* and Chunking; and the types of all the parts.                           *)
(***************************************************************************)
EXTENDS BrowserProofs

-----------------------------------------------------------------------------
(***************************************************************************)
(* RateLimits.  A count of the current window is given to one request      *)
(* only.  So the requests that a limiter has let on in its window carry    *)
(* different counts, all of them between 1 and the limiter's max: there    *)
(* are at most max of them, and admitted is their number.                  *)
(***************************************************************************)

LimitPos(l) == CASE l = "user" -> 1 [] l = "tenant" -> 2 [] l = "ip" -> 3

\* A request has no count of a limiter that it has not asked.
LimitPlace(r) ==
  /\ limited[r].pc \in {"send", "answered"} => limited[r].at \in 1..3
  /\ \A l \in Limits!Limiters :
       \/ LimitPos(l) > limited[r].at
       \/ LimitPos(l) = limited[r].at /\ limited[r].pc = "send"
       => limited[r].seen[l] = Limits!NotSent

Counted(r, l) == limited[r].seen[l].window = counter[l].window

\* The requests that limiter l has let on in its window.
LetThrough(l) ==
  {r \in Requests : /\ Counted(r, l) /\ limited[r].seen[l].count <= Quota
                    /\ ~(limited[r].pc = "answered" /\ limited[r].at = LimitPos(l))}

LimitCounts(l) ==
  /\ \A r \in Requests : limited[r].seen[l].window <= counter[l].window
  /\ \A r \in Requests : Counted(r, l) => limited[r].seen[l].count \in 1..counter[l].count
  /\ \A r, s \in Requests :
       Counted(r, l) /\ Counted(s, l) /\ limited[r].seen[l].count = limited[s].seen[l].count
         => r = s
  /\ admitted[l] = Cardinality(LetThrough(l))

LimitsInv ==
  /\ Limits!TypeOK
  /\ \A r \in Requests : LimitPlace(r)
  /\ \A l \in Limits!Limiters : LimitCounts(l)

\* The values of one limited request.
LimitedRequests == [caller : Limits!Callers, at : 0..3, pc : Limits!Pcs,
                    seen : [Limits!Limiters -> [count : Nat, window : -1..MaxWindows]],
                    hooks : SUBSET Limits!Limiters]

\* What the type invariant says, with the length of the chain.
LEMMA LimitTypes ==
  Limits!TypeOK <=>
    /\ skipFailed \in BOOLEAN
    /\ counter \in [Limits!Limiters -> [count : Nat, window : 0..MaxWindows]]
    /\ admitted \in [Limits!Limiters -> Nat]
    /\ limited \in [Requests -> LimitedRequests]
    /\ extra \subseteq Requests \X Limits!Limiters
    /\ outages \in 0..MaxOutages
<1>1. Len(Limits!Chain) = 3
  BY DEF Limits!Chain
<1>. QED  BY <1>1 DEF Limits!TypeOK, LimitedRequests

\* The limiter at a place of the chain.
LEMMA LimitAt ==
  /\ \A i \in 1..3 : Limits!Chain[i] \in Limits!Limiters /\ LimitPos(Limits!Chain[i]) = i
  /\ \A l \in Limits!Limiters : LimitPos(l) \in 1..3 /\ Limits!Chain[LimitPos(l)] = l
  BY DEF Limits!Chain, Limits!Limiters, LimitPos

\* The requests that were let on are finitely many, at most max and at most the count.
LEMMA LetThroughBound ==
  ASSUME LimitsInv, NEW l \in Limits!Limiters
  PROVE  /\ IsFiniteSet(LetThrough(l))
         /\ Cardinality(LetThrough(l)) <= Quota
         /\ Cardinality(LetThrough(l)) <= counter[l].count
<1>. DEFINE f == [r \in LetThrough(l) |-> limited[r].seen[l].count]
<1>1. LimitCounts(l) /\ counter[l].count \in Nat /\ Quota \in Nat
  BY LimitTypes, PlatformAssumption DEF LimitsInv
<1>2. \A r \in LetThrough(l) :
         /\ f[r] \in 1..counter[l].count /\ f[r] \in 1..Quota
         /\ \A s \in LetThrough(l) : f[r] = f[s] => r = s
  BY <1>1 DEF LimitCounts, LetThrough
<1>. HIDE DEF f
<1>3. f \in Injection(LetThrough(l), 1..Quota)
      /\ f \in Injection(LetThrough(l), 1..counter[l].count)
  <2>1. f \in [LetThrough(l) -> 1..Quota] /\ f \in [LetThrough(l) -> 1..counter[l].count]
    BY <1>2 DEF f
  <2>. QED  BY <1>2, <2>1 DEF Injection, IsInjective
<1>4. /\ IsFiniteSet(1..Quota) /\ Cardinality(1..Quota) = Quota
      /\ IsFiniteSet(1..counter[l].count) /\ Cardinality(1..counter[l].count) = counter[l].count
  <2>1. \A n \in Nat : IsFiniteSet(1..n) /\ Cardinality(1..n) = n
    BY FS_Interval
  <2>. QED  BY <1>1, <2>1
<1>. QED  BY <1>3, <1>4, FS_Injection

\* The quota of a window follows.
LEMMA LimitsInvQuota == LimitsInv => Limits!WindowsKeepQuota
<1>. SUFFICES ASSUME LimitsInv PROVE Limits!WindowsKeepQuota
  OBVIOUS
<1>1. ASSUME NEW l \in Limits!Limiters
      PROVE  admitted[l] <= Quota /\ admitted[l] <= counter[l].count
  BY LetThroughBound DEF LimitsInv, LimitCounts
<1>. QED  BY <1>1 DEF Limits!WindowsKeepQuota

\* The initial states: nothing counted, nobody let on.
LEMMA LimitsInit == Limits!Init => LimitsInv
<1>. SUFFICES ASSUME Limits!Init PROVE LimitsInv
  OBVIOUS
<1>1. ASSUME NEW r \in Requests
      PROVE  /\ limited[r] \in LimitedRequests /\ limited[r].at = 0 /\ limited[r].pc = "off"
             /\ \A l \in Limits!Limiters : limited[r].seen[l] = Limits!NotSent
  <2>1. PICK c \in Limits!Callers :
          limited[r] = [caller |-> c, at |-> 0, pc |-> "off",
                        seen |-> [l \in Limits!Limiters |-> Limits!NotSent], hooks |-> {}]
    BY DEF Limits!Init
  <2>2. Limits!NotSent \in [count : Nat, window : -1..MaxWindows]
    BY PlatformAssumption DEF Limits!NotSent
  <2>. QED  BY <2>1, <2>2 DEF LimitedRequests, Limits!Pcs
<1>2. Limits!TypeOK
  <2>1. limited \in [Requests -> LimitedRequests]
    <3>1. limited = [r \in Requests |-> limited[r]]
      BY DEF Limits!Init
    <3>. QED  BY <1>1, <3>1
  <2>2. /\ skipFailed \in BOOLEAN /\ admitted \in [Limits!Limiters -> Nat] /\ extra = {}
        /\ counter \in [Limits!Limiters -> [count : Nat, window : 0..MaxWindows]]
        /\ outages \in 0..MaxOutages
    BY PlatformAssumption DEF Limits!Init
  <2>. QED  BY <2>1, <2>2, LimitTypes
<1>3. \A r \in Requests : LimitPlace(r)
  BY <1>1 DEF LimitPlace
<1>4. ASSUME NEW l \in Limits!Limiters PROVE LimitCounts(l)
  <2>1. counter[l] = [count |-> 0, window |-> 0] /\ admitted[l] = 0
    BY <1>4 DEF Limits!Init
  <2>2. \A r \in Requests : limited[r].seen[l].window = -1 /\ ~Counted(r, l)
    BY <1>1, <2>1 DEF Limits!NotSent, Counted
  <2>3. LetThrough(l) = {}
    BY <2>2 DEF LetThrough
  <2>. QED  BY <2>1, <2>2, <2>3, FS_EmptySet DEF LimitCounts
<1>. QED  BY <1>2, <1>3, <1>4 DEF LimitsInv

\* next() leads to a later limiter or to the route, and changes nothing it counted.
LEMMA AdvanceFacts ==
  ASSUME LimitsInv, NEW r \in Requests, NEW hooks \in SUBSET Limits!Limiters,
         limited' = Limits!Advance(r, hooks)
  PROVE  \E q \in LimitedRequests :
            /\ limited' = [limited EXCEPT ![r] = q] /\ q.seen = limited[r].seen
            /\ \/ q.pc = "route" /\ q.at = 3
               \/ q.pc = "send" /\ q.at \in 1..3 /\ q.at > limited[r].at
<1>. DEFINE length == Len(Limits!Chain)
            later == {i \in 1..length : /\ i > limited[r].at
                                        /\ Limits!Applies(limited[r].caller, Limits!Chain[i])}
            next == CHOOSE i \in later : \A j \in later : i <= j
            q == [limited[r] EXCEPT !.hooks = hooks,
                                    !.pc = IF later = {} THEN "route" ELSE "send",
                                    !.at = IF later = {} THEN length ELSE next]
<1>1. limited \in [Requests -> LimitedRequests] /\ limited[r] \in LimitedRequests
  BY LimitTypes DEF LimitsInv
<1>2. length = 3
  BY DEF Limits!Chain
<1>3. later # {} => next \in later
  <2>1. \A i \in later : i = 1 \/ i = 2 \/ i = 3
    BY <1>2
  <2>. HIDE DEF later
  <2>2. later # {} => \E i \in later : \A j \in later : i <= j
    <3>1. CASE 1 \in later
      BY <2>1, <3>1
    <3>2. CASE 1 \notin later /\ 2 \in later
      BY <2>1, <3>2
    <3>3. CASE 1 \notin later /\ 2 \notin later
      BY <2>1, <3>3
    <3>. QED  BY <3>1, <3>2, <3>3
  <2>. QED  BY <2>2
<1>4. limited' = [limited EXCEPT ![r] = q]
  BY DEF Limits!Advance
<1>5. (next \in 1..3 /\ next > limited[r].at) \/ later = {}
  BY <1>2, <1>3
<1>. HIDE DEF length, later, next
<1>6. q \in LimitedRequests /\ q.seen = limited[r].seen
  <2>1. /\ (IF later = {} THEN "route" ELSE "send") \in Limits!Pcs
        /\ (IF later = {} THEN length ELSE next) \in 0..3
    BY <1>2, <1>5 DEF Limits!Pcs
  <2>. QED  BY <1>1, <2>1 DEF LimitedRequests
<1>7. \/ q.pc = "route" /\ q.at = 3
      \/ q.pc = "send" /\ q.at \in 1..3 /\ q.at > limited[r].at
  BY <1>1, <1>2, <1>5 DEF LimitedRequests
<1>. QED  BY <1>4, <1>6, <1>7

\* The increments of hooks that are under way, and outages, matter to nobody.
LEMMA LimitsSame ==
  ASSUME LimitsInv, UNCHANGED <<skipFailed, counter, admitted, limited>>,
         extra' \subseteq Requests \X Limits!Limiters, outages' \in 0..MaxOutages
  PROVE  LimitsInv'
<1>1. Limits!TypeOK'
  BY LimitTypes DEF LimitsInv, Limits!TypeOK, LimitedRequests, Limits!Chain
<1>2. \A r \in Requests : LimitPlace(r)'
  BY DEF LimitsInv, LimitPlace
<1>3. ASSUME NEW l \in Limits!Limiters PROVE LimitCounts(l)'
  <2>1. \A s \in Requests : Counted(s, l)' <=> Counted(s, l)
    BY DEF Counted
  <2>2. LetThrough(l)' = LetThrough(l)
    BY <2>1 DEF LetThrough
  <2>. QED  BY <2>1, <2>2 DEF LimitsInv, LimitCounts
<1>. QED  BY <1>1, <1>2, <1>3 DEF LimitsInv

\* A request that is not answered moves on, or one that exceeds the limit leaves:
\* what the limiters have let on stays.
LEMMA LimitQuiet ==
  ASSUME LimitsInv, NEW r \in Requests, NEW q \in LimitedRequests,
         limited' = [limited EXCEPT ![r] = q], UNCHANGED <<skipFailed, counter, admitted>>,
         extra' \subseteq Requests \X Limits!Limiters, outages' \in 0..MaxOutages,
         q.seen = limited[r].seen, q.pc # "answered",
         limited[r].pc = "answered" => Limits!Exceeded(r),
         q.pc = "send" => q.at \in 1..3 /\ q.at > limited[r].at,
         q.pc # "send" => q.at >= limited[r].at
  PROVE  LimitsInv'
<1>1. /\ limited[r] \in LimitedRequests /\ limited' \in [Requests -> LimitedRequests]
      /\ limited'[r] = q /\ \A s \in Requests \ {r} : limited'[s] = limited[s]
  BY LimitTypes DEF LimitsInv
<1>2. Limits!TypeOK'
  BY <1>1, LimitTypes DEF LimitsInv, Limits!TypeOK, LimitedRequests, Limits!Chain
<1>3. ASSUME NEW s \in Requests PROVE LimitPlace(s)'
  <2>1. CASE s # r
    BY <1>1, <2>1 DEF LimitsInv, LimitPlace
  <2>2. CASE s = r
    BY <1>1, <2>2, LimitAt DEF LimitsInv, LimitPlace, LimitedRequests
  <2>. QED  BY <2>1, <2>2
<1>4. ASSUME NEW l \in Limits!Limiters PROVE LimitCounts(l)'
  <2>1. \A s \in Requests : limited'[s].seen[l] = limited[s].seen[l] /\ (Counted(s, l)' <=> Counted(s, l))
    BY <1>1 DEF Counted
  <2>2. limited[r].pc = "answered" /\ limited[r].at = LimitPos(l) => limited[r].seen[l].count > Quota
    BY LimitAt DEF Limits!Exceeded, Limits!At
  <2>3. limited[r].seen[l].count \in Nat /\ Quota \in Nat
    BY <1>1, PlatformAssumption DEF LimitedRequests
  <2>4. LetThrough(l)' = LetThrough(l)
    BY <1>1, <2>1, <2>2, <2>3 DEF LetThrough
  <2>. QED  BY <1>4, <2>1, <2>4 DEF LimitsInv, LimitCounts
<1>. QED  BY <1>2, <1>3, <1>4 DEF LimitsInv

\* A request arrives, finds Redis unavailable, exceeds a limit or leaves the route.
LEMMA LimitQuietSteps ==
  ASSUME LimitsInv, NEW r \in Requests,
         \/ Limits!Arrive(r) \/ Limits!Unavailable(r)
         \/ Limits!TooManyRequests(r) \/ Limits!Route(r)
  PROVE  LimitsInv'
<1>1. /\ limited \in [Requests -> LimitedRequests] /\ limited[r] \in LimitedRequests
      /\ extra \subseteq Requests \X Limits!Limiters /\ outages \in 0..MaxOutages
  BY LimitTypes DEF LimitsInv
<1>2. CASE Limits!Arrive(r) \/ Limits!Unavailable(r)
  <2>1. PICK hooks \in SUBSET Limits!Limiters : limited' = Limits!Advance(r, hooks)
    BY <1>1, <1>2 DEF Limits!Arrive, Limits!Unavailable, LimitedRequests
  <2>2. PICK q \in LimitedRequests :
            /\ limited' = [limited EXCEPT ![r] = q] /\ q.seen = limited[r].seen
            /\ \/ q.pc = "route" /\ q.at = 3
               \/ q.pc = "send" /\ q.at \in 1..3 /\ q.at > limited[r].at
    BY <2>1, AdvanceFacts
  <2>3. outages' \in 0..MaxOutages
    BY <1>1, <1>2, PlatformAssumption DEF Limits!Arrive, Limits!Unavailable
  <2>4. /\ UNCHANGED <<skipFailed, counter, admitted, extra>>
        /\ limited[r].pc \in {"off", "send"} /\ limited[r].at \in 0..3
    BY <1>1, <1>2 DEF Limits!Arrive, Limits!Unavailable, LimitedRequests
  <2>5. /\ q.pc # "answered" /\ limited[r].pc # "answered"
        /\ q.pc = "send" => q.at \in 1..3 /\ q.at > limited[r].at
        /\ q.pc # "send" => q.at >= limited[r].at
    BY <2>2, <2>4
  <2>. QED  BY <1>1, <2>2, <2>3, <2>4, <2>5, LimitQuiet
<1>3. CASE Limits!TooManyRequests(r) \/ Limits!Route(r)
  <2>1. PICK failed \in BOOLEAN : Limits!End(r, failed, limited)
    BY <1>3 DEF Limits!TooManyRequests, Limits!Route
  <2>. DEFINE w == IF failed THEN "failed" ELSE "served"
              q == [limited[r] EXCEPT !.pc = w, !.hooks = {}]
  <2>2. /\ limited' = [limited EXCEPT ![r] = q]
        /\ extra' = IF failed THEN extra \cup ({r} \X limited[r].hooks) ELSE extra
    BY <1>1, <2>1 DEF Limits!End
  <2>3. /\ q \in LimitedRequests /\ q.seen = limited[r].seen /\ q.at = limited[r].at
        /\ q.pc # "answered" /\ q.pc # "send" /\ q.at >= limited[r].at
    <3>1. w \in Limits!Pcs \ {"answered", "send"}
      BY DEF Limits!Pcs
    <3>. HIDE DEF w
    <3>2. limited[r].at \in 0..3
      BY <1>1 DEF LimitedRequests
    <3>3. q \in LimitedRequests
      BY <1>1, <3>1 DEF LimitedRequests
    <3>4. q.seen = limited[r].seen /\ q.at = limited[r].at /\ q.pc = w
      BY <1>1 DEF LimitedRequests
    <3>. QED  BY <3>1, <3>2, <3>3, <3>4
  <2>4. extra' \subseteq Requests \X Limits!Limiters
    BY <1>1, <2>2 DEF LimitedRequests
  <2>5. /\ UNCHANGED <<skipFailed, counter, admitted, outages>>
        /\ limited[r].pc = "answered" => Limits!Exceeded(r)
        /\ limited[r].at \in 0..3
    BY <1>1, <1>3 DEF Limits!TooManyRequests, Limits!Route, LimitedRequests
  <2>. HIDE DEF q
  <2>. QED  BY <1>1, <2>2, <2>3, <2>4, <2>5, LimitQuiet
<1>. QED  BY <1>2, <1>3

\* Redis counts a request: its count is higher than any other of the window.
LEMMA LimitIncrement == ASSUME LimitsInv, NEW r \in Requests, Limits!Increment(r) PROVE LimitsInv'
<1>1. /\ limited \in [Requests -> LimitedRequests] /\ limited[r] \in LimitedRequests
      /\ counter \in [Limits!Limiters -> [count : Nat, window : 0..MaxWindows]]
  BY LimitTypes DEF LimitsInv
<1>2. limited[r].pc = "send" /\ limited[r].at \in 1..3
  BY DEF Limits!Increment, LimitsInv, LimitPlace
<1>3. PICK m \in Limits!Limiters : m = Limits!At(r) /\ LimitPos(m) = limited[r].at
  BY <1>2, LimitAt DEF Limits!At
<1>. DEFINE new == [count |-> counter[m].count + 1, window |-> counter[m].window]
            q == [limited[r] EXCEPT !.pc = "answered", !.seen = [@ EXCEPT ![m] = new]]
<1>4. /\ counter[m].count \in Nat /\ counter[m].window \in 0..MaxWindows
      /\ new \in [count : Nat, window : 0..MaxWindows]
      /\ new \in [count : Nat, window : -1..MaxWindows]
      /\ new.count = counter[m].count + 1 /\ new.window = counter[m].window
  BY <1>1, <1>3, PlatformAssumption
<1>5. /\ counter' \in [Limits!Limiters -> [count : Nat, window : 0..MaxWindows]]
      /\ counter'[m] = new /\ \A l \in Limits!Limiters \ {m} : counter'[l] = counter[l]
      /\ UNCHANGED <<skipFailed, admitted, extra, outages>>
  BY <1>1, <1>3, <1>4 DEF Limits!Increment
<1>6. limited' = [limited EXCEPT ![r] = q]
  <2>1. limited' = [limited EXCEPT ![r] = [@ EXCEPT !.pc = "answered", !.seen[m] = counter'[m]]]
    BY <1>3 DEF Limits!Increment
  <2>2. limited[r].seen \in [Limits!Limiters -> [count : Nat, window : -1..MaxWindows]]
    BY <1>1 DEF LimitedRequests
  <2>. HIDE DEF new
  <2>. QED  BY <1>1, <1>5, <2>1, <2>2
<1>7. /\ q \in LimitedRequests /\ q.pc = "answered" /\ q.at = limited[r].at
      /\ q.seen[m] = new /\ \A l \in Limits!Limiters \ {m} : q.seen[l] = limited[r].seen[l]
  BY <1>1, <1>3, <1>4 DEF LimitedRequests, Limits!Pcs
<1>. HIDE DEF new, q
<1>8. /\ limited' \in [Requests -> LimitedRequests] /\ limited'[r] = q
      /\ \A s \in Requests \ {r} : limited'[s] = limited[s]
  BY <1>1, <1>6, <1>7
<1>9. Limits!TypeOK'
  BY <1>5, <1>8, LimitTypes DEF LimitsInv, Limits!TypeOK, LimitedRequests, Limits!Chain
<1>10. ASSUME NEW s \in Requests PROVE LimitPlace(s)'
  <2>1. CASE s # r
    BY <1>8, <2>1 DEF LimitsInv, LimitPlace
  <2>2. CASE s = r
    <3>1. \A l \in Limits!Limiters : LimitPos(l) > q.at => l # m /\ limited[r].seen[l] = Limits!NotSent
      BY <1>1, <1>2, <1>3, <1>7, LimitAt DEF LimitsInv, LimitPlace
    <3>. QED  BY <1>2, <1>7, <1>8, <2>2, <3>1 DEF LimitPlace
  <2>. QED  BY <2>1, <2>2
<1>11. ASSUME NEW l \in Limits!Limiters PROVE LimitCounts(l)'
  <2>1. CASE l # m
    <3>1. /\ \A s \in Requests : limited'[s].seen[l] = limited[s].seen[l]
          /\ counter'[l] = counter[l]
      BY <1>5, <1>7, <1>8, <2>1
    <3>2. LimitPos(l) # limited[r].at
      BY <1>3, <2>1, LimitAt
    <3>3. LetThrough(l)' = LetThrough(l)
      BY <1>2, <1>7, <1>8, <3>1, <3>2 DEF LetThrough, Counted
    <3>4. LimitCounts(l) /\ admitted'[l] = admitted[l]
      BY <1>5, <1>11 DEF LimitsInv
    <3>. QED  BY <3>1, <3>3, <3>4 DEF LimitCounts, Counted
  <2>2. CASE l = m
    <3>1. ~Counted(r, m)
      <4>1. limited[r].seen[m] = Limits!NotSent
        BY <1>2, <1>3 DEF LimitsInv, LimitPlace
      <4>. QED  BY <1>4, <4>1 DEF Counted, Limits!NotSent
    <3>2. \A s \in Requests \ {r} : /\ limited'[s].seen[m] = limited[s].seen[m]
                                    /\ Counted(s, m)' <=> Counted(s, m)
      BY <1>4, <1>5, <1>8 DEF Counted
    <3>3. limited'[r].seen[m] = new /\ new.count = counter[m].count + 1
          /\ new.window = counter[m].window /\ counter'[m].count = counter[m].count + 1
          /\ counter'[m].window = counter[m].window
      BY <1>4, <1>5, <1>7, <1>8
    <3>4. LetThrough(m)' = LetThrough(m)
      <4>1. r \notin LetThrough(m) /\ r \notin LetThrough(m)'
        BY <1>3, <1>7, <1>8, <3>1 DEF LetThrough
      <4>2. \A s \in Requests \ {r} : s \in LetThrough(m)' <=> s \in LetThrough(m)
        BY <1>8, <3>2 DEF LetThrough
      <4>. QED  BY <4>1, <4>2 DEF LetThrough
    <3>5. LimitCounts(m)
      BY <1>3 DEF LimitsInv
    <3>6. \A s \in Requests : limited'[s].seen[m].window <= counter'[m].window
      BY <1>4, <3>2, <3>3, <3>5 DEF LimitCounts
    <3>7. \A s \in Requests : Counted(s, m)' => limited'[s].seen[m].count \in 1..counter'[m].count
      BY <1>4, <3>2, <3>3, <3>5 DEF LimitCounts
    <3>8. \A s \in Requests \ {r} : Counted(s, m)' => limited'[s].seen[m].count # new.count
      BY <1>4, <3>2, <3>3, <3>5 DEF LimitCounts
    <3>9. \A s, u \in Requests :
             /\ Counted(s, m)' /\ Counted(u, m)'
             /\ limited'[s].seen[m].count = limited'[u].seen[m].count
             => s = u
      BY <3>2, <3>3, <3>5, <3>8 DEF LimitCounts
    <3>10. admitted'[m] = Cardinality(LetThrough(m)')
      BY <1>5, <3>4, <3>5 DEF LimitCounts
    <3>. QED  BY <2>2, <3>6, <3>7, <3>9, <3>10 DEF LimitCounts
  <2>. QED  BY <2>1, <2>2
<1>. QED  BY <1>9, <1>10, <1>11 DEF LimitsInv

\* A limiter lets a request on: one more, if its count is of the current window.
LEMMA LimitLetOn == ASSUME LimitsInv, NEW r \in Requests, Limits!LetOn(r) PROVE LimitsInv'
<1>1. /\ limited \in [Requests -> LimitedRequests] /\ limited[r] \in LimitedRequests
      /\ admitted \in [Limits!Limiters -> Nat]
  BY LimitTypes DEF LimitsInv
<1>2. limited[r].pc = "answered" /\ limited[r].at \in 1..3 /\ ~Limits!Exceeded(r)
  BY DEF Limits!LetOn, LimitsInv, LimitPlace
<1>3. PICK m \in Limits!Limiters : m = Limits!At(r) /\ LimitPos(m) = limited[r].at
  BY <1>2, LimitAt DEF Limits!At
<1>4. limited[r].seen[m].count <= Quota
  <2>1. limited[r].seen[m].count \in Nat /\ Quota \in Nat
    BY <1>1, PlatformAssumption DEF LimitedRequests
  <2>. QED  BY <1>2, <1>3, <2>1 DEF Limits!Exceeded
<1>5. PICK hooks \in SUBSET Limits!Limiters : limited' = Limits!Advance(r, hooks)
  <2>1. limited[r].hooks \in SUBSET Limits!Limiters
    BY <1>1 DEF LimitedRequests
  <2>2. (IF skipFailed THEN limited[r].hooks \cup {m} ELSE {}) \in SUBSET Limits!Limiters
    BY <1>3, <2>1
  <2>. QED  BY <1>3, <2>2 DEF Limits!LetOn
<1>6. PICK q \in LimitedRequests :
            /\ limited' = [limited EXCEPT ![r] = q] /\ q.seen = limited[r].seen
            /\ \/ q.pc = "route" /\ q.at = 3
               \/ q.pc = "send" /\ q.at \in 1..3 /\ q.at > limited[r].at
  BY <1>5, AdvanceFacts
<1>7. /\ limited' \in [Requests -> LimitedRequests] /\ limited'[r] = q /\ q.pc # "answered"
      /\ \A s \in Requests \ {r} : limited'[s] = limited[s]
      /\ \A s \in Requests : limited'[s].seen = limited[s].seen
  BY <1>1, <1>6
<1>8. /\ UNCHANGED <<skipFailed, counter, extra, outages>>
      /\ admitted' = [admitted EXCEPT ![m] = @ + IF Counted(r, m) THEN 1 ELSE 0]
  BY <1>3 DEF Limits!LetOn, Counted
<1>9. /\ admitted' \in [Limits!Limiters -> Nat]
      /\ admitted'[m] = admitted[m] + IF Counted(r, m) THEN 1 ELSE 0
      /\ \A l \in Limits!Limiters \ {m} : admitted'[l] = admitted[l]
  BY <1>1, <1>8
<1>10. Limits!TypeOK'
  BY <1>7, <1>8, <1>9, LimitTypes DEF LimitsInv, Limits!TypeOK, LimitedRequests, Limits!Chain
<1>11. ASSUME NEW s \in Requests PROVE LimitPlace(s)'
  <2>1. CASE s # r
    BY <1>7, <2>1 DEF LimitsInv, LimitPlace
  <2>2. CASE s = r
    BY <1>1, <1>2, <1>6, <1>7, <2>2, LimitAt DEF LimitsInv, LimitPlace, LimitedRequests
  <2>. QED  BY <2>1, <2>2
<1>12. ASSUME NEW l \in Limits!Limiters PROVE LimitCounts(l)'
  <2>1. \A s \in Requests : Counted(s, l)' <=> Counted(s, l)
    BY <1>7, <1>8 DEF Counted
  <2>2. CASE l # m
    <3>1. LimitPos(l) # limited[r].at
      BY <1>3, <2>2, LimitAt
    <3>2. LetThrough(l)' = LetThrough(l)
      BY <1>2, <1>7, <2>1, <3>1 DEF LetThrough
    <3>. QED  BY <1>7, <1>8, <1>9, <1>12, <2>1, <2>2, <3>2 DEF LimitsInv, LimitCounts
  <2>3. CASE l = m
    <3>1. /\ r \notin LetThrough(m)
          /\ r \in LetThrough(m)' <=> Counted(r, m)
      BY <1>2, <1>3, <1>4, <1>7, <2>1, <2>3 DEF LetThrough
    <3>2. \A s \in Requests \ {r} : s \in LetThrough(m)' <=> s \in LetThrough(m)
      BY <1>7, <2>1, <2>3 DEF LetThrough
    <3>3. LetThrough(m)' = IF Counted(r, m) THEN LetThrough(m) \cup {r} ELSE LetThrough(m)
      BY <3>1, <3>2 DEF LetThrough
    <3>4. admitted'[m] = Cardinality(LetThrough(m)')
      <4>1. IsFiniteSet(LetThrough(m))
        BY LetThroughBound
      <4>2. /\ Cardinality(LetThrough(m) \cup {r}) = Cardinality(LetThrough(m)) + 1
            /\ admitted[m] = Cardinality(LetThrough(m)) /\ admitted[m] \in Nat
        BY <1>1, <3>1, <4>1, FS_AddElement DEF LimitsInv, LimitCounts
      <4>. QED  BY <1>9, <3>3, <4>2
    <3>. QED  BY <1>7, <1>8, <2>1, <2>3, <3>4 DEF LimitsInv, LimitCounts
  <2>. QED  BY <2>2, <2>3
<1>. QED  BY <1>10, <1>11, <1>12 DEF LimitsInv

\* An increment of a hook raises a count, or is lost; a window ends, and no request
\* has a count of the next.
LEMMA LimitCounterSteps ==
  ASSUME LimitsInv, NEW m \in Limits!Limiters,
         (\E r \in Requests : Limits!Extra(r, m) \/ Limits!LoseExtra(r, m)) \/ Limits!EndWindow(m)
  PROVE  LimitsInv'
<1>1. /\ limited \in [Requests -> LimitedRequests]
      /\ counter \in [Limits!Limiters -> [count : Nat, window : 0..MaxWindows]]
      /\ admitted \in [Limits!Limiters -> Nat]
      /\ extra \subseteq Requests \X Limits!Limiters /\ outages \in 0..MaxOutages
      /\ counter[m].count \in Nat /\ counter[m].window \in 0..MaxWindows
  BY LimitTypes DEF LimitsInv
<1>2. CASE \E r \in Requests : Limits!Extra(r, m)
  <2>. DEFINE c == [counter[m] EXCEPT !.count = @ + 1]
  <2>1. /\ c \in [count : Nat, window : 0..MaxWindows]
        /\ c.count = counter[m].count + 1 /\ c.window = counter[m].window
    BY <1>1
  <2>2. /\ counter' = [counter EXCEPT ![m] = c] /\ extra' \subseteq Requests \X Limits!Limiters
        /\ UNCHANGED <<skipFailed, admitted, limited, outages>>
    BY <1>1, <1>2 DEF Limits!Extra
  <2>. HIDE DEF c
  <2>3. /\ counter' \in [Limits!Limiters -> [count : Nat, window : 0..MaxWindows]]
        /\ counter'[m] = c /\ \A l \in Limits!Limiters \ {m} : counter'[l] = counter[l]
    BY <1>1, <2>1, <2>2
  <2>4. Limits!TypeOK'
    BY <1>1, <2>2, <2>3, LimitTypes DEF LimitsInv, Limits!TypeOK, LimitedRequests, Limits!Chain
  <2>5. \A r \in Requests : LimitPlace(r)'
    BY <2>2 DEF LimitsInv, LimitPlace
  <2>6. ASSUME NEW l \in Limits!Limiters PROVE LimitCounts(l)'
    <3>1. /\ counter'[l].window = counter[l].window
          /\ counter[l].count \in Nat /\ counter'[l].count \in Nat
          /\ counter[l].count <= counter'[l].count
      BY <1>1, <2>1, <2>3
    <3>2. \A s \in Requests : Counted(s, l)' <=> Counted(s, l)
      BY <2>2, <3>1 DEF Counted
    <3>3. LetThrough(l)' = LetThrough(l)
      BY <2>2, <3>2 DEF LetThrough
    <3>4. \A s \in Requests : Counted(s, l) => limited[s].seen[l].count \in 1..counter'[l].count
      BY <2>6, <3>1 DEF LimitsInv, LimitCounts
    <3>. QED  BY <2>2, <2>6, <3>1, <3>2, <3>3, <3>4 DEF LimitsInv, LimitCounts
  <2>. QED  BY <2>4, <2>5, <2>6 DEF LimitsInv
<1>3. CASE \E r \in Requests : Limits!LoseExtra(r, m)
  <2>1. UNCHANGED <<skipFailed, counter, admitted, limited>> /\ extra' \subseteq extra
        /\ outages' \in 0..MaxOutages
    BY <1>1, <1>3, PlatformAssumption DEF Limits!LoseExtra
  <2>2. extra' \subseteq Requests \X Limits!Limiters
    BY <1>1, <2>1
  <2>. QED  BY <2>1, <2>2, LimitsSame
<1>4. CASE Limits!EndWindow(m)
  <2>. DEFINE c == [count |-> 0, window |-> counter[m].window + 1]
  <2>1. /\ c \in [count : Nat, window : 0..MaxWindows]
        /\ c.count = 0 /\ c.window = counter[m].window + 1
    BY <1>1, <1>4, PlatformAssumption DEF Limits!EndWindow
  <2>2. /\ counter' = [counter EXCEPT ![m] = c] /\ admitted' = [admitted EXCEPT ![m] = 0]
        /\ UNCHANGED <<skipFailed, extra, limited, outages>>
    BY <1>1, <1>4 DEF Limits!EndWindow
  <2>. HIDE DEF c
  <2>3. /\ counter' \in [Limits!Limiters -> [count : Nat, window : 0..MaxWindows]]
        /\ counter'[m] = c /\ \A l \in Limits!Limiters \ {m} : counter'[l] = counter[l]
        /\ admitted' \in [Limits!Limiters -> Nat]
        /\ admitted'[m] = 0 /\ \A l \in Limits!Limiters \ {m} : admitted'[l] = admitted[l]
    BY <1>1, <2>1, <2>2
  <2>4. Limits!TypeOK'
    BY <1>1, <2>2, <2>3, LimitTypes DEF LimitsInv, Limits!TypeOK, LimitedRequests, Limits!Chain
  <2>5. \A r \in Requests : LimitPlace(r)'
    BY <2>2 DEF LimitsInv, LimitPlace
  <2>6. ASSUME NEW l \in Limits!Limiters \ {m} PROVE LimitCounts(l)'
    <3>1. \A s \in Requests : Counted(s, l)' <=> Counted(s, l)
      BY <2>2, <2>3 DEF Counted
    <3>2. LetThrough(l)' = LetThrough(l)
      BY <2>2, <3>1 DEF LetThrough
    <3>. QED  BY <2>2, <2>3, <3>1, <3>2 DEF LimitsInv, LimitCounts
  <2>7. LimitCounts(m)'
    <3>1. \A s \in Requests : /\ limited[s].seen[m].window \in -1..MaxWindows
                              /\ limited[s].seen[m].window <= counter[m].window
      BY <1>1 DEF LimitsInv, LimitCounts, LimitedRequests
    <3>2. \A s \in Requests : /\ limited'[s].seen[m].window <= counter'[m].window
                              /\ limited'[s].seen[m].window # counter'[m].window
      BY <1>1, <2>1, <2>2, <2>3, <3>1, PlatformAssumption
    <3>3. \A s \in Requests : ~Counted(s, m)'
      BY <3>2 DEF Counted
    <3>4. LetThrough(m)' = {}
      BY <3>3 DEF LetThrough
    <3>. QED  BY <2>3, <3>2, <3>3, <3>4, FS_EmptySet DEF LimitCounts
  <2>. QED  BY <2>4, <2>5, <2>6, <2>7 DEF LimitsInv
<1>. QED  BY <1>2, <1>3, <1>4

\* Every step of the limiters keeps the invariant.
LEMMA LimitsNext == LimitsInv /\ [Limits!Next]_limits => LimitsInv'
<1>. SUFFICES ASSUME LimitsInv, [Limits!Next]_limits PROVE LimitsInv'
  OBVIOUS
<1>1. CASE UNCHANGED limits
  BY <1>1, LimitTypes, LimitsSame DEF limits, LimitsInv
<1>2. CASE Limits!Next
  BY <1>2, LimitQuietSteps, LimitIncrement, LimitLetOn, LimitCounterSteps DEF Limits!Next
<1>. QED  BY <1>1, <1>2

\* A behaviour of the platform is one of the limiters.
LEMMA JointLimits ==
  [JointNext]_<<part, vars, voice, chatPage, histories, uploads, webhooks, limits, provider,
                adminPages, texts, pages>>
    => [Limits!Next]_limits
  BY DEF JointNext, Others

\* For any number of requests, any max and any number of windows: however requests,
\* the end of windows and the hooks of failed requests interleave, no window of a
\* limiter lets on more requests than its max.
THEOREM QuotaHolds == JointSpec => []WindowsKeepQuota
<1>1. JointInit => LimitsInv
  BY LimitsInit DEF JointInit
<1>2. LimitsInv => WindowsKeepQuota
  BY LimitsInvQuota DEF WindowsKeepQuota
<1>. QED  BY <1>1, <1>2, LimitsNext, JointLimits, PTL DEF JointSpec

-----------------------------------------------------------------------------
(***************************************************************************)
(* ProviderConfig.  The check of a request is of no use to the proof: what *)
(* it saw may be old when it writes.  The constraint of the table is       *)
(* looked at in the write itself, over all rows but its own, so that rows  *)
(* of one provider differ in being active; and a request that runs speaks  *)
(* of a row that exists, since rows are never removed.                     *)
(***************************************************************************)

Rows == [provider : Providers, active : BOOLEAN]
Ops == [pc : {"none", "check", "write", "answered"}, kind : {"none", "post", "put", "delete"},
        id : {0} \cup Configs!Ids, provider : Providers \cup {"none"},
        answer : {0, 200, 409, 500}]

\* A list on a page and a request that runs speak of rows that exist.
Meant(a) ==
  /\ lists[a] \subseteq DOMAIN configs
  /\ op[a].pc \in {"check", "write"} =>
       \/ op[a].kind = "post" /\ op[a].id = 0 /\ op[a].provider \in Providers
       \/ op[a].kind = "put" /\ op[a].id \in DOMAIN configs /\ op[a].provider \in Providers
       \/ op[a].kind = "delete" /\ op[a].id \in DOMAIN configs

RowsDiffer ==
  \A c, d \in DOMAIN configs :
    configs[c].provider = configs[d].provider /\ configs[c].active = configs[d].active => c = d

ConfigsInv == Configs!TypeOK /\ RowsDiffer /\ \A a \in Admins : Meant(a)

\* What the type invariant says, in the names above.
LEMMA ConfigTypes ==
  Configs!TypeOK <=> /\ configs \in Seq(Rows) /\ Len(configs) <= MaxConfigs
                     /\ lists \in [Admins -> SUBSET Configs!Ids] /\ op \in [Admins -> Ops]
  BY DEF Configs!TypeOK, Rows, Ops

\* The named of rows.
LEMMA ConfigIds ==
  ASSUME Configs!TypeOK
  PROVE  /\ DOMAIN configs = 1..Len(configs) /\ Len(configs) \in Nat
         /\ DOMAIN configs \subseteq Configs!Ids /\ 0 \notin DOMAIN configs
         /\ Configs!ActiveIds \subseteq DOMAIN configs
  BY ConfigTypes, PlatformAssumption DEF Configs!Ids, Configs!ActiveIds

\* The initial states: no row, no request.
LEMMA ConfigsInit == Configs!Init => ConfigsInv
<1>. SUFFICES ASSUME Configs!Init PROVE ConfigsInv
  OBVIOUS
<1>1. configs = <<>> /\ configs \in Seq(Rows) /\ Len(configs) = 0 /\ DOMAIN configs = {}
  BY DEF Configs!Init
<1>2. Configs!NoOp \in Ops /\ Configs!NoOp.pc = "none"
  BY DEF Configs!NoOp, Ops
<1>3. /\ op = [a \in Admins |-> Configs!NoOp] /\ lists = [a \in Admins |-> {}]
  BY DEF Configs!Init
<1>4. Configs!TypeOK
  BY <1>1, <1>2, <1>3, ConfigTypes, PlatformAssumption
<1>. QED  BY <1>1, <1>2, <1>3, <1>4 DEF ConfigsInv, RowsDiffer, Meant

\* A request that is answered.
LEMMA AnswerFacts ==
  ASSUME Configs!TypeOK, NEW a \in Admins, NEW n \in {200, 409, 500}, Configs!Answer(a, n)
  PROVE  \E o \in Ops : o.pc = "answered" /\ op' = [op EXCEPT ![a] = o]
<1>1. op \in [Admins -> Ops] /\ op[a] \in Ops
  BY ConfigTypes
<1>. DEFINE o == [op[a] EXCEPT !.pc = "answered", !.answer = n]
<1>2. op' = [op EXCEPT ![a] = o]
  BY DEF Configs!Answer
<1>. DEFINE first == [op[a] EXCEPT !.answer = n]
<1>3. first \in Ops
  BY <1>1 DEF Ops
<1>4. o = [first EXCEPT !.pc = "answered"]
  BY <1>1 DEF Ops
<1>5. o \in Ops /\ o.pc = "answered"
  <2>. HIDE DEF first, o
  <2>. QED  BY <1>3, <1>4 DEF Ops
<1>. QED  BY <1>2, <1>5

\* A step of one admin that leaves the rows alone.
LEMMA ConfigsQuiet ==
  ASSUME ConfigsInv, NEW a \in Admins, NEW o \in Ops, NEW named \in SUBSET DOMAIN configs,
         configs' = configs, op' = [op EXCEPT ![a] = o],
         lists' = lists \/ lists' = [lists EXCEPT ![a] = named],
         o.pc \in {"check", "write"} =>
           \/ o.kind = "post" /\ o.id = 0 /\ o.provider \in Providers
           \/ o.kind = "put" /\ o.id \in DOMAIN configs /\ o.provider \in Providers
           \/ o.kind = "delete" /\ o.id \in DOMAIN configs
  PROVE  ConfigsInv'
<1>1. /\ op' \in [Admins -> Ops] /\ op'[a] = o /\ \A b \in Admins \ {a} : op'[b] = op[b]
      /\ lists' \in [Admins -> SUBSET Configs!Ids]
      /\ \A b \in Admins : lists'[b] \subseteq DOMAIN configs
  BY ConfigTypes, ConfigIds DEF ConfigsInv, Meant
<1>2. Configs!TypeOK'
  BY <1>1, ConfigTypes DEF ConfigsInv, Configs!TypeOK, Ops
<1>3. RowsDiffer'
  BY DEF ConfigsInv, RowsDiffer
<1>4. ASSUME NEW b \in Admins PROVE Meant(b)'
  BY <1>1 DEF ConfigsInv, Meant
<1>. QED  BY <1>2, <1>3, <1>4 DEF ConfigsInv

\* An admin submits or deactivates what is listed; a request is checked, answered;
\* a list is loaded.
LEMMA ConfigsQuietSteps ==
  ASSUME ConfigsInv, NEW a \in Admins,
         \/ Configs!Submit(a) \/ Configs!Deactivate(a) \/ Configs!Check(a)
         \/ Configs!Answered(a) \/ Configs!LoadData(a)
  PROVE  ConfigsInv'
<1>1. /\ op \in [Admins -> Ops] /\ op[a] \in Ops /\ lists[a] \subseteq DOMAIN configs
      /\ lists[a] \subseteq Configs!Ids
      /\ Configs!ActiveIds \subseteq DOMAIN configs
  BY ConfigTypes, ConfigIds DEF ConfigsInv, Meant
<1>2. CASE Configs!Submit(a) \/ Configs!Deactivate(a)
  <2>1. PICK verb \in {"post", "put", "delete"}, id \in {0} \cup Configs!Ids,
             p \in Providers \cup {"none"} :
          /\ Configs!Start(a, verb, id, p)
          /\ verb \in {"post", "put"} => p \in Providers
          /\ verb = "post" => id = 0
          /\ verb \in {"put", "delete"} => id \in DOMAIN configs
    BY <1>1, <1>2 DEF Configs!Submit, Configs!Deactivate
  <2>. DEFINE o == [pc |-> "check", kind |-> verb, id |-> id, provider |-> p, answer |-> 0]
  <2>2. o \in Ops /\ o.pc = "check" /\ o.kind = verb /\ o.id = id /\ o.provider = p
    BY DEF Ops
  <2>3. op' = [op EXCEPT ![a] = o] /\ UNCHANGED <<configs, lists>>
    BY <2>1 DEF Configs!Start
  <2>. HIDE DEF o
  <2>. QED  BY <1>1, <2>1, <2>2, <2>3, ConfigsQuiet
<1>3. CASE Configs!Check(a)
  <2>1. op[a].pc = "check" /\ UNCHANGED <<configs, lists>>
    BY <1>3 DEF Configs!Check
  <2>2. CASE Configs!Answer(a, 409)
    <3>1. PICK o \in Ops : o.pc = "answered" /\ op' = [op EXCEPT ![a] = o]
      BY <2>2, AnswerFacts DEF ConfigsInv
    <3>. QED  BY <1>1, <2>1, <3>1, ConfigsQuiet
  <2>3. CASE op' = [op EXCEPT ![a].pc = "write"]
    <3>. DEFINE o == [op[a] EXCEPT !.pc = "write"]
    <3>1. /\ o \in Ops /\ o.kind = op[a].kind /\ o.id = op[a].id /\ o.provider = op[a].provider
          /\ op' = [op EXCEPT ![a] = o]
      BY <1>1, <2>3 DEF Ops
    <3>. HIDE DEF o
    <3>2. Meant(a)
      BY DEF ConfigsInv
    <3>. QED  BY <1>1, <2>1, <3>1, <3>2, ConfigsQuiet DEF Meant
  <2>. QED  BY <1>3, <2>2, <2>3 DEF Configs!Check
<1>4. CASE Configs!Answered(a)
  <2>1. Configs!NoOp \in Ops /\ Configs!NoOp.pc = "none"
    BY DEF Configs!NoOp, Ops
  <2>2. /\ op' = [op EXCEPT ![a] = Configs!NoOp] /\ UNCHANGED configs
        /\ lists' = lists \/ lists' = [lists EXCEPT ![a] = Configs!ActiveIds]
    BY <1>4 DEF Configs!Answered
  <2>. QED  BY <1>1, <2>1, <2>2, ConfigsQuiet
<1>5. CASE Configs!LoadData(a)
  <2>1. /\ op' = [op EXCEPT ![a] = op[a]] /\ UNCHANGED configs /\ op[a].pc = "none"
        /\ lists' = [lists EXCEPT ![a] = Configs!ActiveIds]
    BY <1>1, <1>5 DEF Configs!LoadData
  <2>. QED  BY <1>1, <2>1, ConfigsQuiet
<1>. QED  BY <1>2, <1>3, <1>4, <1>5

\* A row is written: it differs from all others.
LEMMA ConfigsWrite == ASSUME ConfigsInv, NEW a \in Admins, Configs!Write(a) PROVE ConfigsInv'
<1>. DEFINE o == op[a]
            new == CASE o.kind = "post" -> Configs!Created(o)
                     [] o.kind = "put" -> Configs!Updated(o)
                     [] o.kind = "delete" -> Configs!Deactivated(o)
<1>1. /\ op \in [Admins -> Ops] /\ op[a] \in Ops /\ op[a].pc = "write" /\ lists' = lists
      /\ configs \in Seq(Rows) /\ Len(configs) \in Nat /\ Len(configs) <= MaxConfigs
      /\ DOMAIN configs = 1..Len(configs)
  BY ConfigTypes, ConfigIds DEF ConfigsInv, Configs!Write
<1>2. \/ o.kind = "post" /\ o.id = 0 /\ o.provider \in Providers
      \/ o.kind = "put" /\ o.id \in DOMAIN configs /\ o.provider \in Providers
      \/ o.kind = "delete" /\ o.id \in DOMAIN configs
  BY <1>1 DEF ConfigsInv, Meant
<1>3. new \in Rows
  <2>1. o.id \in DOMAIN configs => configs[o.id] \in Rows
    BY <1>1
  <2>. QED  BY <1>2, <2>1 DEF Configs!Created, Configs!Updated, Configs!Deactivated, Rows
<1>4. CASE /\ Configs!Unique(o.id, new.provider, new.active)
           /\ o.kind = "post" => Len(configs) < MaxConfigs
           /\ configs' = IF o.kind = "post" THEN Append(configs, new)
                         ELSE [configs EXCEPT ![o.id] = new]
           /\ Configs!Answer(a, 200)
  <2>. DEFINE id == IF o.kind = "post" THEN Len(configs) + 1 ELSE o.id
  <2>. HIDE DEF new
  <2>1. /\ configs' \in Seq(Rows) /\ Len(configs') <= MaxConfigs
        /\ DOMAIN configs' = DOMAIN configs \cup {id} /\ configs'[id] = new
        /\ \A c \in DOMAIN configs \ {id} : configs'[c] = configs[c]
    <3>1. CASE o.kind = "post"
      BY <1>1, <1>3, <1>4, <3>1, PlatformAssumption
    <3>2. CASE o.kind # "post"
      BY <1>1, <1>2, <1>3, <1>4, <3>2
    <3>. QED  BY <3>1, <3>2
  <2>2. \A c \in DOMAIN configs \ {id} :
           ~(configs[c].provider = new.provider /\ configs[c].active = new.active)
    BY <1>1, <1>2, <1>4 DEF Configs!Unique
  <2>3. PICK answered \in Ops : answered.pc = "answered" /\ op' = [op EXCEPT ![a] = answered]
    BY <1>4, AnswerFacts DEF ConfigsInv
  <2>. HIDE DEF id
  <2>4. /\ op' \in [Admins -> Ops] /\ op'[a].pc = "answered"
        /\ \A b \in Admins \ {a} : op'[b] = op[b]
    BY <1>1, <2>3
  <2>5. Configs!TypeOK'
    BY <1>1, <2>1, <2>4, ConfigTypes DEF ConfigsInv, Configs!TypeOK, Rows, Ops
  <2>6. RowsDiffer'
    BY <2>1, <2>2 DEF ConfigsInv, RowsDiffer
  <2>7. ASSUME NEW b \in Admins PROVE Meant(b)'
    BY <1>1, <2>1, <2>4 DEF ConfigsInv, Meant
  <2>. QED  BY <2>5, <2>6, <2>7 DEF ConfigsInv
<1>5. CASE Configs!Answer(a, 500) /\ UNCHANGED configs
  <2>1. PICK answered \in Ops : answered.pc = "answered" /\ op' = [op EXCEPT ![a] = answered]
    BY <1>5, AnswerFacts DEF ConfigsInv
  <2>. QED  BY <1>1, <1>5, <2>1, ConfigsQuiet
<1>. QED  BY <1>4, <1>5 DEF Configs!Write

\* Every step of the admins and of the routes keeps the invariant.
LEMMA ConfigsNext == ConfigsInv /\ [Configs!Next]_adminPages => ConfigsInv'
<1>. SUFFICES ASSUME ConfigsInv, [Configs!Next]_adminPages PROVE ConfigsInv'
  OBVIOUS
<1>1. CASE UNCHANGED adminPages
  BY <1>1 DEF adminPages, ConfigsInv, Configs!TypeOK, RowsDiffer, Meant
<1>2. CASE Configs!Next
  BY <1>2, ConfigsQuietSteps, ConfigsWrite DEF Configs!Next
<1>. QED  BY <1>1, <1>2

\* A behaviour of the platform is one of the configurations.
LEMMA JointConfigs ==
  [JointNext]_<<part, vars, voice, chatPage, histories, uploads, webhooks, limits, provider,
                adminPages, texts, pages>>
    => [Configs!Next]_adminPages
  BY DEF JointNext, Others

\* For any number of admins, providers and rows, and whatever list an admin's page
\* shows when a request is sent: a tenant has at most one active configuration of a
\* provider.
THEOREM OneActive == JointSpec => []OneActivePerProvider
<1>1. JointInit => ConfigsInv
  BY ConfigsInit DEF JointInit
<1>2. ConfigsInv => OneActivePerProvider
  BY ConfigTypes DEF ConfigsInv, RowsDiffer, OneActivePerProvider, Configs!OneActivePerProvider,
     Configs!Active, Rows
<1>. QED  BY <1>1, <1>2, ConfigsNext, JointConfigs, PTL DEF JointSpec

-----------------------------------------------------------------------------
(***************************************************************************)
(* ProviderStream.  A read completes the lines that follow those of the    *)
(* reads before it, none twice and none left out, since what is kept of a  *)
(* line is all that was sent of it.  So an attempt is where its number of  *)
(* parsed lines says, and the number of its last content is that number.   *)
(***************************************************************************)

\* The lines of the attempt that have been worked off.
WorkedOff == sent \div 2 - Len(lines)

\* The content that the attempt has yielded so far.
LastContent ==
  IF yielded # <<>> /\ yielded[Len(yielded)].attempt = retries THEN yielded[Len(yielded)].k ELSE 0

\* What was read: lines wait in their order, the begun one is kept.
ReadInOrder ==
  /\ buffer = Provider!Kept(sent)
  /\ WorkedOff \in Nat
  /\ \A i \in DOMAIN lines : lines[i] = WorkedOff + i

\* The content of the attempt after the one, up to the other, did not parse.
Missed(after, upto) == \A k \in 1..Size : after < k /\ k <= upto => <<retries, k>> \in skipped

\* What was yielded fits the lines worked off, up to the chunk that is OpenAI's last,
\* and an attempt that waits to be made again may be.
YieldedInOrder ==
  /\ \A i \in DOMAIN yielded : /\ yielded[i].attempt <= retries
                               /\ pc = "fetch" => yielded[i].attempt < retries
  /\ pc = "backoff" => retries < MaxRetries
  /\ pc = "body" =>
       \/ LastContent <= WorkedOff /\ Missed(LastContent, WorkedOff)
       \/ WorkedOff >= Size + 2 /\ kind = "openai" /\ ~finish

ProviderInv == Provider!TypeOK /\ ReadInOrder /\ YieldedInOrder /\ Provider!NoGapInAttempt

\* What has been yielded.
LEMMA YieldedTypes ==
  ASSUME Provider!TypeOK
  PROVE  /\ yielded \in Seq([attempt : 0..MaxRetries, k : 0..Size, last : BOOLEAN])
         /\ DOMAIN yielded = 1..Len(yielded) /\ Len(yielded) \in Nat
         /\ \A i \in DOMAIN yielded :
              /\ yielded[i] \in [attempt : 0..MaxRetries, k : 0..Size, last : BOOLEAN]
              /\ yielded[i].attempt \in 0..MaxRetries /\ yielded[i].k \in 0..Size
<1>. DEFINE Yields == [attempt : 0..MaxRetries, k : 0..Size, last : BOOLEAN]
<1>1. yielded \in Seq(Yields)
  BY DEF Provider!TypeOK
<1>2. \A y \in Yields : y.attempt \in 0..MaxRetries /\ y.k \in 0..Size
  OBVIOUS
<1>. HIDE DEF Yields
<1>3. /\ DOMAIN yielded = 1..Len(yielded) /\ Len(yielded) \in Nat
      /\ \A i \in DOMAIN yielded : yielded[i] \in Yields
  BY <1>1
<1>. QED  BY <1>1, <1>2, <1>3 DEF Yields

\* The lines of an answer.
LEMMA AnswerLines ==
  /\ Size \in Nat
  /\ Len(Provider!Answer) = IF kind = "openai" THEN Size + 3 ELSE Size + 2
  /\ \A l \in 1..Size : Provider!Answer[l] = "content"
  /\ Provider!Answer[Size + 1] = "finish"
  /\ Provider!Answer[Size + 2] = IF kind = "openai" THEN "usage" ELSE "end"
  /\ kind = "openai" => Provider!Answer[Size + 3] = "end"
<1>. DEFINE content == [k \in 1..Size |-> "content"]
            Lines == {"content", "finish", "usage", "end"}
<1>1. Size \in Nat
  BY PlatformAssumption
<1>2. content \in Seq(Lines) /\ Len(content) = Size /\ \A l \in 1..Size : content[l] = "content"
  BY <1>1
<1>3. /\ Provider!Tail2 \in Seq(Lines)
      /\ Len(Provider!Tail2) = IF kind = "openai" THEN 3 ELSE 2
      /\ Provider!Tail2[1] = "finish"
      /\ Provider!Tail2[2] = IF kind = "openai" THEN "usage" ELSE "end"
      /\ kind = "openai" => Provider!Tail2[3] = "end"
  <2>1. CASE kind = "openai"
    <3>1. Provider!Tail2 = <<"finish", "usage", "end">>
      BY <2>1 DEF Provider!Tail2
    <3>. QED  BY <2>1, <3>1
  <2>2. CASE kind # "openai"
    <3>1. Provider!Tail2 = <<"finish", "end">>
      BY <2>2 DEF Provider!Tail2
    <3>. QED  BY <2>2, <3>1
  <2>. QED  BY <2>1, <2>2
<1>4. Provider!Answer = content \o Provider!Tail2
  BY DEF Provider!Answer
<1>. HIDE DEF content, Lines
<1>5. /\ Len(content \o Provider!Tail2) = Size + Len(Provider!Tail2)
      /\ \A l \in 1..Size : (content \o Provider!Tail2)[l] = content[l]
      /\ \A l \in 1..Len(Provider!Tail2) :
           (content \o Provider!Tail2)[Size + l] = Provider!Tail2[l]
  <2>. DEFINE tail == Provider!Tail2
  <2>1. tail \in Seq(Lines) /\ Len(tail) \in Nat
    BY <1>3
  <2>. HIDE DEF tail
  <2>2. /\ Len(content \o tail) = Size + Len(tail)
        /\ \A i \in 1..Size + Len(tail) :
             (content \o tail)[i] = IF i <= Size THEN content[i] ELSE tail[i - Size]
    BY <1>2, <2>1, ConcatProperties
  <2>3. \A l \in 1..Len(tail) : /\ Size + l \in 1..Size + Len(tail) /\ ~(Size + l <= Size)
                                /\ (Size + l) - Size = l
    BY <1>1, <2>1
  <2>4. \A l \in 1..Size : l \in 1..Size + Len(tail) /\ l <= Size
    BY <1>1, <2>1
  <2>. QED  BY <2>2, <2>3, <2>4 DEF tail
<1>. QED  BY <1>1, <1>2, <1>3, <1>4, <1>5

\* The initial states: nothing is sent, nothing yielded.
LEMMA ProviderInit == Provider!Init => ProviderInv
<1>. SUFFICES ASSUME Provider!Init PROVE ProviderInv
  OBVIOUS
<1>1. Provider!TypeOK
  <2>1. Len(Provider!Answer) \in Nat
    BY AnswerLines
  <2>2. /\ lines \in Seq(1..Len(Provider!Answer)) /\ sent \in 0..Provider!Halves
        /\ buffer \in 0..Len(Provider!Answer)
    BY <2>1 DEF Provider!Init, Provider!Halves
  <2>3. /\ retries \in 0..MaxRetries
        /\ yielded \in Seq([attempt : 0..MaxRetries, k : 0..Size, last : BOOLEAN])
    BY PlatformAssumption DEF Provider!Init
  <2>. QED  BY <2>2, <2>3 DEF Provider!Init, Provider!TypeOK
<1>2. ReadInOrder
  BY DEF Provider!Init, ReadInOrder, WorkedOff, Provider!Kept
<1>3. YieldedInOrder /\ Provider!NoGapInAttempt
  BY DEF Provider!Init, YieldedInOrder, Provider!NoGapInAttempt
<1>. QED  BY <1>1, <1>2, <1>3 DEF ProviderInv

\* What is yielded does not change, and what did not parse stays so: the properties of
\* it stay, and the type of the rest is what is left to show.
LEMMA ProviderSame ==
  ASSUME ProviderInv, UNCHANGED <<kind, consumer, yielded>>,
         pc' \in {"fetch", "body", "backoff", "threw", "returned", "stopped"},
         retries' \in 0..MaxRetries,
         sent' \in 0..Provider!Halves, buffer' \in 0..Len(Provider!Answer), finish' \in BOOLEAN,
         lines' \in Seq(1..Len(Provider!Answer)),
         skipped \subseteq skipped', skipped' \subseteq Provider!AllContent,
         ReadInOrder', YieldedInOrder'
  PROVE  ProviderInv'
<1>1. Provider!Answer' = Provider!Answer
  BY DEF Provider!Answer, Provider!Tail2
<1>2. Provider!TypeOK'
  BY <1>1 DEF ProviderInv, Provider!TypeOK, Provider!Halves
<1>3. Provider!NoGapInAttempt'
  BY DEF ProviderInv, Provider!NoGapInAttempt
<1>. QED  BY <1>2, <1>3 DEF ProviderInv

\* An attempt fails, the body ends, or the consumer stops: it is left where it is.
LEMMA ProviderLeaves ==
  ASSUME ProviderInv,
         UNCHANGED <<kind, consumer, yielded, skipped, sent, buffer, lines, finish>>,
         pc' \in {"fetch", "backoff", "threw", "returned", "stopped"},
         retries' \in {retries, retries + 1}, retries' <= MaxRetries,
         pc' = "fetch" => retries' = retries + 1,
         pc' = "backoff" => retries' < MaxRetries
  PROVE  ProviderInv'
<1>1. retries \in 0..MaxRetries /\ retries' \in 0..MaxRetries
  BY PlatformAssumption DEF ProviderInv, Provider!TypeOK
<1>2. ReadInOrder'
  BY DEF ProviderInv, ReadInOrder, WorkedOff, Provider!Kept
<1>3. \A i \in DOMAIN yielded : yielded[i].attempt \in 0..MaxRetries
  BY YieldedTypes DEF ProviderInv
<1>4. YieldedInOrder'
  BY <1>1, <1>3, PlatformAssumption DEF ProviderInv, YieldedInOrder
<1>. QED  BY <1>1, <1>2, <1>4, ProviderSame DEF ProviderInv, Provider!TypeOK

\* The headers come: the attempt begins.
LEMMA ProviderHeaders == ProviderInv /\ Provider!Headers => ProviderInv'
<1>. SUFFICES ASSUME ProviderInv, Provider!Headers PROVE ProviderInv'
  OBVIOUS
<1>1. /\ pc = "fetch" /\ pc' = "body" /\ sent' = 0 /\ buffer' = 0 /\ lines' = <<>> /\ ~finish'
      /\ finish' \in BOOLEAN
      /\ UNCHANGED <<kind, consumer, retries, yielded, skipped>> /\ retries \in 0..MaxRetries
  BY DEF Provider!Headers, ProviderInv, Provider!TypeOK
<1>2. /\ lines' \in Seq(1..Len(Provider!Answer)) /\ sent' \in 0..Provider!Halves
      /\ buffer' \in 0..Len(Provider!Answer) /\ WorkedOff' = 0
  <2>1. Len(Provider!Answer) \in Nat
    BY AnswerLines
  <2>2. sent' \div 2 = 0 /\ Len(lines') = 0
    BY <1>1
  <2>3. 0 \in 0..Len(Provider!Answer) /\ 0 \in 0..Provider!Halves
    BY <2>1 DEF Provider!Halves
  <2>4. WorkedOff' = 0
    BY <2>2 DEF WorkedOff
  <2>. QED  BY <1>1, <2>3, <2>4
<1>3. ReadInOrder'
  BY <1>1, <1>2 DEF ReadInOrder, Provider!Kept
<1>4. yielded # <<>> => yielded[Len(yielded)].attempt < retries
  <2>1. yielded # <<>> => Len(yielded) \in DOMAIN yielded
    BY DEF ProviderInv, Provider!TypeOK
  <2>. QED  BY <1>1, <2>1 DEF ProviderInv, YieldedInOrder
<1>5. LastContent' = 0
  BY <1>1, <1>4 DEF LastContent
<1>6. YieldedInOrder'
  BY <1>1, <1>2, <1>5, AnswerLines DEF YieldedInOrder, Missed, ProviderInv
<1>. QED  BY <1>1, <1>2, <1>3, <1>6, ProviderSame DEF ProviderInv, Provider!TypeOK

\* What is kept of a line is of a line of the answer.
LEMMA HalfOfLine ==
  ASSUME NEW length \in Nat, NEW h \in 0..2 * length
  PROVE  h \div 2 \in Nat /\ Provider!Kept(h) \in 0..length
<1>1. h \in Nat /\ h <= 2 * length
  OBVIOUS
<1>2. h \div 2 \in Nat
  BY <1>1
<1>3. CASE h % 2 = 1
  <2>1. (h + 1) \div 2 \in Nat /\ (h + 1) \div 2 <= length
    BY <1>1, <1>3
  <2>. QED  BY <1>2, <1>3, <2>1 DEF Provider!Kept
<1>4. CASE h % 2 # 1
  BY <1>2, <1>4 DEF Provider!Kept
<1>. QED  BY <1>3, <1>4

\* Of a piece that begins where the last one ended, the lines that it completes
\* are those that follow.
LEMMA PieceLines ==
  ASSUME Provider!TypeOK, ReadInOrder, NEW n \in 1..3, sent + n <= Provider!Halves
  PROVE  LET piece == Provider!Parsed(sent + 1, sent + n)
         IN /\ piece \in Seq(1..Len(Provider!Answer))
            /\ Len(piece) = (sent + n) \div 2 - sent \div 2
            /\ \A i \in 1..Len(piece) : piece[i] = sent \div 2 + i
<1>. DEFINE length == Len(Provider!Answer)
            all == [l \in 1..length |-> l]
            first == sent + 1
            last == sent + n
            begun == (first + 1) \div 2
            whole == IF first % 2 = 0 /\ buffer # begun THEN begun + 1 ELSE begun
<1>1. length \in Nat /\ sent \in Nat /\ last <= 2 * length /\ n \in 1..3
  BY AnswerLines DEF Provider!TypeOK, Provider!Halves
<1>2. first % 2 = 0 => buffer = begun
  <2>1. buffer = IF sent % 2 = 1 THEN (sent + 1) \div 2 ELSE 0
    BY DEF ReadInOrder, Provider!Kept
  <2>2. first % 2 = 0 => sent % 2 = 1 /\ (sent + 1) \div 2 = begun
    BY <1>1
  <2>. QED  BY <2>1, <2>2
<1>3. whole = begun /\ begun = sent \div 2 + 1
  BY <1>1, <1>2
<1>4. /\ whole \in Nat /\ whole >= 1 /\ last \div 2 \in Nat /\ last \div 2 <= length
      /\ sent \div 2 \in Nat /\ sent \div 2 <= last \div 2
  BY <1>1, <1>3
<1>5. Provider!Parsed(first, last) = SubSeq(all, whole, last \div 2)
  BY DEF Provider!Parsed
<1>. HIDE DEF length, whole
<1>6. \A i \in whole..(last \div 2) : all[i] \in 1..length
  BY <1>1, <1>4
<1>. DEFINE end == last \div 2
            piece == SubSeq(all, whole, end)
<1>7. end \in Nat /\ end <= length /\ whole = sent \div 2 + 1 /\ sent \div 2 <= end
  BY <1>3, <1>4
<1>. HIDE DEF end, all
<1>8. /\ piece \in Seq(1..length) /\ Len(piece) = IF whole <= end THEN end - whole + 1 ELSE 0
      /\ \A i \in 1..end - whole + 1 : piece[i] = all[whole + i - 1]
  BY <1>4, <1>6, <1>7, SubSeqProperties DEF end
<1>9. \A i \in 1..end - whole + 1 : all[whole + i - 1] = sent \div 2 + i
  BY <1>1, <1>4, <1>7 DEF all
<1>10. Len(piece) = end - sent \div 2 /\ end - whole + 1 = Len(piece)
  BY <1>4, <1>7, <1>8
<1>. QED  BY <1>5, <1>8, <1>9, <1>10 DEF length, end

\* A read: its lines wait behind none.
LEMMA ProviderRead == ProviderInv /\ Provider!Read => ProviderInv'
<1>. SUFFICES ASSUME ProviderInv, Provider!Read PROVE ProviderInv'
  OBVIOUS
<1>1. PICK n \in 1..3 : sent + n <= Provider!Halves /\ Provider!ReadPiece(n) /\ sent' = sent + n
  BY DEF Provider!Read
<1>2. /\ pc = "body" /\ lines = <<>>
      /\ UNCHANGED <<kind, consumer, pc, retries, finish, yielded, skipped>>
  BY DEF Provider!Read
<1>3. /\ sent \in Nat /\ sent' \in Nat /\ sent' \in 0..Provider!Halves
      /\ Len(Provider!Answer) \in Nat /\ Provider!Halves = 2 * Len(Provider!Answer)
  BY <1>1, AnswerLines DEF ProviderInv, Provider!TypeOK, Provider!Halves
<1>. DEFINE piece == Provider!Parsed(sent + 1, sent + n)
<1>4. /\ piece \in Seq(1..Len(Provider!Answer))
      /\ Len(piece) = sent' \div 2 - sent \div 2
      /\ \A i \in 1..Len(piece) : piece[i] = sent \div 2 + i
  BY <1>1, PieceLines DEF ProviderInv
<1>. HIDE DEF piece
<1>5. lines' = piece /\ buffer' = Provider!Kept(sent')
  BY <1>1 DEF Provider!ReadPiece, piece
<1>6. WorkedOff = sent \div 2 /\ WorkedOff' = sent \div 2 /\ sent \div 2 \in Nat
  <2>1. sent \div 2 \in Nat /\ sent' \div 2 \in Nat
    <3>1. sent \in 0..2 * Len(Provider!Answer)
      BY <1>3 DEF ProviderInv, Provider!TypeOK
    <3>. QED  BY <1>3, <3>1, HalfOfLine
  <2>2. Len(lines) = 0 /\ Len(lines') = sent' \div 2 - sent \div 2
    BY <1>2, <1>4, <1>5
  <2>. QED  BY <2>1, <2>2 DEF WorkedOff
<1>7. ReadInOrder'
  BY <1>4, <1>5, <1>6 DEF ReadInOrder, Provider!Kept
<1>8. YieldedInOrder'
  BY <1>2, <1>6 DEF ProviderInv, YieldedInOrder, Missed, LastContent
<1>9. buffer' \in 0..Len(Provider!Answer)
  <2>1. Len(Provider!Answer) \in Nat /\ sent' \in 0..2 * Len(Provider!Answer)
    BY <1>3
  <2>. QED  BY <1>5, <2>1, HalfOfLine
<1>. QED  BY <1>2, <1>3, <1>4, <1>5, <1>7, <1>8, <1>9, ProviderSame DEF ProviderInv, Provider!TypeOK

\* A line is taken: the next one after those worked off.
LEMMA LineTaken ==
  ASSUME ProviderInv, lines # <<>>, lines' = Tail(lines), UNCHANGED <<kind, sent, buffer>>
  PROVE  /\ Head(lines) \in 1..Len(Provider!Answer) /\ Head(lines) = WorkedOff + 1
         /\ WorkedOff \in Nat /\ WorkedOff' = WorkedOff + 1
         /\ lines' \in Seq(1..Len(Provider!Answer))
         /\ ReadInOrder'
<1>1. /\ lines' \in Seq(1..Len(Provider!Answer)) /\ Len(lines') = Len(lines) - 1
      /\ Len(lines) \in Nat /\ \A i \in 1..Len(lines') : lines'[i] = lines[i + 1]
      /\ DOMAIN lines = 1..Len(lines) /\ DOMAIN lines' = 1..Len(lines')
  BY HeadTailProperties DEF ProviderInv, Provider!TypeOK
<1>2. Head(lines) \in 1..Len(Provider!Answer) /\ Head(lines) = lines[1] /\ 1 \in DOMAIN lines
  BY DEF ProviderInv, Provider!TypeOK
<1>3. /\ WorkedOff \in Nat /\ WorkedOff' = WorkedOff + 1
      /\ \A i \in 1..Len(lines) : lines[i] = WorkedOff + i
  <2>1. sent \div 2 \in Nat
    BY DEF ProviderInv, Provider!TypeOK
  <2>2. WorkedOff' = sent \div 2 - (Len(lines) - 1)
    BY <1>1 DEF WorkedOff
  <2>3. WorkedOff' = WorkedOff + 1
    BY <1>1, <2>1, <2>2 DEF WorkedOff
  <2>. QED  BY <1>1, <2>3 DEF ProviderInv, ReadInOrder
<1>4. ReadInOrder'
  BY <1>1, <1>3 DEF ProviderInv, ReadInOrder, Provider!Kept
<1>. QED  BY <1>1, <1>2, <1>3, <1>4

\* A line yields nothing, or what fits its place.
LEMMA ProviderTakes ==
  ASSUME ProviderInv, pc = "body", lines # <<>>, lines' = Tail(lines),
         UNCHANGED <<kind, consumer, retries, sent, buffer, skipped>>, finish' \in BOOLEAN,
         pc' \in {"body", "stopped", "returned"},
         NEW k \in 0..Size, NEW last \in BOOLEAN,
         \/ yielded' = yielded /\ k = LastContent
         \/ /\ yielded' = Append(yielded, [attempt |-> retries, k |-> k, last |-> last])
            /\ k # 0 => k > LastContent /\ Missed(LastContent, k - 1)
            /\ last => Missed(LastContent, Size),
         pc' = "body" =>
           \/ k <= WorkedOff + 1 /\ Missed(k, WorkedOff + 1)
           \/ WorkedOff + 1 >= Size + 2 /\ kind = "openai" /\ ~finish'
  PROVE  ProviderInv'
<1>. DEFINE Yields == [attempt : 0..MaxRetries, k : 0..Size, last : BOOLEAN]
            new == [attempt |-> retries, k |-> k, last |-> last]
<1>1. Provider!Answer' = Provider!Answer
  BY DEF Provider!Answer, Provider!Tail2
<1>2. /\ retries \in 0..MaxRetries /\ Size \in Nat /\ retries \in Nat
      /\ yielded \in Seq(Yields) /\ new \in Yields
      /\ new.attempt = retries /\ new.k = k /\ new.last = last
      /\ DOMAIN yielded = 1..Len(yielded) /\ Len(yielded) \in Nat
      /\ skipped \subseteq Provider!AllContent
  BY PlatformAssumption, YieldedTypes DEF ProviderInv, Provider!TypeOK
<1>. HIDE DEF Yields, new
<1>3. /\ lines' \in Seq(1..Len(Provider!Answer)) /\ WorkedOff \in Nat
      /\ WorkedOff' = WorkedOff + 1 /\ ReadInOrder'
  BY LineTaken
<1>4. ASSUME LastContent' = k, \A i \in DOMAIN yielded' : yielded'[i].attempt <= retries
      PROVE  YieldedInOrder'
  BY <1>3, <1>4 DEF YieldedInOrder, Missed
<1>5. CASE yielded' = yielded /\ k = LastContent
  <2>1. LastContent' = k
    BY <1>5 DEF LastContent
  <2>2. YieldedInOrder'
    BY <1>4, <1>5, <2>1 DEF ProviderInv, YieldedInOrder
  <2>. QED  BY <1>2, <1>3, <1>5, <2>2, ProviderSame DEF ProviderInv, Provider!TypeOK
<1>6. CASE /\ yielded' = Append(yielded, new)
           /\ k # 0 => k > LastContent /\ Missed(LastContent, k - 1)
           /\ last => Missed(LastContent, Size)
  <2>1. /\ yielded' \in Seq(Yields) /\ Len(yielded') = Len(yielded) + 1 /\ yielded' # <<>>
        /\ \A i \in 1..Len(yielded) : yielded'[i] = yielded[i]
        /\ yielded'[Len(yielded) + 1] = new
        /\ DOMAIN yielded' = 1..Len(yielded) + 1
    <3>. DEFINE longer == Append(yielded, new)
    <3>1. /\ longer \in Seq(Yields) /\ Len(longer) = Len(yielded) + 1 /\ longer # <<>>
          /\ \A i \in 1..Len(yielded) : longer[i] = yielded[i]
          /\ longer[Len(yielded) + 1] = new
      BY <1>2, AppendProperties
    <3>2. yielded' = longer
      BY <1>6
    <3>. HIDE DEF longer
    <3>3. DOMAIN longer = 1..Len(longer)
      BY <3>1
    <3>. QED  BY <3>1, <3>2, <3>3
  <2>2. LastContent' = k
    BY <1>2, <2>1 DEF LastContent
  <2>3. \A i \in DOMAIN yielded' : yielded'[i].attempt <= retries
    BY <1>2, <2>1 DEF ProviderInv, YieldedInOrder
  <2>4. YieldedInOrder'
    BY <1>4, <2>2, <2>3
  <2>5. Provider!TypeOK'
    BY <1>1, <1>2, <1>3, <2>1 DEF ProviderInv, Provider!TypeOK, Provider!Halves, Yields
  <2>6. ASSUME NEW i \in DOMAIN yielded'
        PROVE  LET c == yielded'[i]
                   before == IF i > 1 /\ yielded'[i-1].attempt = c.attempt
                             THEN yielded'[i-1].k ELSE 0
                   upto == IF c.last THEN Size ELSE c.k - 1
               IN /\ c.k # 0 => c.k > before
                  /\ \A j \in before + 1..upto : <<c.attempt, j>> \in skipped
    <3>1. CASE i \in 1..Len(yielded)
      <4>1. i - 1 \in 1..Len(yielded) \/ ~(i > 1)
        BY <1>2, <3>1
      <4>. QED  BY <1>2, <2>1, <3>1, <4>1 DEF ProviderInv, Provider!NoGapInAttempt
    <3>2. CASE i = Len(yielded) + 1
      <4>1. LastContent = IF i > 1 /\ yielded'[i-1].attempt = retries THEN yielded'[i-1].k ELSE 0
        <5>1. CASE yielded = <<>>
          BY <1>2, <3>2, <5>1 DEF LastContent
        <5>2. CASE yielded # <<>>
          <6>1. i > 1 /\ i - 1 = Len(yielded) /\ i - 1 \in 1..Len(yielded)
            BY <1>2, <3>2, <5>2
          <6>. QED  BY <2>1, <5>2, <6>1 DEF LastContent
        <5>. QED  BY <5>1, <5>2
      <4>2. LastContent \in Nat
        <5>1. yielded # <<>> => Len(yielded) \in DOMAIN yielded
          BY <1>2
        <5>. QED  BY <1>2, <5>1, YieldedTypes DEF ProviderInv, LastContent
      <4>3. ASSUME NEW j \in LastContent + 1..(IF last THEN Size ELSE k - 1)
            PROVE  <<retries, j>> \in skipped
        <5>1. /\ j \in 1..Size /\ LastContent < j /\ (last \/ k # 0)
              /\ j <= (IF last THEN Size ELSE k - 1)
          BY <1>2, <4>2
        <5>. QED  BY <1>6, <5>1 DEF Missed
      <4>. QED  BY <1>2, <1>6, <2>1, <3>2, <4>1, <4>3
    <3>. QED  BY <1>2, <2>1, <2>6, <3>1, <3>2
  <2>7. Provider!NoGapInAttempt'
    BY <2>6 DEF Provider!NoGapInAttempt
  <2>. QED  BY <1>3, <2>4, <2>5, <2>7 DEF ProviderInv
<1>. QED  BY <1>5, <1>6 DEF new

\* A line is worked off.
LEMMA ProviderLine == ProviderInv /\ Provider!Line => ProviderInv'
<1>. SUFFICES ASSUME ProviderInv, Provider!Line PROVE ProviderInv'
  OBVIOUS
<1>. DEFINE l == Head(lines)
<1>1. /\ pc = "body" /\ lines # <<>> /\ lines' = Tail(lines)
      /\ UNCHANGED <<kind, consumer, retries, sent, buffer, skipped>> /\ finish \in BOOLEAN
      /\ Size \in Nat /\ 0 \in 0..Size
  BY PlatformAssumption DEF Provider!Line, ProviderInv, Provider!TypeOK
<1>2. l \in 1..Len(Provider!Answer) /\ l = WorkedOff + 1 /\ WorkedOff \in Nat
  BY <1>1, LineTaken
<1>3. LastContent \in 0..Size
  <2>1. yielded # <<>> => Len(yielded) \in DOMAIN yielded
    BY YieldedTypes DEF ProviderInv
  <2>. QED  BY <1>1, <2>1, YieldedTypes DEF ProviderInv, LastContent
<1>4. \/ LastContent <= WorkedOff /\ Missed(LastContent, WorkedOff)
      \/ WorkedOff >= Size + 2 /\ kind = "openai" /\ ~finish
  BY <1>1 DEF ProviderInv, YieldedInOrder
<1>. HIDE DEF l
<1>5. CASE l <= Size
  <2>1. Provider!Answer[l] = "content" /\ l \in 0..Size /\ l # 0
    BY <1>2, <1>5, AnswerLines
  <2>2. /\ yielded' = Append(yielded, [attempt |-> retries, k |-> l, last |-> FALSE])
        /\ pc' = pc /\ finish' \in BOOLEAN
    BY <1>1, <2>1 DEF Provider!Line, Provider!Yield, l
  <2>3. l > LastContent /\ Missed(LastContent, l - 1)
    <3>1. LastContent <= WorkedOff /\ Missed(LastContent, WorkedOff)
      BY <1>1, <1>2, <1>4, <1>5
    <3>. QED  BY <1>2, <1>3, <3>1
  <2>4. l <= WorkedOff + 1 /\ Missed(l, WorkedOff + 1)
    BY <1>2 DEF Missed
  <2>. QED  BY <1>1, <2>1, <2>2, <2>3, <2>4, ProviderTakes
<1>6. CASE l > Size
  <2>1. \/ /\ Missed(LastContent, Size) /\ LastContent <= WorkedOff + 1
           /\ Missed(LastContent, WorkedOff + 1)
        \/ WorkedOff >= Size + 2 /\ kind = "openai" /\ ~finish
    BY <1>1, <1>2, <1>3, <1>4, <1>6 DEF Missed
  <2>2. CASE l = Size + 1
    <3>1. Provider!Answer[l] = "finish"
      BY <2>2, AnswerLines
    <3>2. finish' = TRUE /\ yielded' = yielded /\ pc' = "body"
      BY <1>1, <3>1 DEF Provider!Line, l
    <3>3. LastContent <= WorkedOff + 1 /\ Missed(LastContent, WorkedOff + 1)
      BY <1>1, <1>2, <2>1, <2>2
    <3>. QED  BY <1>1, <1>3, <3>2, <3>3, ProviderTakes
  <2>3. CASE l = Size + 2 /\ kind = "openai"
    <3>1. Provider!Answer[l] = "usage" /\ Missed(LastContent, Size)
      BY <1>1, <1>2, <2>1, <2>3, AnswerLines
    <3>2. /\ yielded' = Append(yielded, [attempt |-> retries, k |-> 0, last |-> finish])
          /\ finish' = FALSE /\ pc' \in {"body", "stopped"}
      BY <1>1, <3>1 DEF Provider!Line, Provider!Yield, l
    <3>3. WorkedOff + 1 >= Size + 2
      BY <1>1, <1>2, <2>3
    <3>. QED  BY <1>1, <2>3, <3>1, <3>2, <3>3, ProviderTakes
  <2>4. CASE l = Size + 2 /\ kind # "openai"
    <3>1. Provider!Answer[l] = "end" /\ Missed(LastContent, Size)
      BY <1>1, <2>1, <2>4, AnswerLines
    <3>2. \/ /\ yielded' = Append(yielded, [attempt |-> retries, k |-> 0, last |-> TRUE])
             /\ finish' = finish /\ pc' \in {"returned", "stopped"}
          \/ yielded' = yielded /\ finish' = finish /\ pc' = "returned"
      BY <1>1, <3>1 DEF Provider!Line, Provider!Yield, l
    <3>. QED  BY <1>1, <1>3, <3>1, <3>2, ProviderTakes
  <2>5. CASE l = Size + 3 /\ kind = "openai"
    <3>1. Provider!Answer[l] = "end"
      BY <2>5, AnswerLines
    <3>2. \/ /\ yielded' = Append(yielded, [attempt |-> retries, k |-> 0, last |-> TRUE]) /\ finish
             /\ finish' = finish /\ pc' \in {"returned", "stopped"}
          \/ yielded' = yielded /\ finish' = finish /\ pc' = "returned"
      BY <1>1, <2>5, <3>1 DEF Provider!Line, Provider!Yield, l
    <3>3. finish => Missed(LastContent, Size)
      BY <2>1
    <3>. QED  BY <1>1, <1>3, <3>2, <3>3, ProviderTakes
  <2>6. l = Size + 1 \/ l = Size + 2 \/ (l = Size + 3 /\ kind = "openai")
    BY <1>1, <1>2, <1>6, AnswerLines
  <2>. QED  BY <2>2, <2>3, <2>4, <2>5, <2>6
<1>. QED  BY <1>1, <1>2, <1>5, <1>6

\* A line that does not parse is one of those that are missing.
LEMMA ProviderSkip == ProviderInv /\ Provider!SkipLine => ProviderInv'
<1>. SUFFICES ASSUME ProviderInv, Provider!SkipLine PROVE ProviderInv'
  OBVIOUS
<1>. DEFINE l == Head(lines)
<1>1. /\ pc = "body" /\ pc' = pc /\ lines # <<>> /\ lines' = Tail(lines)
      /\ UNCHANGED <<kind, consumer, retries, sent, buffer, finish, yielded>>
      /\ skipped' = skipped \cup ({<<retries, l>>} \cap Provider!AllContent)
  BY DEF Provider!SkipLine
<1>2. /\ l = WorkedOff + 1 /\ WorkedOff \in Nat /\ WorkedOff' = WorkedOff + 1
      /\ lines' \in Seq(1..Len(Provider!Answer)) /\ ReadInOrder'
  BY <1>1, LineTaken
<1>3. retries \in 0..MaxRetries /\ skipped \subseteq Provider!AllContent /\ Size \in Nat
  BY PlatformAssumption DEF ProviderInv, Provider!TypeOK
<1>. HIDE DEF l
<1>4. skipped \subseteq skipped' /\ skipped' \subseteq Provider!AllContent
  BY <1>1, <1>3
<1>5. l \in 1..Size => <<retries, l>> \in skipped'
  BY <1>1, <1>3 DEF Provider!AllContent
<1>6. Missed(LastContent, WorkedOff) => Missed(LastContent, WorkedOff)'
  <2>1. LastContent' = LastContent
    BY <1>1 DEF LastContent
  <2>2. ASSUME NEW k \in 1..Size, LastContent < k, k <= WorkedOff + 1,
               Missed(LastContent, WorkedOff)
        PROVE  <<retries, k>> \in skipped'
    <3>1. k <= WorkedOff \/ k = l
      BY <1>2, <1>3, <2>2
    <3>. QED  BY <1>4, <1>5, <2>2, <3>1 DEF Missed
  <2>. QED  BY <1>1, <1>2, <2>1, <2>2 DEF Missed
<1>7. YieldedInOrder'
  <2>1. LastContent' = LastContent
    BY <1>1 DEF LastContent
  <2>2. LastContent \in Nat
    <3>1. yielded # <<>> => Len(yielded) \in DOMAIN yielded
      BY YieldedTypes DEF ProviderInv
    <3>. QED  BY <1>3, <3>1, YieldedTypes DEF ProviderInv, LastContent
  <2>3. \/ LastContent <= WorkedOff /\ Missed(LastContent, WorkedOff)
        \/ WorkedOff >= Size + 2 /\ kind = "openai" /\ ~finish
    BY <1>1 DEF ProviderInv, YieldedInOrder
  <2>4. \/ LastContent' <= WorkedOff' /\ Missed(LastContent, WorkedOff)'
        \/ WorkedOff' >= Size + 2 /\ kind' = "openai" /\ ~finish'
    BY <1>1, <1>2, <1>3, <1>6, <2>1, <2>2, <2>3
  <2>. QED  BY <1>1, <2>4 DEF ProviderInv, YieldedInOrder
<1>. QED  BY <1>1, <1>2, <1>3, <1>4, <1>7, ProviderSame DEF ProviderInv, Provider!TypeOK

\* Every step of a provider's call keeps the invariant.
LEMMA ProviderNext == ProviderInv /\ [Provider!Next]_provider => ProviderInv'
<1>. SUFFICES ASSUME ProviderInv, [Provider!Next]_provider PROVE ProviderInv'
  OBVIOUS
<1>. USE PlatformAssumption DEF Provider!body
<1>1. retries \in 0..MaxRetries
  BY DEF ProviderInv, Provider!TypeOK
<1>2. CASE Provider!Retryable \/ Provider!Breaks
  BY <1>1, <1>2, ProviderLeaves DEF Provider!Retryable, Provider!Breaks, Provider!FailAttempt
<1>3. CASE Provider!Fatal \/ Provider!BodyEnds \/ Provider!ConsumerStops
  BY <1>1, <1>3, ProviderLeaves
  DEF Provider!Fatal, Provider!BodyEnds, Provider!ConsumerStops
<1>4. CASE Provider!Backoff
  BY <1>1, <1>4, ProviderLeaves DEF Provider!Backoff, ProviderInv, YieldedInOrder
<1>5. CASE UNCHANGED provider
  <2>1. ReadInOrder' /\ YieldedInOrder'
    BY <1>5 DEF provider, ProviderInv, ReadInOrder, YieldedInOrder, WorkedOff, LastContent,
                Missed, Provider!Kept
  <2>. QED  BY <1>5, <2>1, ProviderSame DEF provider, ProviderInv, Provider!TypeOK
<1>. QED
  BY <1>2, <1>3, <1>4, <1>5, ProviderHeaders, ProviderRead, ProviderLine, ProviderSkip
  DEF Provider!Next

\* A behaviour of the platform is one of a provider's call.
LEMMA JointProvider ==
  [JointNext]_<<part, vars, voice, chatPage, histories, uploads, webhooks, limits, provider,
                adminPages, texts, pages>>
    => [Provider!Next]_provider
  BY DEF JointNext, Others

\* For an answer of any size and any number of retries: however the body is cut
\* into reads, breaks and is asked for again, an attempt of chatStream yields its
\* content in order and none of it twice, and what is missing before a later chunk, or
\* before the chunk with a finishReason, did not parse: no cut of the body loses any.
THEOREM AttemptsHaveNoGaps == JointSpec => []NoGapInAttempt
<1>1. JointInit => ProviderInv
  BY ProviderInit DEF JointInit
<1>2. ProviderInv => NoGapInAttempt
  BY DEF ProviderInv, NoGapInAttempt
<1>. QED  BY <1>1, <1>2, ProviderNext, JointProvider, PTL DEF JointSpec

-----------------------------------------------------------------------------
(***************************************************************************)
(* Transcription.  The page does not start while it connects or records,   *)
(* and a stop ends what its refs hold.  So as long as no start is granted  *)
(* its microphone after a stop, the only one that asks or runs is the      *)
(* latest, and it is the one in the refs; and such a grant disturbs only   *)
(* starts that are no earlier than its own.  The id of a session is read   *)
(* once; from then on the session is the one in the ref, or its DELETE was *)
(* sent, or the ref was given to another.  A session that was closed has   *)
(* no attempts left, so that it reaches Deepgram again only by the timer   *)
(* that close() found running.                                             *)
(***************************************************************************)

Places == {"off", "asking", "unwanted", "fetching", "connected", "reading", "aborted", "ended",
           "mute"}
\* A start that has not got its microphone.
Early == {"off", "asking", "unwanted"}
VoiceSessions ==
  [at : {"none", "asked", "open", "closed", "failed"},
   ws : {"none", "connecting", "open", "closing", "waiting", "closed"},
   attempts : 0..MaxReconnects, closed : BOOLEAN, timer : BOOLEAN]

\* What close() leaves of a session.
ClosedFits(s) ==
  s.closed => /\ s.at = "closed"
              /\ s.timer \/ /\ s.attempts = MaxReconnects
                            /\ s.ws \notin {"connecting", "open", "waiting"}

\* Only a session has a socket.
SocketFits(s) == s.ws # "none" => s.at # "none"

\* A start that has not got its microphone has no session, nor has one to come.
StartFits(a) ==
  /\ a > starts => start[a] = "off"
  /\ start[a] \in Early => a \notin mics /\ session[a].at = "none"

\* No start up to a was granted its microphone after a stop.
Clean(a) == \A b \in late : b > a
Active(a) == start[a] = "asking" \/ Voice!Running(a)

\* Such a start is the latest if it asks or runs, and the refs hold it when it runs.
PageFits(a) ==
  Clean(a) /\ Active(a) =>
    /\ a = starts
    /\ recording \/ (connecting /\ ~Voice!Running(a))
    /\ Voice!Running(a) => a = micRef

\* The id of a session that the page has read: what became of it.
IdFits(a) ==
  /\ start[a] \in Early \cup {"fetching", "connected"} => ids[a] = "unread"
  /\ start[a] \in {"connected", "reading"} \/ ids[a] # "unread" =>
       session[a].at \in {"open", "closed"}
  /\ sessionRef = a \/ deletes[a] # "none" => ids[a] # "unread"
  /\ ids[a] = "read" /\ session[a].at = "open" =>
       deletes[a] = "sent" \/ (sessionRef = a /\ start[a] = "reading")
  /\ deletes[a] = "answered" => session[a].at # "open" \/ ids[a] = "lost"

VoiceInv ==
  /\ Voice!TypeOK
  /\ abortRef = micRef
  /\ \A a \in Voice!Starts : /\ StartFits(a) /\ PageFits(a) /\ IdFits(a)
                             /\ ClosedFits(session[a]) /\ SocketFits(session[a])

\* What the type invariant says, in the names above.
LEMMA VoiceTypes ==
  /\ Voice!Starts \subseteq Nat \ {0} /\ Voice!Refs = {0} \cup Voice!Starts
  /\ Voice!TypeOK <=>
       /\ start \in [Voice!Starts -> Places] /\ starts \in Voice!Refs
       /\ recording \in BOOLEAN /\ connecting \in BOOLEAN /\ silence \in BOOLEAN
       /\ mics \subseteq Voice!Starts /\ late \subseteq Voice!Starts
       /\ ids \in [Voice!Starts -> {"unread", "read", "lost"}]
       /\ micRef \in Voice!Refs /\ abortRef \in Voice!Refs /\ sessionRef \in Voice!Refs
       /\ deletes \in [Voice!Starts -> {"none", "sent", "answered"}]
       /\ session \in [Voice!Starts -> VoiceSessions] /\ drops \in 0..MaxDrops
<1>1. /\ Voice!Starts \subseteq Nat \ {0} /\ Voice!Refs = {0} \cup Voice!Starts
  BY PlatformAssumption DEF Voice!Starts, Voice!Refs
<1>. QED  BY <1>1 DEF Voice!TypeOK, Places, VoiceSessions

\* The invariant says what is left over.
LEMMA VoiceInvFollows == VoiceInv => Voice!LeftoversHaveReason
<1>. SUFFICES ASSUME VoiceInv, NEW a \in Voice!Starts
              PROVE  /\ Voice!Running(a) /\ a # micRef => \E b \in late : b <= a
                     /\ session[a].at = "open" /\ start[a] \in {"aborted", "ended"}
                        /\ ids[a] = "read" => deletes[a] = "sent"
                     /\ session[a].closed /\ session[a].ws \in {"connecting", "open"}
                          => session[a].timer
  BY DEF Voice!LeftoversHaveReason
<1>1. a \in Nat /\ \A b \in late : b \in Nat
  BY VoiceTypes DEF VoiceInv
<1>2. ~Clean(a) => \E b \in late : b <= a
  BY <1>1 DEF Clean
<1>3. Voice!Running(a) /\ a # micRef => ~Clean(a)
  BY DEF VoiceInv, PageFits, Active
<1>. QED  BY <1>2, <1>3 DEF VoiceInv, IdFits, ClosedFits

\* The initial states: nothing was started.
LEMMA VoiceInit == Voice!Init => VoiceInv
<1>. SUFFICES ASSUME Voice!Init PROVE VoiceInv
  OBVIOUS
<1>1. /\ Voice!NoSession \in VoiceSessions /\ ~Voice!NoSession.closed
      /\ Voice!NoSession.at = "none" /\ Voice!NoSession.ws = "none"
  BY PlatformAssumption DEF Voice!NoSession, VoiceSessions
<1>2. /\ session = [a \in Voice!Starts |-> Voice!NoSession]
      /\ start = [a \in Voice!Starts |-> "off"] /\ mics = {} /\ abortRef = micRef
      /\ ids = [a \in Voice!Starts |-> "unread"] /\ sessionRef = 0
      /\ deletes = [a \in Voice!Starts |-> "none"]
  BY DEF Voice!Init
<1>3. /\ start \in [Voice!Starts -> Places] /\ session \in [Voice!Starts -> VoiceSessions]
      /\ deletes \in [Voice!Starts -> {"none", "sent", "answered"}]
      /\ ids \in [Voice!Starts -> {"unread", "read", "lost"}]
  BY <1>1, <1>2 DEF Places
<1>4. /\ starts \in Voice!Refs /\ micRef \in Voice!Refs /\ abortRef \in Voice!Refs
      /\ sessionRef \in Voice!Refs /\ drops \in 0..MaxDrops /\ mics \subseteq Voice!Starts
      /\ late \subseteq Voice!Starts
      /\ recording \in BOOLEAN /\ connecting \in BOOLEAN /\ silence \in BOOLEAN
  <2>1. 0 \in Voice!Refs /\ 0 \in 0..MaxDrops
    BY PlatformAssumption DEF Voice!Refs
  <2>2. recording = FALSE /\ connecting = FALSE /\ silence = FALSE
    BY DEF Voice!Init
  <2>. QED  BY <2>1, <2>2 DEF Voice!Init
<1>5. Voice!TypeOK
  BY <1>3, <1>4, VoiceTypes
<1>6. ASSUME NEW a \in Voice!Starts
      PROVE  /\ StartFits(a) /\ PageFits(a) /\ IdFits(a)
             /\ ClosedFits(session[a]) /\ SocketFits(session[a])
  <2>1. a # 0
    BY VoiceTypes
  <2>. QED  BY <1>1, <1>2, <2>1
            DEF StartFits, PageFits, Active, Voice!Running, IdFits, ClosedFits, SocketFits
<1>. QED  BY <1>2, <1>5, <1>6 DEF VoiceInv

\* stopTranscription: what the refs hold ends, and so does what had no reason to go on.
\* The start that stops may be over by then, or be left without a recorder.
LEMMA VoiceStops ==
  ASSUME VoiceInv, NEW starting \in [Voice!Starts -> Places], NEW tracks \in SUBSET Voice!Starts,
         \A a \in Voice!Starts :
           \/ starting[a] = start[a] /\ (a \in tracks <=> a \in mics)
           \/ /\ start[a] \notin {"off", "mute"} /\ starting[a] = "ended"
              /\ a \in tracks <=> a \in mics
           \/ start[a] # "off" /\ starting[a] = "mute",
         Voice!Stop(starting, tracks), UNCHANGED <<session, drops>>
  PROVE  VoiceInv'
<1>1. /\ recording' = FALSE /\ connecting' = FALSE /\ silence' = FALSE
      /\ mics' = tracks \ {micRef} /\ micRef' = 0 /\ abortRef' = 0
      /\ start' = Voice!Aborts(starting)
      /\ deletes' = IF sessionRef = 0 THEN deletes ELSE [deletes EXCEPT ![sessionRef] = "sent"]
      /\ UNCHANGED <<starts, sessionRef, late, ids, session, drops>>
  BY DEF Voice!Stop
<1>2. start' \in [Voice!Starts -> Places]
  BY <1>1 DEF Voice!Aborts, Places
<1>3. \A a \in Voice!Starts :
        start'[a] = CASE a = abortRef /\ starting[a] \in {"fetching", "connected", "reading"}
                           -> "aborted"
                      [] starting[a] = "asking" -> "unwanted"
                      [] OTHER -> starting[a]
  BY <1>1 DEF Voice!Aborts
<1>4. /\ deletes' \in [Voice!Starts -> {"none", "sent", "answered"}]
      /\ \A a \in Voice!Starts : deletes'[a] = IF sessionRef = a THEN "sent" ELSE deletes[a]
  BY <1>1, VoiceTypes DEF VoiceInv
<1>5. Voice!TypeOK'
  <2>1. /\ Voice!TypeOK /\ micRef' \in Voice!Refs /\ abortRef' \in Voice!Refs
        /\ mics' \subseteq Voice!Starts
    BY <1>1, VoiceTypes DEF VoiceInv
  <2>2. /\ session' \in [Voice!Starts -> VoiceSessions] /\ drops' \in 0..MaxDrops
        /\ starts' \in Voice!Refs /\ sessionRef' \in Voice!Refs
        /\ late' \subseteq Voice!Starts /\ ids' \in [Voice!Starts -> {"unread", "read", "lost"}]
    BY <1>1, <2>1, VoiceTypes
  <2>. QED  BY <1>1, <1>2, <1>4, <2>1, <2>2 DEF Voice!TypeOK, Places, VoiceSessions
<1>6. ASSUME NEW a \in Voice!Starts PROVE StartFits(a)'
  <2>1. start'[a] \in Early => start[a] \in Early /\ a \notin mics'
    BY <1>1, <1>3 DEF VoiceInv, StartFits, Early
  <2>2. start[a] = "off" => start'[a] = "off"
    BY <1>3
  <2>. QED  BY <1>1, <2>1, <2>2 DEF VoiceInv, StartFits
<1>7. ASSUME NEW a \in Voice!Starts, Clean(a) PROVE ~Active(a)'
  <2>1. start'[a] # "asking"
    BY <1>3
  <2>2. Voice!Running(a) => a = micRef /\ a = abortRef
    BY <1>7 DEF VoiceInv, PageFits, Active
  <2>3. start'[a] \notin {"fetching", "connected", "reading"}
    <3>1. start'[a] \in {"fetching", "connected", "reading"} => start'[a] = start[a]
      BY <1>3
    <3>2. start[a] \in {"fetching", "connected", "reading"} => a = abortRef
      BY <2>2 DEF Voice!Running
    <3>. QED  BY <1>3, <3>1, <3>2
  <2>4. ~(a \in mics' /\ start'[a] # "mute")
    <3>1. SUFFICES ASSUME a \in mics', start'[a] # "mute" PROVE FALSE
      OBVIOUS
    <3>2. starting[a] # "mute" /\ a \in mics /\ a # micRef
      BY <1>1, <1>3, <3>1
    <3>3. start[a] = "mute"
      BY <2>2, <3>2 DEF Voice!Running
    <3>. QED  BY <3>2, <3>3
  <2>. QED  BY <2>1, <2>3, <2>4 DEF Active, Voice!Running
<1>8. ASSUME NEW a \in Voice!Starts PROVE PageFits(a)'
  BY <1>1, <1>7 DEF PageFits, Clean
<1>9. ASSUME NEW a \in Voice!Starts PROVE IdFits(a)'
  <2>1. /\ start'[a] \in Early \cup {"fetching", "connected"} =>
             start[a] \in Early \cup {"fetching", "connected"}
        /\ start'[a] \in {"connected", "reading"} => start'[a] = start[a]
    BY <1>3 DEF Early
  <2>2. sessionRef' = a \/ deletes'[a] # "none" => ids'[a] # "unread"
    BY <1>1, <1>4 DEF VoiceInv, IdFits
  <2>3. ids'[a] = "read" /\ session'[a].at = "open" => deletes'[a] = "sent"
    BY <1>1, <1>4 DEF VoiceInv, IdFits
  <2>4. deletes'[a] = "answered" => session'[a].at # "open" \/ ids'[a] = "lost"
    BY <1>1, <1>4 DEF VoiceInv, IdFits
  <2>. QED  BY <1>1, <2>1, <2>2, <2>3, <2>4 DEF VoiceInv, IdFits
<1>. QED  BY <1>1, <1>5, <1>6, <1>8, <1>9 DEF VoiceInv

\* A step that changes one session and what waits for it.
LEMMA VoiceSession ==
  ASSUME VoiceInv, NEW a \in Voice!Starts, NEW s \in VoiceSessions,
         session' = [session EXCEPT ![a] = s], ClosedFits(s), s.at # "none",
         session[a].at # "none", drops' \in 0..MaxDrops,
         s.at = "open" => session[a].at \in {"open", "asked"},
         session[a].at \in {"open", "closed"} => s.at \in {"open", "closed"},
         UNCHANGED <<start, starts, recording, connecting, mics, micRef, abortRef, sessionRef,
                     late, ids, silence>>,
         \/ UNCHANGED deletes
         \/ /\ deletes[a] = "sent" /\ deletes' = [deletes EXCEPT ![a] = "answered"]
            /\ s.at # "open"
  PROVE  VoiceInv'
<1>1. /\ session' \in [Voice!Starts -> VoiceSessions] /\ session'[a] = s
      /\ \A b \in Voice!Starts \ {a} : session'[b] = session[b]
  BY VoiceTypes DEF VoiceInv
<1>2. /\ deletes' \in [Voice!Starts -> {"none", "sent", "answered"}]
      /\ \A b \in Voice!Starts \ {a} : deletes'[b] = deletes[b]
      /\ \/ deletes'[a] = deletes[a]
         \/ deletes[a] = "sent" /\ deletes'[a] = "answered" /\ s.at # "open"
  BY VoiceTypes DEF VoiceInv
<1>3. Voice!TypeOK'
  BY <1>1, <1>2, VoiceTypes DEF VoiceInv, Voice!TypeOK, Places, VoiceSessions
<1>4. \A b \in Voice!Starts : StartFits(b)'
  BY <1>1 DEF VoiceInv, StartFits
<1>5. \A b \in Voice!Starts : PageFits(b)'
  BY DEF VoiceInv, PageFits, Clean, Active, Voice!Running
<1>6. ASSUME NEW b \in Voice!Starts PROVE IdFits(b)'
  <2>1. CASE b # a
    BY <1>1, <1>2, <2>1 DEF VoiceInv, IdFits
  <2>2. CASE b = a
    <3>1. /\ start'[a] = start[a] /\ ids'[a] = ids[a] /\ sessionRef' = sessionRef
          /\ session'[a].at = s.at /\ IdFits(a)
      BY <1>1 DEF VoiceInv
    <3>2. ids[a] # "unread" => session[a].at \in {"open", "closed"}
      BY <3>1 DEF IdFits
    <3>. QED  BY <1>2, <2>2, <3>1, <3>2 DEF IdFits
  <2>. QED  BY <2>1, <2>2
<1>7. \A b \in Voice!Starts : ClosedFits(session[b])' /\ SocketFits(session[b])'
  BY <1>1 DEF VoiceInv, ClosedFits, SocketFits
<1>. QED  BY <1>3, <1>4, <1>5, <1>6, <1>7 DEF VoiceInv

\* A step of the page that stops nothing and starts nothing.
LEMMA VoiceOnward ==
  ASSUME VoiceInv,
         UNCHANGED <<starts, recording, mics, micRef, abortRef, late, session, drops>>,
         start' \in [Voice!Starts -> Places],
         \A b \in Voice!Starts :
           \/ start'[b] = start[b]
           \/ start[b] \in {"fetching", "connected"} /\ start'[b] \in {"connected", "reading"},
         connecting' = connecting \/ \A b \in Voice!Starts : Clean(b) => start[b] # "asking",
         connecting' \in BOOLEAN, silence' \in BOOLEAN,
         sessionRef' \in Voice!Refs, ids' \in [Voice!Starts -> {"unread", "read", "lost"}],
         deletes' \in [Voice!Starts -> {"none", "sent", "answered"}],
         \A b \in Voice!Starts : IdFits(b)'
  PROVE  VoiceInv'
<1>1. Voice!TypeOK'
  BY VoiceTypes DEF VoiceInv, Voice!TypeOK, Places, VoiceSessions
<1>2. \A b \in Voice!Starts : StartFits(b)' /\ ClosedFits(session[b])' /\ SocketFits(session[b])'
  BY DEF VoiceInv, StartFits, Early, ClosedFits, SocketFits
<1>3. ASSUME NEW b \in Voice!Starts PROVE PageFits(b)'
  <2>1. (Voice!Running(b)' <=> Voice!Running(b)) /\ (start'[b] = "asking" <=> start[b] = "asking")
    BY DEF Voice!Running
  <2>2. Clean(b)' <=> Clean(b)
    BY DEF Clean
  <2>. QED  BY <2>1, <2>2 DEF VoiceInv, PageFits, Active
<1>. QED  BY <1>1, <1>2, <1>3 DEF VoiceInv

\* A call of startTranscription: no other start asks or runs that has no reason to.
LEMMA VoiceStarts == VoiceInv /\ Voice!StartTranscription => VoiceInv'
<1>. SUFFICES ASSUME VoiceInv, Voice!StartTranscription PROVE VoiceInv'
  OBVIOUS
<1>1. /\ starts < MaxStarts /\ starts' = starts + 1 /\ ~recording /\ ~connecting
      /\ start' = [start EXCEPT ![starts + 1] = "asking"] /\ connecting' = TRUE
      /\ UNCHANGED <<recording, mics, micRef, abortRef, sessionRef, late, ids, silence, deletes,
                     session, drops>>
  BY DEF Voice!StartTranscription
<1>2. starts \in Nat /\ starts + 1 \in Voice!Starts
  BY <1>1, VoiceTypes, PlatformAssumption DEF VoiceInv, Voice!Starts
<1>3. /\ start' \in [Voice!Starts -> Places] /\ start'[starts + 1] = "asking"
      /\ \A a \in Voice!Starts \ {starts + 1} : start'[a] = start[a]
  BY <1>1, <1>2, VoiceTypes DEF VoiceInv, Places
<1>4. /\ start[starts + 1] = "off" /\ session[starts + 1].at = "none"
      /\ starts + 1 \notin mics
  BY <1>2 DEF VoiceInv, StartFits, Early
<1>5. Voice!TypeOK'
  BY <1>1, <1>2, <1>3, VoiceTypes DEF VoiceInv, Voice!TypeOK, Places, VoiceSessions
<1>6. ASSUME NEW a \in Voice!Starts
      PROVE  StartFits(a)' /\ ClosedFits(session[a])' /\ SocketFits(session[a])'
  <2>1. a \in Nat
    BY VoiceTypes
  <2>. QED  BY <1>1, <1>2, <1>3, <1>4, <2>1 DEF VoiceInv, StartFits, Early, ClosedFits, SocketFits
<1>7. ASSUME NEW a \in Voice!Starts PROVE PageFits(a)'
  <2>1. CASE a = starts + 1
    BY <1>1, <1>3, <1>4, <2>1 DEF PageFits, Voice!Running
  <2>2. CASE a # starts + 1
    <3>1. (Active(a)' <=> Active(a)) /\ (Clean(a)' <=> Clean(a))
      BY <1>1, <1>3, <2>2 DEF Active, Clean, Voice!Running
    <3>2. ~(Clean(a) /\ Active(a))
      BY <1>1 DEF VoiceInv, PageFits
    <3>. QED  BY <3>1, <3>2 DEF PageFits
  <2>. QED  BY <2>1, <2>2
<1>8. ASSUME NEW a \in Voice!Starts PROVE IdFits(a)'
  BY <1>1, <1>3, <1>4 DEF VoiceInv, IdFits, Early
<1>. QED  BY <1>1, <1>5, <1>6, <1>7, <1>8 DEF VoiceInv

\* A microphone is granted: the start is the latest, or it disturbs those after it, and
\* then it was granted after a stop, or another before it was.
LEMMA VoiceGranted ==
  ASSUME VoiceInv, NEW a \in Voice!Starts, Voice!MicrophoneGranted(a)
  PROVE  VoiceInv'
<1>1. /\ start[a] \in {"asking", "unwanted"} /\ start' = [start EXCEPT ![a] = "fetching"]
      /\ late' = IF start[a] = "unwanted" THEN late \cup {a} ELSE late
      /\ mics' = mics \cup {a} /\ micRef' = a /\ abortRef' = a /\ recording' = TRUE
      /\ session' = [session EXCEPT ![a].at = "asked"]
      /\ UNCHANGED <<starts, connecting, sessionRef, ids, silence, deletes, drops>>
  BY DEF Voice!MicrophoneGranted
<1>. DEFINE s == [session[a] EXCEPT !.at = "asked"]
<1>2. /\ session \in [Voice!Starts -> VoiceSessions] /\ session[a] \in VoiceSessions
      /\ start \in [Voice!Starts -> Places] /\ mics \subseteq Voice!Starts
      /\ late \subseteq Voice!Starts /\ Voice!Starts \subseteq Nat /\ starts \in Nat
  <2>1. Voice!Starts \subseteq Nat \ {0} /\ Voice!Refs = {0} \cup Voice!Starts
    BY VoiceTypes
  <2>2. starts \in Voice!Refs
    BY VoiceTypes DEF VoiceInv
  <2>3. Voice!Starts \subseteq Nat /\ starts \in Nat
    BY <2>1, <2>2
  <2>. QED  BY <2>3, VoiceTypes DEF VoiceInv
<1>3. /\ session[a].at = "none" /\ ~session[a].closed /\ ids[a] = "unread" /\ deletes[a] = "none"
      /\ sessionRef # a
  BY <1>1 DEF VoiceInv, StartFits, IdFits, Early, ClosedFits, SocketFits
<1>4. s \in VoiceSessions /\ s.closed = session[a].closed /\ session' = [session EXCEPT ![a] = s]
      /\ s.at = "asked"
  BY <1>1, <1>2 DEF VoiceSessions
<1>. HIDE DEF s
<1>5. /\ session' \in [Voice!Starts -> VoiceSessions] /\ session'[a] = s
      /\ start' \in [Voice!Starts -> Places] /\ start'[a] = "fetching"
      /\ \A b \in Voice!Starts \ {a} : session'[b] = session[b] /\ start'[b] = start[b]
  BY <1>1, <1>2, <1>4 DEF Places
<1>6. Voice!TypeOK'
  BY <1>1, <1>2, <1>5, VoiceTypes DEF VoiceInv, Voice!TypeOK, Places, VoiceSessions
<1>7. \A b \in Voice!Starts : StartFits(b)' /\ ClosedFits(session[b])' /\ SocketFits(session[b])'
  BY <1>1, <1>3, <1>4, <1>5 DEF VoiceInv, StartFits, Early, ClosedFits, SocketFits
<1>8. a <= starts
  BY <1>1, <1>2 DEF VoiceInv, StartFits
<1>9. ASSUME NEW b \in Voice!Starts PROVE PageFits(b)'
  <2>. SUFFICES ASSUME Clean(b)', Active(b)'
                PROVE  b = starts /\ b = a
    BY <1>1 DEF PageFits
  <2>1. Clean(b)
    BY <1>1 DEF Clean
  <2>2. start[a] = "unwanted" => a > b
    BY <1>1 DEF Clean
  <2>3. CASE b = a
    <3>1. start[a] = "asking"
      BY <1>1, <1>2, <2>2, <2>3
    <3>2. Active(a) /\ Clean(a)
      BY <2>1, <2>3, <3>1 DEF Active
    <3>. QED  BY <2>3, <3>2 DEF VoiceInv, PageFits
  <2>4. CASE b # a
    <3>1. Active(b)
      BY <1>1, <1>5, <2>4 DEF Active, Voice!Running
    <3>2. b = starts
      BY <2>1, <3>1 DEF VoiceInv, PageFits
    <3>3. start[a] = "asking" /\ a < b
      BY <1>1, <1>2, <1>8, <2>2, <2>4, <3>2
    <3>4. Clean(a)
      BY <1>2, <2>1, <3>3 DEF Clean
    <3>5. a = starts
      BY <3>3, <3>4 DEF VoiceInv, PageFits, Active
    <3>. QED  BY <2>4, <3>2, <3>5
  <2>. QED  BY <2>3, <2>4
<1>10. ASSUME NEW b \in Voice!Starts PROVE IdFits(b)'
  <2>1. CASE b = a
    BY <1>1, <1>3, <1>4, <1>5, <2>1 DEF IdFits
  <2>2. CASE b # a
    BY <1>1, <1>5, <2>2 DEF VoiceInv, IdFits
  <2>. QED  BY <2>1, <2>2
<1>. QED  BY <1>1, <1>6, <1>7, <1>9, <1>10 DEF VoiceInv

\* The page's steps that stop.
LEMMA VoicePageStops ==
  ASSUME VoiceInv,
         \/ Voice!StopByUser \/ Voice!SilenceTimeOut
         \/ \E a \in Voice!Starts : Voice!Fails(a) \/ Voice!NoRecorder(a) \/ Voice!ReadClose(a)
  PROVE  VoiceInv'
<1>1. start \in [Voice!Starts -> Places] /\ mics \in SUBSET Voice!Starts
  BY VoiceTypes DEF VoiceInv
<1>2. CASE Voice!StopByUser \/ Voice!SilenceTimeOut
  BY <1>1, <1>2, VoiceStops DEF Voice!StopByUser, Voice!SilenceTimeOut
<1>3. ASSUME NEW a \in Voice!Starts, Voice!Fails(a) \/ Voice!ReadClose(a) PROVE VoiceInv'
  <2>. DEFINE starting == [start EXCEPT ![a] = "ended"]
  <2>1. /\ start[a] # "off" /\ start[a] # "mute"
        /\ Voice!Stop(starting, mics) /\ UNCHANGED <<session, drops>>
    BY <1>3 DEF Voice!Fails, Voice!ReadClose
  <2>2. /\ starting \in [Voice!Starts -> Places] /\ starting[a] = "ended"
        /\ \A b \in Voice!Starts \ {a} : starting[b] = start[b]
    BY <1>1 DEF Places
  <2>. HIDE DEF starting
  <2>. QED  BY <1>1, <2>1, <2>2, VoiceStops
<1>4. ASSUME NEW a \in Voice!Starts, Voice!NoRecorder(a) PROVE VoiceInv'
  <2>. DEFINE starting == [start EXCEPT ![a] = "mute"]
              tracks == mics \cup {a}
  <2>1. /\ start[a] # "off"
        /\ Voice!Stop(starting, tracks) /\ UNCHANGED <<session, drops>>
    BY <1>4 DEF Voice!NoRecorder
  <2>2. /\ starting \in [Voice!Starts -> Places] /\ starting[a] = "mute"
        /\ \A b \in Voice!Starts \ {a} : starting[b] = start[b]
    BY <1>1 DEF Places
  <2>3. tracks \in SUBSET Voice!Starts /\ \A b \in Voice!Starts \ {a} : b \in tracks <=> b \in mics
    BY <1>1
  <2>. HIDE DEF starting, tracks
  <2>. QED  BY <2>1, <2>2, <2>3, VoiceStops
<1>. QED  BY <1>2, <1>3, <1>4

\* What the page loses with the id in its ref.
LEMMA VoiceForgets ==
  ASSUME VoiceInv
  PROVE  /\ Voice!Forgets \in [Voice!Starts -> {"unread", "read", "lost"}]
         /\ \A b \in Voice!Starts :
              Voice!Forgets[b] = IF sessionRef = b /\ deletes[b] # "sent" THEN "lost" ELSE ids[b]
<1>1. /\ ids \in [Voice!Starts -> {"unread", "read", "lost"}]
      /\ sessionRef \in {0} \cup Voice!Starts /\ 0 \notin Voice!Starts
  BY VoiceTypes DEF VoiceInv
<1>2. CASE sessionRef # 0 /\ deletes[sessionRef] # "sent"
  <2>1. sessionRef \in Voice!Starts /\ Voice!Forgets = [ids EXCEPT ![sessionRef] = "lost"]
    BY <1>1, <1>2 DEF Voice!Forgets
  <2>. QED  BY <1>1, <1>2, <2>1
<1>3. CASE ~(sessionRef # 0 /\ deletes[sessionRef] # "sent")
  <2>1. Voice!Forgets = ids
    BY <1>3 DEF Voice!Forgets
  <2>. QED  BY <1>1, <1>3, <2>1
<1>. QED  BY <1>2, <1>3

\* The stream of a start: its answer, its "ready", its words.
LEMMA VoiceStream ==
  ASSUME VoiceInv, NEW a \in Voice!Starts,
         Voice!Connected(a) \/ Voice!ReadReady(a) \/ Voice!ReadTranscription(a)
  PROVE  VoiceInv'
<1>1. /\ start \in [Voice!Starts -> Places] /\ Voice!Refs = {0} \cup Voice!Starts
      /\ connecting \in BOOLEAN /\ silence \in BOOLEAN /\ sessionRef \in Voice!Refs
      /\ ids \in [Voice!Starts -> {"unread", "read", "lost"}]
      /\ deletes \in [Voice!Starts -> {"none", "sent", "answered"}]
      /\ Voice!Starts \subseteq Nat \ {0} /\ late \subseteq Nat /\ starts \in Nat
  <2>1. Voice!Starts \subseteq Nat \ {0} /\ Voice!Refs = {0} \cup Voice!Starts
    BY VoiceTypes
  <2>2. late \subseteq Voice!Starts /\ starts \in Voice!Refs
    BY VoiceTypes DEF VoiceInv
  <2>3. late \subseteq Nat /\ starts \in Nat
    BY <2>1, <2>2
  <2>. QED  BY <2>1, <2>3, VoiceTypes DEF VoiceInv
<1>2. CASE Voice!Connected(a)
  <2>1. /\ start[a] = "fetching" /\ session[a].at = "open" /\ connecting' = FALSE
        /\ start' = [start EXCEPT ![a] = "connected"]
        /\ UNCHANGED <<starts, recording, mics, micRef, abortRef, sessionRef, late, ids, silence,
                       deletes, session, drops>>
    BY <1>2 DEF Voice!Connected
  <2>2. /\ start' \in [Voice!Starts -> Places] /\ start'[a] = "connected"
        /\ \A b \in Voice!Starts \ {a} : start'[b] = start[b]
    BY <1>1, <2>1 DEF Places
  <2>3. ASSUME NEW b \in Voice!Starts, Clean(b), start[b] = "asking" PROVE FALSE
    <3>1. b = starts /\ a <= starts
      BY <1>1, <2>1, <2>3 DEF VoiceInv, StartFits, PageFits, Active
    <3>2. Clean(a)
      BY <1>1, <2>3, <3>1 DEF Clean
    <3>3. a = starts
      BY <2>1, <3>2 DEF VoiceInv, PageFits, Active, Voice!Running
    <3>. QED  BY <2>1, <2>3, <3>1, <3>3
  <2>4. ASSUME NEW b \in Voice!Starts PROVE IdFits(b)'
    BY <2>1, <2>2 DEF VoiceInv, IdFits, Early
  <2>. QED  BY <1>1, <2>1, <2>2, <2>3, <2>4, VoiceOnward
<1>3. CASE Voice!ReadReady(a)
  <2>1. /\ start[a] = "connected" /\ start' = [start EXCEPT ![a] = "reading"]
        /\ sessionRef' = a /\ ids' = [Voice!Forgets EXCEPT ![a] = "read"]
        /\ UNCHANGED <<starts, recording, connecting, mics, micRef, abortRef, late, silence,
                       deletes, session, drops>>
    BY <1>3 DEF Voice!ReadReady
  <2>2. /\ start' \in [Voice!Starts -> Places] /\ start'[a] = "reading"
        /\ \A b \in Voice!Starts \ {a} : start'[b] = start[b]
    BY <1>1, <2>1 DEF Places
  <2>3. /\ ids' \in [Voice!Starts -> {"unread", "read", "lost"}] /\ ids'[a] = "read"
        /\ \A b \in Voice!Starts \ {a} :
             ids'[b] = IF sessionRef = b /\ deletes[b] # "sent" THEN "lost" ELSE ids[b]
    BY <1>1, <2>1, VoiceForgets
  <2>4. ids[a] = "unread" /\ deletes[a] = "none" /\ session[a].at \in {"open", "closed"}
    BY <2>1 DEF VoiceInv, IdFits
  <2>5. ASSUME NEW b \in Voice!Starts PROVE IdFits(b)'
    <3>1. CASE b = a
      BY <2>1, <2>2, <2>3, <2>4, <3>1 DEF IdFits, Early
    <3>2. CASE b # a
      BY <2>1, <2>2, <2>3, <3>2 DEF VoiceInv, IdFits
    <3>. QED  BY <3>1, <3>2
  <2>. QED  BY <1>1, <2>1, <2>2, <2>3, <2>5, VoiceOnward
<1>4. CASE Voice!ReadTranscription(a)
  <2>1. /\ silence' = TRUE
        /\ UNCHANGED <<start, starts, recording, connecting, mics, micRef, abortRef, sessionRef,
                       late, ids, deletes, session, drops>>
    BY <1>4 DEF Voice!ReadTranscription
  <2>2. \A b \in Voice!Starts : IdFits(b)'
    BY <2>1 DEF VoiceInv, IdFits
  <2>. QED  BY <1>1, <2>1, <2>2, VoiceOnward
<1>. QED  BY <1>2, <1>3, <1>4

\* The answers of a DELETE.
LEMMA VoiceDeleted ==
  ASSUME VoiceInv, NEW a \in Voice!Starts, Voice!Deleted(a) \/ Voice!DeleteFails(a)
  PROVE  VoiceInv'
<1>1. /\ start \in [Voice!Starts -> Places] /\ Voice!Refs = {0} \cup Voice!Starts
      /\ connecting \in BOOLEAN /\ silence \in BOOLEAN /\ sessionRef \in Voice!Refs
      /\ ids \in [Voice!Starts -> {"unread", "read", "lost"}]
      /\ deletes \in [Voice!Starts -> {"none", "sent", "answered"}]
  BY VoiceTypes DEF VoiceInv
<1>2. CASE Voice!Deleted(a)
  <2>1. /\ deletes[a] = "answered" /\ deletes' = [deletes EXCEPT ![a] = "none"]
        /\ sessionRef' = 0 /\ ids' = IF sessionRef = a THEN ids ELSE Voice!Forgets
        /\ UNCHANGED <<start, starts, recording, connecting, mics, micRef, abortRef, late,
                       silence, session, drops>>
    BY <1>2 DEF Voice!Deleted
  <2>2. /\ deletes' \in [Voice!Starts -> {"none", "sent", "answered"}] /\ deletes'[a] = "none"
        /\ \A b \in Voice!Starts \ {a} : deletes'[b] = deletes[b]
    BY <1>1, <2>1
  <2>3. /\ ids' \in [Voice!Starts -> {"unread", "read", "lost"}]
        /\ ids'[a] = ids[a]
        /\ \A b \in Voice!Starts \ {a} :
             ids'[b] = IF sessionRef = b /\ deletes[b] # "sent" THEN "lost" ELSE ids[b]
    BY <1>1, <2>1, VoiceForgets
  <2>4. ASSUME NEW b \in Voice!Starts PROVE IdFits(b)'
    <3>1. sessionRef' # b
      BY <2>1, VoiceTypes
    <3>2. CASE b = a
      BY <2>1, <2>2, <2>3, <3>1, <3>2 DEF VoiceInv, IdFits
    <3>3. CASE b # a
      BY <2>1, <2>2, <2>3, <3>1, <3>3 DEF VoiceInv, IdFits
    <3>. QED  BY <3>2, <3>3
  <2>. QED  BY <1>1, <2>1, <2>2, <2>3, <2>4, VoiceOnward
<1>3. CASE Voice!DeleteFails(a)
  <2>1. /\ deletes[a] = "sent" /\ deletes' = [deletes EXCEPT ![a] = "answered"]
        /\ ids' = [ids EXCEPT ![a] = "lost"]
        /\ UNCHANGED <<start, starts, recording, connecting, mics, micRef, abortRef, sessionRef,
                       late, silence, session, drops>>
    BY <1>3 DEF Voice!DeleteFails
  <2>2. /\ deletes' \in [Voice!Starts -> {"none", "sent", "answered"}] /\ deletes'[a] = "answered"
        /\ ids' \in [Voice!Starts -> {"unread", "read", "lost"}] /\ ids'[a] = "lost"
        /\ \A b \in Voice!Starts \ {a} : deletes'[b] = deletes[b] /\ ids'[b] = ids[b]
    BY <1>1, <2>1
  <2>3. ASSUME NEW b \in Voice!Starts PROVE IdFits(b)'
    BY <2>1, <2>2 DEF VoiceInv, IdFits
  <2>. QED  BY <1>1, <2>1, <2>2, <2>3, VoiceOnward
<1>. QED  BY <1>2, <1>3

\* The steps of a session.
LEMMA VoiceSessionSteps ==
  ASSUME VoiceInv, NEW a \in Voice!Starts,
         \/ Voice!CreateSession(a) \/ Voice!SocketOpens(a) \/ Voice!SocketDrops(a)
         \/ Voice!SocketClosed(a) \/ Voice!Reconnect(a) \/ Voice!Delete(a)
  PROVE  VoiceInv'
<1>. USE PlatformAssumption DEF Voice!pageVars
<1>1. /\ session \in [Voice!Starts -> VoiceSessions] /\ session[a] \in VoiceSessions
      /\ deletes \in [Voice!Starts -> {"none", "sent", "answered"}] /\ drops \in 0..MaxDrops
      /\ ClosedFits(session[a])
  BY VoiceTypes DEF VoiceInv
<1>2. CASE Voice!CreateSession(a)
  <2>1. PICK s \in VoiceSessions :
          /\ session' = [session EXCEPT ![a] = s] /\ s.closed = session[a].closed
          /\ s.at \in {"open", "failed"}
    <3>. DEFINE failed == [session[a] EXCEPT !.at = "failed"]
                opened == [session[a] EXCEPT !.at = "open"]
                open2 == [opened EXCEPT !.ws = "connecting"]
    <3>1. /\ failed \in VoiceSessions /\ failed.closed = session[a].closed
          /\ open2 \in VoiceSessions /\ open2.closed = session[a].closed
          /\ failed.at = "failed" /\ open2.at = "open"
      BY <1>1 DEF VoiceSessions
    <3>2. \/ session' = [session EXCEPT ![a] = failed]
          \/ session' = [session EXCEPT ![a] = open2]
      BY <1>1, <1>2 DEF Voice!CreateSession
    <3>. HIDE DEF failed, open2
    <3>. QED  BY <3>1, <3>2
  <2>2. session[a].at = "asked" /\ ~session[a].closed
    BY <1>1, <1>2 DEF Voice!CreateSession, ClosedFits
  <2>. QED  BY <1>1, <1>2, <2>1, <2>2, VoiceSession DEF Voice!CreateSession, ClosedFits
\* onclose, of a session that was closed or not.
<1>3. ASSUME Voice!OnClose(a), session[a].at # "none",
             session[a].closed /\ ~session[a].timer => session[a].attempts = MaxReconnects
      PROVE  \E s \in VoiceSessions :
               /\ session' = [session EXCEPT ![a] = s] /\ ClosedFits(s)
               /\ s.at \in {session[a].at, "closed"}
  <2>. DEFINE old == session[a]
              again1 == [old EXCEPT !.ws = "waiting"]
              again == [again1 EXCEPT !.attempts = old.attempts + 1]
              closed1 == [old EXCEPT !.ws = "closed"]
              closed2 == [closed1 EXCEPT !.at = "closed"]
  <2>1. session' = [session EXCEPT ![a] = IF old.attempts < MaxReconnects THEN again ELSE closed2]
    <3>1. session' = [session EXCEPT ![a] =
                        IF old.attempts < MaxReconnects
                        THEN [old EXCEPT !.ws = "waiting", !.attempts = old.attempts + 1]
                        ELSE [old EXCEPT !.ws = "closed", !.at = "closed"]]
      BY <1>1, <1>3 DEF Voice!OnClose
    <3>2. /\ again = [old EXCEPT !.ws = "waiting", !.attempts = old.attempts + 1]
          /\ closed2 = [old EXCEPT !.ws = "closed", !.at = "closed"]
      OBVIOUS
    <3>. QED  BY <3>1, <3>2
  <2>2. CASE old.attempts < MaxReconnects
    <3>1. again1 \in VoiceSessions /\ again1.attempts = old.attempts /\ again1.closed = old.closed
          /\ again1.timer = old.timer /\ again1.at = old.at
      BY <1>1 DEF VoiceSessions
    <3>. HIDE DEF again1
    <3>2. again \in VoiceSessions /\ again.closed = old.closed /\ again.timer = old.timer
          /\ again.at = old.at
      BY <1>1, <2>2, <3>1 DEF VoiceSessions
    <3>3. ClosedFits(again)
      BY <1>1, <1>3, <2>2, <3>2 DEF ClosedFits, VoiceSessions
    <3>. HIDE DEF again
    <3>. QED  BY <1>3, <2>1, <2>2, <3>2, <3>3
  <2>3. CASE ~(old.attempts < MaxReconnects)
    <3>1. /\ closed1 \in VoiceSessions /\ closed1.attempts = old.attempts
          /\ closed1.closed = old.closed /\ closed1.timer = old.timer /\ closed1.ws = "closed"
      BY <1>1 DEF VoiceSessions
    <3>. HIDE DEF closed1
    <3>2. /\ closed2 \in VoiceSessions /\ closed2.closed = old.closed
          /\ closed2.timer = old.timer /\ closed2.at = "closed" /\ closed2.ws = "closed"
          /\ closed2.attempts = old.attempts
      BY <3>1 DEF VoiceSessions
    <3>3. old.attempts \in 0..MaxReconnects
      BY <1>1 DEF VoiceSessions
    <3>4. ClosedFits(closed2)
      BY <1>1, <2>3, <3>2, <3>3 DEF ClosedFits
    <3>. QED  BY <2>1, <2>3, <3>2, <3>4
  <2>. QED  BY <2>2, <2>3
<1>4. CASE Voice!SocketDrops(a) \/ Voice!SocketClosed(a)
  <2>1. session[a].ws # "none" /\ Voice!OnClose(a) /\ drops' \in 0..MaxDrops
    BY <1>1, <1>4 DEF Voice!SocketDrops, Voice!SocketClosed
  <2>2. session[a].at # "none"
    BY <2>1 DEF VoiceInv, SocketFits
  <2>3. PICK s \in VoiceSessions :
          /\ session' = [session EXCEPT ![a] = s] /\ ClosedFits(s)
          /\ s.at \in {session[a].at, "closed"}
    BY <1>1, <1>3, <2>1, <2>2 DEF ClosedFits
  <2>. QED
    BY <1>1, <1>4, <2>1, <2>2, <2>3, VoiceSession DEF Voice!SocketDrops, Voice!SocketClosed
<1>5. CASE Voice!SocketOpens(a)
  <2>. DEFINE first == [session[a] EXCEPT !.ws = "open"]
              s == [first EXCEPT !.attempts = 0]
  <2>1. /\ first \in VoiceSessions /\ first.closed = session[a].closed
        /\ first.timer = session[a].timer /\ first.at = session[a].at
    BY <1>1 DEF VoiceSessions
  <2>2. session' = [session EXCEPT ![a] = s]
    BY <1>1, <1>5 DEF Voice!SocketOpens
  <2>. HIDE DEF first
  <2>3. /\ s \in VoiceSessions /\ s.closed = session[a].closed
        /\ s.timer = session[a].timer /\ s.at = session[a].at
    BY <2>1 DEF VoiceSessions
  <2>. HIDE DEF s
  <2>4. ClosedFits(s) /\ session[a].at # "none"
    BY <1>1, <1>5, <2>3 DEF Voice!SocketOpens, ClosedFits, VoiceInv, SocketFits
  <2>. QED  BY <1>1, <1>5, <2>2, <2>3, <2>4, VoiceSession DEF Voice!SocketOpens
<1>6. CASE Voice!Reconnect(a)
  <2>. DEFINE s == [session[a] EXCEPT !.ws = "connecting"]
  <2>1. /\ s \in VoiceSessions /\ s.closed = session[a].closed
        /\ s.timer = session[a].timer /\ s.at = session[a].at
    BY <1>1 DEF VoiceSessions
  <2>2. session' = [session EXCEPT ![a] = s]
    BY <1>1, <1>6 DEF Voice!Reconnect
  <2>. HIDE DEF s
  <2>3. ClosedFits(s) /\ session[a].at # "none"
    BY <1>1, <1>6, <2>1 DEF Voice!Reconnect, ClosedFits, VoiceInv, SocketFits
  <2>. QED  BY <1>1, <1>6, <2>1, <2>2, <2>3, VoiceSession DEF Voice!Reconnect
<1>7. CASE Voice!Delete(a)
  <2>1. /\ deletes[a] = "sent" /\ deletes' = [deletes EXCEPT ![a] = "answered"]
        /\ UNCHANGED <<start, starts, recording, connecting, mics, micRef, abortRef, sessionRef,
                       late, ids, silence, drops>>
    BY <1>7 DEF Voice!Delete
  <2>2. CASE session[a].at # "open"
    <3>1. session' = session
      BY <1>7, <2>2 DEF Voice!Delete
    <3>2. /\ start \in [Voice!Starts -> Places] /\ sessionRef \in Voice!Refs
          /\ connecting \in BOOLEAN /\ silence \in BOOLEAN
          /\ ids \in [Voice!Starts -> {"unread", "read", "lost"}]
      BY VoiceTypes DEF VoiceInv
    <3>3. /\ deletes' \in [Voice!Starts -> {"none", "sent", "answered"}] /\ deletes'[a] = "answered"
          /\ \A b \in Voice!Starts \ {a} : deletes'[b] = deletes[b]
      BY <1>1, <2>1
    <3>4. ASSUME NEW b \in Voice!Starts PROVE IdFits(b)'
      BY <2>1, <2>2, <3>1, <3>3 DEF VoiceInv, IdFits
    <3>. QED  BY <2>1, <3>1, <3>2, <3>3, <3>4, VoiceOnward
  <2>3. CASE session[a].at = "open"
    <3>. DEFINE old == session[a]
                now == Voice!CloseSocket(old)
                s == [now EXCEPT !.at = "closed"]
    <3>1. session' = [session EXCEPT ![a] = s]
      BY <1>1, <1>7, <2>3 DEF Voice!Delete
    <3>2. /\ now \in VoiceSessions /\ now.attempts = MaxReconnects
          /\ now.timer = (old.ws = "waiting")
          /\ now.ws = IF old.ws \in {"connecting", "open"} THEN "closing" ELSE old.ws
      <4>. DEFINE timed == old.ws = "waiting"
                  ws == IF old.ws \in {"connecting", "open"} THEN "closing" ELSE old.ws
                  step1 == [old EXCEPT !.closed = TRUE]
                  step2 == [step1 EXCEPT !.timer = timed]
                  step3 == [step2 EXCEPT !.attempts = MaxReconnects]
                  step4 == [step3 EXCEPT !.ws = ws]
      <4>1. now = step4
        BY <1>1 DEF VoiceSessions, Voice!CloseSocket
      <4>2. /\ timed \in BOOLEAN
            /\ ws \in {"none", "connecting", "open", "closing", "waiting", "closed"}
        BY <1>1 DEF VoiceSessions
      <4>. HIDE DEF timed, ws
      <4>3. step1 \in VoiceSessions
        BY <1>1 DEF VoiceSessions
      <4>. HIDE DEF step1
      <4>4. step2 \in VoiceSessions /\ step2.timer = timed
        BY <4>2, <4>3 DEF VoiceSessions
      <4>. HIDE DEF step2
      <4>5. /\ step3 \in VoiceSessions /\ step3.timer = timed
            /\ step3.attempts = MaxReconnects
        BY <4>4 DEF VoiceSessions
      <4>. HIDE DEF step3
      <4>6. /\ step4 \in VoiceSessions /\ step4.timer = timed
            /\ step4.attempts = MaxReconnects /\ step4.ws = ws
        BY <4>2, <4>5 DEF VoiceSessions
      <4>. QED  BY <4>1, <4>6 DEF timed, ws
    <3>. HIDE DEF now
    <3>3. /\ s \in VoiceSessions /\ s.attempts = now.attempts /\ s.timer = now.timer
          /\ s.ws = now.ws /\ s.at = "closed"
      BY <3>2 DEF VoiceSessions
    <3>. HIDE DEF s
    <3>4. ClosedFits(s)
      BY <3>2, <3>3 DEF ClosedFits
    <3>. QED  BY <1>1, <1>7, <2>1, <2>3, <3>1, <3>3, <3>4, VoiceSession DEF Voice!Delete
  <2>. QED  BY <2>2, <2>3
<1>. QED  BY <1>2, <1>4, <1>5, <1>6, <1>7

\* Every step of the voice input keeps the invariant.
LEMMA VoiceNext == VoiceInv /\ [Voice!Next]_voice => VoiceInv'
<1>. SUFFICES ASSUME VoiceInv, [Voice!Next]_voice PROVE VoiceInv'
  OBVIOUS
<1>1. CASE UNCHANGED voice
  <2>1. \A b \in Voice!Starts : IdFits(b)'
    BY <1>1 DEF voice, VoiceInv, IdFits
  <2>. QED  BY <1>1, <2>1, VoiceTypes, VoiceOnward DEF voice, VoiceInv
<1>2. CASE Voice!Next
  BY <1>2, VoiceStarts, VoiceGranted, VoicePageStops, VoiceStream, VoiceDeleted,
     VoiceSessionSteps DEF Voice!Next
<1>. QED  BY <1>1, <1>2

\* A behaviour of the platform is one of the voice input.
LEMMA JointVoice ==
  [JointNext]_<<part, vars, voice, chatPage, histories, uploads, webhooks, limits, provider,
                adminPages, texts, pages>>
    => [Voice!Next]_voice
  BY DEF JointNext, Others

\* For any number of starts, reconnects and dropped sockets: a stream or a microphone
\* with its recorder that no ref holds runs only at or after a start that was granted
\* its microphone after a stop; a session whose start is over and whose id the page has
\* read and not lost has its DELETE on its way; and a closed session reaches Deepgram
\* again only by a reconnect that was timed before.
THEOREM LeftoversExplained == JointSpec => []LeftoversHaveReason
<1>1. JointInit => VoiceInv
  BY VoiceInit DEF JointInit
<1>2. VoiceInv => LeftoversHaveReason
  BY VoiceInvFollows DEF LeftoversHaveReason
<1>. QED  BY <1>1, <1>2, VoiceNext, JointVoice, PTL DEF JointSpec

-----------------------------------------------------------------------------
(***************************************************************************)
(* Webhooks.  A POST that answers has put its job into Redis, where jobs   *)
(* never go back to none.  A delivery that was sent once has one job, whose *)
(* stalls and whose end count its runs.  The worker takes no job once it   *)
(* closes, and unless its close() rejects it closes when none is active.   *)
(***************************************************************************)

WebhookPosts ==
  [delivery : Deliveries, kind : Hooks!Kinds, open : BOOLEAN,
   pc : {"verify", "enqueue", "answer", "answered", "refused", "lost"}]
WebhookJobs ==
  [state : {"none", "waiting", "active", "completed", "failed"},
   attempts : 0..Attempts, stalls : 0..(Hooks!MaxStalled + 1)]

\* What the type of a job does not say: one that may run has attempts and stalls left.
JobFits(j) ==
  /\ j.state \in {"none", "waiting", "active"} => j.attempts < Attempts
  /\ j.state \in {"none", "waiting", "active"} => j.stalls <= Hooks!MaxStalled

\* What a POST has done: its job is there once it answers, and not before.
PostFits(n) ==
  /\ posts[n].pc \in {"answer", "answered"} => jobs[n].state # "none"
  /\ posts[n].pc \in {"verify", "enqueue"} => jobs[n] = Hooks!NoJob

AckedHasJob == \A d \in acked : \E n \in Hooks!SendsOf(d) : jobs[n].state # "none"

\* A delivery that was not sent has not run; one sent once runs as its job says.
RunsFit(d) ==
  /\ Hooks!SendsOf(d) = {} => ran[d] = 0
  /\ \A n \in Hooks!SendsOf(d) :
       Hooks!SendsOf(d) = {n} =>
         ran[d] <= jobs[n].stalls + (IF jobs[n].state = "completed" THEN 1 ELSE 0)

WebhooksInv ==
  /\ Hooks!TypeOK
  /\ Len(posts) <= MaxSends
  /\ \A n \in 1..MaxSends : JobFits(jobs[n])
  /\ \A n \in 1..MaxSends : n > Len(posts) => jobs[n] = Hooks!NoJob
  /\ \A n \in Hooks!Sends : PostFits(n)
  /\ AckedHasJob
  /\ \A d \in Deliveries : RunsFit(d)
  /\ process \in {"pool", "down"} /\ ended = "clean" => Hooks!Active = {}

\* What the type invariant says, in the names above.
LEMMA WebhookTypes ==
  ASSUME WebhooksInv
  PROVE  /\ posts \in Seq(WebhookPosts) /\ jobs \in [1..MaxSends -> WebhookJobs]
         /\ Hooks!Sends = 1..Len(posts) /\ Len(posts) \in Nat /\ DOMAIN posts = Hooks!Sends
         /\ Hooks!Sends \subseteq 1..MaxSends
         /\ \A n \in Hooks!Sends :
              /\ n \in 1..MaxSends /\ posts[n] \in WebhookPosts /\ jobs[n] \in WebhookJobs
              /\ posts[n].delivery \in Deliveries
         /\ ran \in [Deliveries -> Nat] /\ acked \subseteq Deliveries
<1>1. /\ posts \in Seq(WebhookPosts) /\ jobs \in [1..MaxSends -> WebhookJobs]
      /\ ran \in [Deliveries -> Nat] /\ acked \subseteq Deliveries
  BY DEF WebhooksInv, Hooks!TypeOK, WebhookPosts, WebhookJobs
<1>2. \A p \in WebhookPosts : p.delivery \in Deliveries
  BY DEF WebhookPosts
<1>3. /\ Hooks!Sends = 1..Len(posts) /\ Len(posts) \in Nat /\ DOMAIN posts = 1..Len(posts)
      /\ Len(posts) <= MaxSends /\ MaxSends \in Nat
  BY <1>1, PlatformAssumption DEF Hooks!Sends, WebhooksInv
<1>. QED  BY <1>1, <1>2, <1>3

\* The initial states: nothing was sent.
LEMMA WebhooksInit == Hooks!Init => WebhooksInv
<1>. SUFFICES ASSUME Hooks!Init PROVE WebhooksInv
  OBVIOUS
<1>1. /\ Hooks!NoJob \in WebhookJobs /\ Hooks!NoJob.state = "none" /\ JobFits(Hooks!NoJob)
  BY PlatformAssumption DEF Hooks!NoJob, WebhookJobs, JobFits, Hooks!MaxStalled
<1>2. /\ posts = <<>> /\ Len(posts) = 0 /\ Hooks!Sends = {} /\ acked = {}
      /\ jobs = [n \in 1..MaxSends |-> Hooks!NoJob] /\ ran = [d \in Deliveries |-> 0]
      /\ process = "up" /\ crashes = 0 /\ secret \in BOOLEAN /\ ended = "clean"
  BY DEF Hooks!Init, Hooks!Sends
<1>3. /\ jobs \in [1..MaxSends -> WebhookJobs] /\ ran \in [Deliveries -> Nat]
      /\ posts \in Seq(WebhookPosts) /\ crashes \in 0..MaxCrashes /\ 0 <= MaxSends
  BY <1>1, <1>2, PlatformAssumption
<1>4. Hooks!TypeOK
  BY <1>2, <1>3 DEF Hooks!TypeOK, WebhookPosts, WebhookJobs
<1>5. \A d \in Deliveries : RunsFit(d)
  BY <1>2 DEF RunsFit, Hooks!SendsOf
<1>. QED  BY <1>1, <1>2, <1>3, <1>4, <1>5 DEF WebhooksInv, AckedHasJob

\* A delivery is sent, for the first time or again.
LEMMA WebhookSend ==
  ASSUME WebhooksInv, NEW d \in Deliveries, NEW kd \in Hooks!Kinds, Hooks!Send(d, kd)
  PROVE  WebhooksInv'
<1>. DEFINE new == [delivery |-> d, kind |-> kd, pc |-> "verify", open |-> TRUE]
<1>1. /\ posts \in Seq(WebhookPosts) /\ jobs \in [1..MaxSends -> WebhookJobs]
      /\ Hooks!Sends = 1..Len(posts) /\ Len(posts) \in Nat /\ MaxSends \in Nat
      /\ ran \in [Deliveries -> Nat]
  BY WebhookTypes, PlatformAssumption
<1>2. /\ process = "up" /\ Len(posts) < MaxSends /\ posts' = Append(posts, new)
      /\ UNCHANGED <<secret, process, jobs, acked, ran, crashes, ended>>
  BY DEF Hooks!Send
<1>3. new \in WebhookPosts /\ new.delivery = d /\ new.pc = "verify"
  BY DEF WebhookPosts
<1>. HIDE DEF new
<1>4. /\ posts' \in Seq(WebhookPosts) /\ Len(posts') = Len(posts) + 1
      /\ \A n \in 1..Len(posts) : posts'[n] = posts[n]
      /\ posts'[Len(posts) + 1] = new
  BY <1>1, <1>2, <1>3, AppendProperties
<1>5. Hooks!Sends' = Hooks!Sends \cup {Len(posts) + 1} /\ Len(posts) + 1 \in 1..MaxSends
  BY <1>1, <1>2, <1>4 DEF Hooks!Sends
<1>6. Hooks!TypeOK'
  BY <1>2, <1>4 DEF WebhooksInv, Hooks!TypeOK, WebhookPosts
<1>7. /\ jobs[Len(posts) + 1] = Hooks!NoJob /\ Hooks!NoJob.state = "none"
      /\ Hooks!NoJob.stalls = 0
  BY <1>1, <1>5 DEF WebhooksInv, Hooks!NoJob
<1>8. \A n \in Hooks!Sends' : PostFits(n)'
  BY <1>1, <1>2, <1>3, <1>4, <1>5, <1>7 DEF WebhooksInv, PostFits
<1>9. \A e \in Deliveries \ {d} : Hooks!SendsOf(e)' = Hooks!SendsOf(e)
  BY <1>1, <1>3, <1>4, <1>5 DEF Hooks!SendsOf
<1>10. Hooks!SendsOf(d)' = Hooks!SendsOf(d) \cup {Len(posts) + 1}
  BY <1>1, <1>3, <1>4, <1>5 DEF Hooks!SendsOf
<1>11. AckedHasJob'
  BY <1>1, <1>2, <1>9, <1>10, WebhookTypes DEF WebhooksInv, AckedHasJob
<1>12. \A e \in Deliveries \ {d} : RunsFit(e)'
  BY <1>2, <1>9 DEF WebhooksInv, RunsFit
<1>13. RunsFit(d)'
  <2>1. CASE Hooks!SendsOf(d) = {}
    <3>1. ran[d] = 0 /\ Hooks!SendsOf(d)' = {Len(posts) + 1}
      BY <1>10, <2>1 DEF WebhooksInv, RunsFit
    <3>. QED  BY <1>2, <1>7, <3>1 DEF RunsFit
  <2>2. CASE Hooks!SendsOf(d) # {}
    <3>1. PICK m \in Hooks!SendsOf(d) : m # Len(posts) + 1
      BY <1>1, <2>2 DEF Hooks!SendsOf
    <3>2. m \in Hooks!SendsOf(d)' /\ Len(posts) + 1 \in Hooks!SendsOf(d)'
      BY <1>10, <3>1
    <3>3. \A n : Hooks!SendsOf(d)' # {n}
      BY <3>1, <3>2
    <3>. QED  BY <3>2, <3>3 DEF RunsFit
  <2>. QED  BY <2>1, <2>2
<1>14. Hooks!Active' = Hooks!Active
  BY <1>1, <1>2, <1>4, <1>5, <1>7 DEF Hooks!Active
<1>15. /\ Len(posts') <= MaxSends
       /\ \A n \in 1..MaxSends : n > Len(posts') => jobs'[n] = Hooks!NoJob
       /\ \A n \in 1..MaxSends : JobFits(jobs'[n])
  BY <1>1, <1>2, <1>4 DEF WebhooksInv
<1>. QED
  BY <1>2, <1>6, <1>8, <1>11, <1>12, <1>13, <1>14, <1>15 DEF WebhooksInv

\* A step that changes neither which deliveries the POSTs are of, nor what they have
\* run: jobs only go on.
LEMMA WebhookQuiet ==
  ASSUME WebhooksInv, posts' \in Seq(WebhookPosts), Len(posts') = Len(posts),
         \A n \in Hooks!Sends : posts'[n].delivery = posts[n].delivery,
         jobs' \in [1..MaxSends -> WebhookJobs],
         \A n \in 1..MaxSends : JobFits(jobs'[n]),
         \A n \in 1..MaxSends : n > Len(posts) => jobs'[n] = jobs[n],
         \A n \in Hooks!Sends : /\ jobs[n].state # "none" => jobs'[n].state # "none"
                                /\ jobs[n].state = "completed" => jobs'[n].state = "completed"
                                /\ jobs[n].stalls <= jobs'[n].stalls,
         \A n \in Hooks!Sends : PostFits(n)',
         acked' \subseteq Deliveries,
         \A d \in acked' \ acked : \E n \in Hooks!SendsOf(d) : jobs'[n].state # "none",
         secret' = secret, ran' = ran, crashes' \in 0..MaxCrashes,
         process' \in {"up", "server", "worker", "pool", "down"},
         ended' \in {"clean", "rejected", "crash"},
         process' \in {"pool", "down"} /\ ended' = "clean" => Hooks!Active' = {}
  PROVE  WebhooksInv'
<1>1. /\ Hooks!Sends' = Hooks!Sends /\ \A d : Hooks!SendsOf(d)' = Hooks!SendsOf(d)
      /\ \A n \in Hooks!Sends : n \in 1..MaxSends /\ jobs[n] \in WebhookJobs
      /\ ran \in [Deliveries -> Nat]
  BY WebhookTypes DEF Hooks!Sends, Hooks!SendsOf
<1>2. Hooks!TypeOK'
  BY DEF WebhooksInv, Hooks!TypeOK, WebhookPosts, WebhookJobs
<1>3. AckedHasJob'
  <2>1. \A d \in acked : \E n \in Hooks!SendsOf(d) : jobs'[n].state # "none"
    BY DEF WebhooksInv, AckedHasJob, Hooks!SendsOf
  <2>. QED  BY <1>1, <2>1 DEF AckedHasJob
<1>4. ASSUME NEW d \in Deliveries PROVE RunsFit(d)'
  <2>1. ASSUME NEW n \in Hooks!SendsOf(d), Hooks!SendsOf(d) = {n}
        PROVE  ran[d] <= jobs'[n].stalls + (IF jobs'[n].state = "completed" THEN 1 ELSE 0)
    <3>1. n \in Hooks!Sends /\ jobs[n].stalls \in Nat /\ jobs'[n].stalls \in Nat
      BY <1>1 DEF Hooks!SendsOf, WebhookJobs
    <3>2. ran[d] <= jobs[n].stalls + (IF jobs[n].state = "completed" THEN 1 ELSE 0)
      BY <2>1 DEF WebhooksInv, RunsFit
    <3>3. /\ jobs[n].stalls <= jobs'[n].stalls
          /\ jobs[n].state = "completed" => jobs'[n].state = "completed"
      BY <3>1
    <3>. QED  BY <1>1, <3>1, <3>2, <3>3
  <2>. QED  BY <1>1, <2>1 DEF WebhooksInv, RunsFit
<1>. QED  BY <1>1, <1>2, <1>3, <1>4 DEF WebhooksInv

\* A POST or its job goes on, and nothing has run.
LEMMA WebhookMoves ==
  ASSUME WebhooksInv, NEW n \in Hooks!Sends,
         NEW pc1 \in {"verify", "enqueue", "answer", "answered", "refused", "lost"},
         posts' = [posts EXCEPT ![n].pc = pc1],
         NEW j \in WebhookJobs, jobs' = [jobs EXCEPT ![n] = j], JobFits(j),
         jobs[n].state # "none" => j.state # "none",
         jobs[n].state = "completed" => j.state = "completed",
         jobs[n].stalls <= j.stalls,
         j.state = "active" => jobs[n].state = "active" \/ process \in {"up", "server"},
         pc1 \in {"answer", "answered"} => j.state # "none",
         pc1 \in {"verify", "enqueue"} => j = Hooks!NoJob,
         acked' = acked \/ (acked' = acked \cup {posts[n].delivery} /\ j.state # "none"),
         UNCHANGED <<secret, process, ran, crashes, ended>>
  PROVE  WebhooksInv'
<1>1. /\ posts \in Seq(WebhookPosts) /\ jobs \in [1..MaxSends -> WebhookJobs]
      /\ Hooks!Sends = 1..Len(posts) /\ n \in 1..MaxSends /\ DOMAIN posts = Hooks!Sends
      /\ posts[n] \in WebhookPosts /\ acked \subseteq Deliveries
      /\ posts[n].delivery \in Deliveries
      /\ Hooks!Sends \subseteq 1..MaxSends /\ Len(posts) \in Nat
      /\ \A m \in 1..MaxSends : jobs[m] \in WebhookJobs
  BY WebhookTypes
<1>. DEFINE moved == [posts[n] EXCEPT !.pc = pc1]
<1>2. /\ moved \in WebhookPosts /\ moved.pc = pc1 /\ moved.delivery = posts[n].delivery
      /\ posts' = [posts EXCEPT ![n] = moved]
  BY <1>1 DEF WebhookPosts
<1>. HIDE DEF moved
<1>3. /\ posts' \in Seq(WebhookPosts) /\ Len(posts') = Len(posts) /\ posts'[n] = moved
      /\ \A m \in Hooks!Sends \ {n} : posts'[m] = posts[m]
      /\ \A m \in Hooks!Sends : posts'[m].delivery = posts[m].delivery
  BY <1>1, <1>2
<1>4. /\ jobs' \in [1..MaxSends -> WebhookJobs] /\ jobs'[n] = j
      /\ \A m \in 1..MaxSends \ {n} : jobs'[m] = jobs[m]
  BY <1>1
<1>5. \A m \in 1..MaxSends : JobFits(jobs'[m])
  BY <1>4 DEF WebhooksInv
<1>6. \A m \in Hooks!Sends : /\ jobs[m].state # "none" => jobs'[m].state # "none"
                             /\ jobs[m].state = "completed" => jobs'[m].state = "completed"
                             /\ jobs[m].stalls <= jobs'[m].stalls
  BY <1>1, <1>4 DEF WebhookJobs
<1>7. \A m \in Hooks!Sends : PostFits(m)'
  BY <1>1, <1>2, <1>3, <1>4 DEF WebhooksInv, PostFits
<1>8. \A d \in acked' \ acked : \E m \in Hooks!SendsOf(d) : jobs'[m].state # "none"
  BY <1>4 DEF Hooks!SendsOf
<1>9. process \notin {"up", "server"} /\ Hooks!Active = {} => Hooks!Active' = {}
  BY <1>1, <1>3, <1>4 DEF Hooks!Active, Hooks!Sends
<1>10. /\ process \in {"up", "server", "worker", "pool", "down"} /\ crashes \in 0..MaxCrashes
       /\ ended \in {"clean", "rejected", "crash"}
       /\ process \in {"pool", "down"} /\ ended = "clean" => Hooks!Active = {}
  BY DEF WebhooksInv, Hooks!TypeOK
<1>11. \A m \in 1..MaxSends : m > Len(posts) => jobs'[m] = jobs[m]
  BY <1>1, <1>4
<1>. QED
  BY <1>1, <1>3, <1>4, <1>5, <1>6, <1>7, <1>8, <1>9, <1>10, <1>11, WebhookQuiet

\* A job ends or stalls, and its processor may have run.
LEMMA WebhookRuns ==
  ASSUME WebhooksInv, NEW n \in Hooks!Sends, jobs[n].state = "active",
         NEW j \in WebhookJobs, jobs' = [jobs EXCEPT ![n] = j], JobFits(j),
         j.state \notin {"none", "active"},
         NEW more \in {0, 1}, ran' = [ran EXCEPT ![posts[n].delivery] = @ + more],
         jobs[n].stalls + more <= j.stalls + (IF j.state = "completed" THEN 1 ELSE 0),
         UNCHANGED <<secret, process, posts, acked, crashes, ended>>
  PROVE  WebhooksInv'
<1>1. /\ posts \in Seq(WebhookPosts) /\ jobs \in [1..MaxSends -> WebhookJobs]
      /\ Hooks!Sends = 1..Len(posts) /\ n \in 1..MaxSends /\ DOMAIN posts = Hooks!Sends
      /\ posts[n].delivery \in Deliveries /\ ran \in [Deliveries -> Nat]
      /\ Hooks!Sends \subseteq 1..MaxSends /\ Len(posts) \in Nat
      /\ \A m \in 1..MaxSends : jobs[m] \in WebhookJobs
  BY WebhookTypes
<1>. DEFINE d == posts[n].delivery
<1>2. /\ jobs' \in [1..MaxSends -> WebhookJobs] /\ jobs'[n] = j
      /\ \A m \in 1..MaxSends \ {n} : jobs'[m] = jobs[m]
  BY <1>1
<1>3. /\ ran' \in [Deliveries -> Nat] /\ ran'[d] = ran[d] + more
      /\ \A e \in Deliveries \ {d} : ran'[e] = ran[e]
  BY <1>1
<1>4. Hooks!Sends' = Hooks!Sends /\ \A e : Hooks!SendsOf(e)' = Hooks!SendsOf(e)
  BY DEF Hooks!Sends, Hooks!SendsOf
<1>5. Hooks!TypeOK'
  BY <1>2, <1>3 DEF WebhooksInv, Hooks!TypeOK, WebhookJobs
<1>6. /\ \A m \in 1..MaxSends : JobFits(jobs'[m])
      /\ \A m \in 1..MaxSends : m > Len(posts) => jobs'[m] = Hooks!NoJob
  BY <1>1, <1>2 DEF WebhooksInv
<1>7. \A m \in Hooks!Sends : PostFits(m)'
  <2>1. posts[n].pc \notin {"verify", "enqueue"}
    BY DEF WebhooksInv, PostFits, Hooks!NoJob
  <2>. QED  BY <1>1, <1>2, <2>1 DEF WebhooksInv, PostFits
<1>8. AckedHasJob'
  BY <1>1, <1>2, <1>4 DEF WebhooksInv, AckedHasJob, Hooks!SendsOf
<1>9. Hooks!Active' \subseteq Hooks!Active
  BY <1>1, <1>2, <1>4 DEF Hooks!Active
<1>10. \A e \in Deliveries \ {d} : RunsFit(e)'
  <2>1. ASSUME NEW e \in Deliveries \ {d} PROVE RunsFit(e)'
    <3>1. \A m \in Hooks!SendsOf(e) : jobs'[m] = jobs[m]
      BY <1>1, <1>2 DEF Hooks!SendsOf
    <3>. QED  BY <1>3, <1>4, <3>1 DEF WebhooksInv, RunsFit
  <2>. QED  BY <2>1
<1>11. RunsFit(d)'
  <2>1. n \in Hooks!SendsOf(d)
    BY DEF Hooks!SendsOf
  <2>2. Hooks!SendsOf(d) = {n} =>
          ran[d] <= jobs[n].stalls + (IF jobs[n].state = "completed" THEN 1 ELSE 0)
    BY <1>1, <2>1 DEF WebhooksInv, RunsFit
  <2>3. jobs[n].stalls \in Nat /\ j.stalls \in Nat /\ ran[d] \in Nat
    BY <1>1 DEF WebhookJobs
  <2>4. Hooks!SendsOf(d) = {n} =>
          ran'[d] <= j.stalls + (IF j.state = "completed" THEN 1 ELSE 0)
    BY <1>3, <2>2, <2>3
  <2>. QED  BY <1>2, <1>4, <2>1, <2>4 DEF RunsFit
<1>. QED
  BY <1>4, <1>5, <1>6, <1>7, <1>8, <1>9, <1>10, <1>11 DEF WebhooksInv

\* The route's steps after the POST has come.
LEMMA WebhookRoute ==
  ASSUME WebhooksInv, NEW n \in Hooks!Sends,
         Hooks!Verify(n) \/ Hooks!Enqueue(n) \/ Hooks!EnqueueFails(n) \/ Hooks!Answer(n)
  PROVE  WebhooksInv'
<1>1. /\ jobs \in [1..MaxSends -> WebhookJobs] /\ n \in 1..MaxSends /\ jobs[n] \in WebhookJobs
      /\ JobFits(jobs[n]) /\ PostFits(n)
  BY WebhookTypes DEF WebhooksInv
<1>2. jobs = [jobs EXCEPT ![n] = jobs[n]]
  BY <1>1
<1>. DEFINE waiting == [jobs[n] EXCEPT !.state = "waiting"]
<1>3. /\ waiting \in WebhookJobs /\ waiting.state = "waiting"
      /\ waiting.stalls = jobs[n].stalls /\ waiting.attempts = jobs[n].attempts
      /\ [jobs EXCEPT ![n].state = "waiting"] = [jobs EXCEPT ![n] = waiting]
  BY <1>1 DEF WebhookJobs
<1>. HIDE DEF waiting
<1>4. CASE Hooks!Verify(n)
  <2>1. PICK pc1 \in {"refused", "enqueue"} : posts' = [posts EXCEPT ![n].pc = pc1]
    BY <1>4 DEF Hooks!Verify
  <2>2. jobs[n] = Hooks!NoJob /\ jobs[n].stalls <= jobs[n].stalls
    BY <1>1, <1>4 DEF Hooks!Verify, PostFits, Hooks!NoJob
  <2>. QED  BY <1>1, <1>2, <1>4, <2>1, <2>2, WebhookMoves DEF Hooks!Verify
<1>5. CASE Hooks!Enqueue(n) \/ Hooks!EnqueueFails(n)
  <2>1. jobs[n] = Hooks!NoJob /\ jobs[n].state = "none" /\ jobs[n].stalls <= jobs[n].stalls
    BY <1>1, <1>5 DEF Hooks!Enqueue, Hooks!EnqueueFails, PostFits, Hooks!NoJob
  <2>2. JobFits(waiting)
    BY <1>1, <1>3, <2>1 DEF JobFits
  <2>3. PICK pc1 \in {"refused", "answer"} :
          /\ posts' = [posts EXCEPT ![n].pc = pc1]
          /\ \/ jobs' = [jobs EXCEPT ![n] = waiting]
             \/ pc1 = "refused" /\ jobs' = jobs
    BY <1>3, <1>5 DEF Hooks!Enqueue, Hooks!EnqueueFails
  <2>4. UNCHANGED <<secret, process, acked, ran, crashes, ended>>
    BY <1>5 DEF Hooks!Enqueue, Hooks!EnqueueFails
  <2>5. CASE jobs' = [jobs EXCEPT ![n] = waiting]
    BY <1>3, <2>1, <2>2, <2>3, <2>4, <2>5, WebhookMoves
  <2>6. CASE pc1 = "refused" /\ jobs' = jobs
    BY <1>1, <1>2, <2>1, <2>3, <2>4, <2>6, WebhookMoves
  <2>. QED  BY <2>3, <2>5, <2>6
<1>6. CASE Hooks!Answer(n)
  <2>1. jobs[n].state # "none" /\ jobs[n].stalls <= jobs[n].stalls
    BY <1>1, <1>6 DEF Hooks!Answer, PostFits, WebhookJobs
  <2>. QED  BY <1>1, <1>2, <1>6, <2>1, WebhookMoves DEF Hooks!Answer
<1>. QED  BY <1>4, <1>5, <1>6

\* The worker's steps.
LEMMA WebhookWorker ==
  ASSUME WebhooksInv, NEW n \in Hooks!Sends,
         Hooks!Take(n) \/ Hooks!Complete(n) \/ Hooks!Fail(n) \/ Hooks!Stall(n)
  PROVE  WebhooksInv'
<1>1. /\ jobs \in [1..MaxSends -> WebhookJobs] /\ n \in 1..MaxSends /\ jobs[n] \in WebhookJobs
      /\ JobFits(jobs[n]) /\ PostFits(n) /\ posts \in Seq(WebhookPosts)
      /\ posts[n] \in WebhookPosts /\ n \in DOMAIN posts
      /\ jobs[n].stalls \in Nat /\ jobs[n].attempts \in Nat
      /\ ran \in [Deliveries -> Nat] /\ posts[n].delivery \in Deliveries
  BY WebhookTypes DEF WebhooksInv, WebhookJobs
<1>2. /\ posts = [posts EXCEPT ![n].pc = posts[n].pc]
      /\ posts[n].pc \in {"verify", "enqueue", "answer", "answered", "refused", "lost"}
  BY <1>1 DEF WebhookPosts
<1>3. jobs[n].state # "none" => posts[n].pc \notin {"verify", "enqueue"}
  BY <1>1 DEF PostFits, Hooks!NoJob
<1>4. CASE Hooks!Take(n)
  <2>. DEFINE j == [jobs[n] EXCEPT !.state = "active"]
  <2>1. /\ j \in WebhookJobs /\ j.state = "active" /\ j.stalls = jobs[n].stalls
        /\ j.attempts = jobs[n].attempts
    BY <1>1 DEF WebhookJobs
  <2>2. jobs' = [jobs EXCEPT ![n] = j]
    BY <1>1, <1>4 DEF Hooks!Take
  <2>. HIDE DEF j
  <2>3. JobFits(j) /\ jobs[n].stalls <= j.stalls
    BY <1>1, <1>4, <2>1 DEF Hooks!Take, JobFits
  <2>. QED  BY <1>1, <1>2, <1>3, <1>4, <2>1, <2>2, <2>3, WebhookMoves DEF Hooks!Take
<1>5. CASE Hooks!Complete(n)
  <2>. DEFINE j == [jobs[n] EXCEPT !.state = "completed"]
  <2>1. /\ j \in WebhookJobs /\ j.state = "completed" /\ j.stalls = jobs[n].stalls
        /\ j.attempts = jobs[n].attempts
    BY <1>1 DEF WebhookJobs
  <2>2. jobs' = [jobs EXCEPT ![n] = j]
    BY <1>1, <1>5 DEF Hooks!Complete
  <2>. HIDE DEF j
  <2>3. JobFits(j) /\ jobs[n].stalls + 1 <= j.stalls + 1
    BY <1>1, <2>1 DEF JobFits
  <2>4. /\ jobs[n].state = "active" /\ ran' = [ran EXCEPT ![posts[n].delivery] = @ + 1]
        /\ UNCHANGED <<secret, process, posts, acked, crashes, ended>>
    BY <1>5 DEF Hooks!Complete, Hooks!Running
  <2>. QED  BY <2>1, <2>2, <2>3, <2>4, WebhookRuns
<1>6. CASE Hooks!Fail(n)
  <2>. DEFINE state == IF jobs[n].attempts + 1 < Attempts THEN "waiting" ELSE "failed"
              j == [jobs[n] EXCEPT !.attempts = jobs[n].attempts + 1, !.state = state]
  <2>1. jobs[n].state = "active" /\ UNCHANGED <<secret, process, posts, acked, ran, crashes, ended>>
    BY <1>6 DEF Hooks!Fail, Hooks!Running
  <2>2. /\ jobs[n].attempts + 1 \in 0..Attempts /\ state \in {"waiting", "failed"}
        /\ state = "waiting" => jobs[n].attempts + 1 < Attempts
    BY <1>1, <2>1, PlatformAssumption DEF JobFits
  <2>3. jobs' = [jobs EXCEPT ![n] = j]
    BY <1>6 DEF Hooks!Fail
  <2>. HIDE DEF state
  <2>5. /\ j \in WebhookJobs /\ j.attempts = jobs[n].attempts + 1 /\ j.stalls = jobs[n].stalls
        /\ j.state = state
    BY <1>1, <2>2 DEF WebhookJobs
  <2>6. JobFits(j)
    BY <1>1, <2>1, <2>2, <2>5 DEF JobFits
  <2>. HIDE DEF j
  <2>7. jobs[n].stalls <= j.stalls /\ j.state \in {"waiting", "failed"}
    BY <1>1, <2>2, <2>5
  <2>. QED  BY <1>1, <1>2, <1>3, <2>1, <2>3, <2>5, <2>6, <2>7, WebhookMoves
<1>7. CASE Hooks!Stall(n)
  <2>. DEFINE state == IF jobs[n].stalls < Hooks!MaxStalled THEN "waiting" ELSE "failed"
              j == [jobs[n] EXCEPT !.stalls = jobs[n].stalls + 1, !.state = state]
  <2>1. /\ process = "down" /\ jobs[n].state = "active"
        /\ UNCHANGED <<secret, process, posts, acked, crashes, ended>>
    BY <1>7 DEF Hooks!Stall
  <2>2. /\ jobs[n].stalls + 1 \in 0..(Hooks!MaxStalled + 1) /\ state \in {"waiting", "failed"}
        /\ state = "waiting" => jobs[n].stalls + 1 <= Hooks!MaxStalled
    BY <1>1, <2>1 DEF JobFits, Hooks!MaxStalled
  <2>3. jobs' = [jobs EXCEPT ![n] = j]
    BY <1>7 DEF Hooks!Stall
  <2>. HIDE DEF state
  <2>5. /\ j \in WebhookJobs /\ j.stalls = jobs[n].stalls + 1 /\ j.attempts = jobs[n].attempts
        /\ j.state = state
    BY <1>1, <2>2 DEF WebhookJobs
  <2>6. JobFits(j)
    BY <1>1, <2>1, <2>2, <2>5 DEF JobFits, Hooks!MaxStalled
  <2>. HIDE DEF j
  <2>7. PICK more \in {0, 1} : ran' = [ran EXCEPT ![posts[n].delivery] = @ + more]
    BY <1>7 DEF Hooks!Stall
  <2>8. /\ jobs[n].stalls + more <= j.stalls + (IF j.state = "completed" THEN 1 ELSE 0)
        /\ j.state \notin {"none", "active"}
    BY <1>1, <2>2, <2>5
  <2>. QED  BY <2>1, <2>3, <2>5, <2>6, <2>7, <2>8, WebhookRuns
<1>. QED  BY <1>4, <1>5, <1>6, <1>7

\* The process's steps: what they make of the POSTs leaves their deliveries.
LEMMA WebhookProcess ==
  ASSUME WebhooksInv,
         \/ Hooks!Start \/ Hooks!Signal \/ Hooks!CloseServer \/ Hooks!DestroySockets
         \/ Hooks!CloseWorker \/ Hooks!CloseWorkerFails \/ Hooks!Exit \/ Hooks!Crash
         \/ UNCHANGED webhooks
  PROVE  WebhooksInv'
<1>1. /\ posts \in Seq(WebhookPosts) /\ jobs \in [1..MaxSends -> WebhookJobs]
      /\ Hooks!Sends = 1..Len(posts) /\ Len(posts) \in Nat /\ DOMAIN posts = Hooks!Sends
      /\ \A n \in Hooks!Sends : posts[n] \in WebhookPosts /\ jobs[n] \in WebhookJobs
      /\ acked \subseteq Deliveries
  BY WebhookTypes
<1>2. /\ UNCHANGED <<secret, jobs, acked, ran>>
      /\ \/ posts' = posts \/ posts' = Hooks!GiveUp
         \/ posts' = [n \in Hooks!Sends |-> [posts[n] EXCEPT !.open = FALSE]]
  BY DEF Hooks!Start, Hooks!Signal, Hooks!CloseServer, Hooks!DestroySockets, Hooks!CloseWorker,
         Hooks!CloseWorkerFails, Hooks!Exit, Hooks!Crash, webhooks
<1>3. /\ posts' \in Seq(WebhookPosts) /\ Len(posts') = Len(posts)
      /\ \A n \in Hooks!Sends : /\ posts'[n].delivery = posts[n].delivery
                                /\ posts'[n].pc \in {posts[n].pc, "lost"}
  <2>1. CASE posts' = posts
    BY <1>1, <2>1
  <2>2. CASE posts' = Hooks!GiveUp
    <3>. DEFINE new(n) == IF n \in Hooks!InFlight THEN [posts[n] EXCEPT !.pc = "lost"] ELSE posts[n]
    <3>1. posts' = [n \in 1..Len(posts) |-> new(n)]
      BY <1>1, <2>2 DEF Hooks!GiveUp
    <3>2. \A n \in 1..Len(posts) : /\ new(n) \in WebhookPosts
                                   /\ new(n).delivery = posts[n].delivery
                                   /\ new(n).pc \in {posts[n].pc, "lost"}
      BY <1>1 DEF WebhookPosts
    <3>. HIDE DEF new
    <3>. QED  BY <1>1, <3>1, <3>2
  <2>3. CASE posts' = [n \in Hooks!Sends |-> [posts[n] EXCEPT !.open = FALSE]]
    <3>. DEFINE new(n) == [posts[n] EXCEPT !.open = FALSE]
    <3>1. posts' = [n \in 1..Len(posts) |-> new(n)]
      BY <1>1, <2>3
    <3>2. \A n \in 1..Len(posts) : /\ new(n) \in WebhookPosts
                                   /\ new(n).delivery = posts[n].delivery
                                   /\ new(n).pc = posts[n].pc
      BY <1>1 DEF WebhookPosts
    <3>. HIDE DEF new
    <3>. QED  BY <1>1, <3>1, <3>2
  <2>. QED  BY <1>2, <2>1, <2>2, <2>3
<1>4. \A n \in Hooks!Sends : PostFits(n)'
  BY <1>2, <1>3 DEF WebhooksInv, PostFits
<1>5. Hooks!Active' = Hooks!Active
  BY <1>1, <1>2, <1>3 DEF Hooks!Active, Hooks!Sends
<1>6. /\ process' \in {"up", "server", "worker", "pool", "down"} /\ crashes' \in 0..MaxCrashes
      /\ ended' \in {"clean", "rejected", "crash"}
      /\ process' \in {"pool", "down"} /\ ended' = "clean" => Hooks!Active = {}
  <2>1. /\ process \in {"up", "server", "worker", "pool", "down"}
        /\ crashes \in 0..MaxCrashes /\ MaxCrashes \in Nat
        /\ ended \in {"clean", "rejected", "crash"}
        /\ process \in {"pool", "down"} /\ ended = "clean" => Hooks!Active = {}
    BY PlatformAssumption DEF WebhooksInv, Hooks!TypeOK
  <2>2. CASE Hooks!Start
    BY <2>1, <2>2 DEF Hooks!Start
  <2>3. CASE Hooks!Signal \/ Hooks!CloseServer \/ Hooks!DestroySockets
    BY <2>1, <2>3 DEF Hooks!Signal, Hooks!CloseServer, Hooks!DestroySockets
  <2>4. CASE Hooks!CloseWorker \/ Hooks!CloseWorkerFails
    BY <2>1, <2>4 DEF Hooks!CloseWorker, Hooks!CloseWorkerFails
  <2>5. CASE Hooks!Exit
    BY <2>1, <2>5 DEF Hooks!Exit
  <2>6. CASE Hooks!Crash
    <3>1. process' = "down" /\ crashes' = crashes + 1 /\ crashes < MaxCrashes /\ ended' = "crash"
      BY <2>6 DEF Hooks!Crash
    <3>. QED  BY <2>1, <3>1
  <2>7. CASE UNCHANGED webhooks
    BY <2>1, <2>7 DEF webhooks
  <2>. QED  BY <2>2, <2>3, <2>4, <2>5, <2>6, <2>7
<1>7. /\ \A n \in 1..MaxSends : JobFits(jobs'[n])
      /\ \A n \in Hooks!Sends : jobs[n].stalls <= jobs'[n].stalls
  BY <1>1, <1>2 DEF WebhooksInv, WebhookJobs
<1>. QED  BY <1>1, <1>2, <1>3, <1>4, <1>5, <1>6, <1>7, WebhookQuiet

\* Every step keeps the invariant.
LEMMA WebhooksNext == WebhooksInv /\ [Hooks!Next]_webhooks => WebhooksInv'
  BY WebhookSend, WebhookRoute, WebhookWorker, WebhookProcess DEF Hooks!Next

\* A behaviour of the platform is one of the webhooks.
LEMMA JointWebhooks ==
  [JointNext]_<<part, vars, voice, chatPage, histories, uploads, webhooks, limits, provider,
                adminPages, texts, pages>>
    => [Hooks!Next]_webhooks
  BY DEF JointNext, Others

\* For any deliveries, any number of POSTs, attempts and crashes: an acknowledged
\* delivery has a job; one that was sent once runs once, and once more for each stall
\* of its job; and a process that is gone leaves a job active behind it only if it
\* crashed or the close() of its worker rejected, which shutdown logs before it exits.
THEOREM WebhooksKept == JointSpec => []WebhooksAreKept
<1>1. JointInit => WebhooksInv
  BY WebhooksInit DEF JointInit
<1>2. WebhooksInv => WebhooksAreKept
  <2>. SUFFICES ASSUME WebhooksInv PROVE Hooks!WebhooksAreKept
    BY DEF WebhooksAreKept
  <2>1. ASSUME NEW d \in Deliveries, NEW n \in Hooks!SendsOf(d), Hooks!SendsOf(d) = {n}
        PROVE  ran[d] <= Hooks!Runs(n)
    BY <2>1 DEF WebhooksInv, RunsFit, Hooks!Runs
  <2>. QED  BY <2>1 DEF WebhooksInv, AckedHasJob, Hooks!WebhooksAreKept
<1>. QED  BY <1>1, <1>2, WebhooksNext, JointWebhooks, PTL DEF JointSpec

-----------------------------------------------------------------------------
(***************************************************************************)
(* CursorPages.  What a walk has shown is in strict order, and a row that  *)
(* was there all the time is shown, or shares its field with one that is,  *)
(* or comes after the last one shown while there is a next page.           *)
(***************************************************************************)

Ordered(s) == \A i, j \in DOMAIN s : i < j => Cursor!Before(s[i], s[j])

Shows(s, row) == \E i \in DOMAIN s : s[i] = row

\* A cursor names a field only, so that it passes over the rows that share it.
PassedOver(s, row) == ~keyset /\ \E i \in DOMAIN s : s[i][1] = row[1]

\* What the next page of a walk can still show.
IsAhead(w, row) == w.state = "more" /\ Cursor!After(w.seen[Len(w.seen)], row)

WalkFits(w) ==
  /\ w.state \in {"off", "more", "end"}
  /\ w.page \in Seq(Cursor!Rows) /\ Len(w.page) <= Limit
  /\ w.seen \in Seq(Cursor!Rows) /\ Ordered(w.seen)
  /\ w.state = "more" =>
       /\ Len(w.page) > 0 /\ Len(w.seen) > 0
       /\ w.page[Len(w.page)] = w.seen[Len(w.seen)]

\* The walk has shown a row, or passed over it, or can still show it.
Accounts(w, row) == Shows(w.seen, row) \/ PassedOver(w.seen, row) \/ IsAhead(w, row)

CursorInv ==
  /\ keyset \in BOOLEAN /\ desc \in BOOLEAN /\ (keyset => ~desc)
  /\ table \subseteq Cursor!Rows /\ stable \subseteq table
  /\ WalkFits(walk)
  /\ walk.state = "off" => walk = Cursor!NoWalk /\ stable = {}
  /\ \A row \in stable : Accounts(walk, row)

\* The order of the rows is a strict and total one.
LEMMA BeforeIsOrder ==
  /\ \A a \in Cursor!Rows : ~Cursor!Before(a, a)
  /\ \A a, b, c \in Cursor!Rows :
       Cursor!Before(a, b) /\ Cursor!Before(b, c) => Cursor!Before(a, c)
  /\ \A a, b \in Cursor!Rows : a # b => Cursor!Before(a, b) \/ Cursor!Before(b, a)
<1>1. \A a \in Cursor!Rows : a[1] \in Int /\ a[2] \in Int
  BY PlatformAssumption DEF Cursor!Rows
<1>2. \A a, b \in Cursor!Rows : a[1] = b[1] /\ a[2] = b[2] => a = b
  BY DEF Cursor!Rows
<1>. QED  BY <1>1, <1>2 DEF Cursor!Before

\* After is what Before leaves when a cursor passes over the rows of one field.
LEMMA AfterIsBefore ==
  ASSUME keyset \in BOOLEAN, desc \in BOOLEAN, keyset => ~desc,
         NEW a \in Cursor!Rows, NEW b \in Cursor!Rows
  PROVE  /\ Cursor!After(a, b) => Cursor!Before(a, b)
         /\ Cursor!Before(a, b) => Cursor!After(a, b) \/ (~keyset /\ a[1] = b[1])
<1>1. a[1] \in Int /\ a[2] \in Int /\ b[1] \in Int /\ b[2] \in Int
  BY PlatformAssumption DEF Cursor!Rows
<1>. QED  BY <1>1 DEF Cursor!Before, Cursor!After, Cursor!KeysetAfter

\* The rows of S that precede one of them.
Predecessors(S, row) == {r \in S : Cursor!Before(r, row)}

\* An instance of FiniteSets counts as FiniteSets does.
LEMMA PrecedingCounts ==
  /\ \A S : Cursor!Cardinality(S) = Cardinality(S)
  /\ \A S, row : Cursor!Preceding(S, row) = Cardinality(Predecessors(S, row))
<1>1. ASSUME NEW S PROVE Cursor!Cardinality(S) = Cardinality(S)
  BY DEF Cursor!Cardinality, Cardinality
<1>2. ASSUME NEW S, NEW row
      PROVE  Cursor!Preceding(S, row) = Cardinality(Predecessors(S, row))
  BY <1>1 DEF Cursor!Preceding, Predecessors
<1>. QED  BY <1>1, <1>2

\* Each place of a finite set of rows belongs to one row.
LEMMA PlacesFit ==
  ASSUME NEW S \in SUBSET Cursor!Rows, IsFiniteSet(S)
  PROVE  /\ Cardinality(S) \in Nat
         /\ \A a, b \in S : Cursor!Before(a, b) =>
              Cursor!Preceding(S, a) < Cursor!Preceding(S, b)
         /\ \A a \in S : Cursor!Preceding(S, a) \in 0..(Cardinality(S) - 1)
         /\ \A i \in 1..Cardinality(S) :
              \E a \in S : Cursor!Preceding(S, a) = i - 1
<1>. DEFINE R(a) == Cardinality(Predecessors(S, a))
<1>1. Cardinality(S) \in Nat
  BY FS_CardinalityType
<1>2. ASSUME NEW a \in S
      PROVE  IsFiniteSet(Predecessors(S, a)) /\ R(a) \in Nat /\ R(a) < Cardinality(S)
  <2>1. Predecessors(S, a) \subseteq S /\ a \notin Predecessors(S, a)
    BY BeforeIsOrder DEF Predecessors
  <2>2. IsFiniteSet(Predecessors(S, a)) /\ R(a) \in Nat
    BY <2>1, FS_Subset, FS_CardinalityType
  <2>3. Predecessors(S, a) # S
    BY <2>1
  <2>. QED  BY <1>1, <2>1, <2>2, <2>3, FS_Subset
<1>3. ASSUME NEW a \in S, NEW b \in S, Cursor!Before(a, b)
      PROVE  R(a) < R(b)
  <2>1. Predecessors(S, a) \subseteq Predecessors(S, b)
    BY <1>3, BeforeIsOrder DEF Predecessors
  <2>2. a \in Predecessors(S, b) /\ a \notin Predecessors(S, a)
    BY <1>3, BeforeIsOrder DEF Predecessors
  <2>3. Predecessors(S, a) # Predecessors(S, b)
    BY <2>2
  <2>. QED  BY <1>2, <2>1, <2>3, FS_Subset
<1>4. \A a \in S : R(a) \in 0..(Cardinality(S) - 1)
  BY <1>1, <1>2
<1>5. ASSUME NEW i \in 1..Cardinality(S)
      PROVE  \E a \in S : R(a) = i - 1
  <2>. DEFINE T == 0..(Cardinality(S) - 1)
              f == [a \in S |-> R(a)]
  <2>1. f \in [S -> T]
    BY <1>4
  <2>2. \A a, b \in S : a # b => f[a] # f[b]
    <3>. SUFFICES ASSUME NEW a \in S, NEW b \in S, a # b
                  PROVE  f[a] # f[b]
      OBVIOUS
    <3>1. Cursor!Before(a, b) \/ Cursor!Before(b, a)
      BY BeforeIsOrder
    <3>2. R(a) \in Nat /\ R(b) \in Nat
      BY <1>2
    <3>3. R(a) < R(b) \/ R(b) < R(a)
      BY <1>3, <3>1
    <3>. QED  BY <3>2, <3>3
  <2>3. IsFiniteSet(T) /\ Cardinality(T) = Cardinality(S)
    <3>1. 0 \in Int /\ Cardinality(S) - 1 \in Int /\ Cardinality(S) > 0
      BY <1>1
    <3>2. /\ IsFiniteSet(T)
          /\ Cardinality(T) = IF 0 > Cardinality(S) - 1 THEN 0 ELSE Cardinality(S) - 1 - 0 + 1
      <4>. HIDE DEF T
      <4>1. T = 0..(Cardinality(S) - 1)
        BY DEF T
      <4>. QED  BY <3>1, <4>1, FS_Interval
    <3>. HIDE DEF T
    <3>. QED  BY <1>1, <3>1, <3>2
  <2>4. f \in Injection(S, T)
    BY <2>1, <2>2 DEF Injection, IsInjective
  <2>5. f \in Surjection(S, T)
    BY <2>3, <2>4, FS_Injection
  <2>6. i - 1 \in T
    BY <1>1
  <2>. HIDE DEF T
  <2>. QED  BY <2>5, <2>6 DEF Surjection
<1>. QED  BY <1>1, <1>3, <1>4, <1>5, PrecedingCounts

\* InOrder lists the rows of a finite set once each and in order.
LEMMA InOrderSorts ==
  ASSUME NEW S \in SUBSET Cursor!Rows, IsFiniteSet(S)
  PROVE  /\ Cursor!InOrder(S) \in Seq(S) /\ Len(Cursor!InOrder(S)) = Cardinality(S)
         /\ Ordered(Cursor!InOrder(S))
         /\ \A row \in S : Shows(Cursor!InOrder(S), row)
<1>. DEFINE n == Cardinality(S)
            R(a) == Cursor!Preceding(S, a)
            s == Cursor!InOrder(S)
<1>1. n \in Nat /\ \A a \in S : R(a) \in 0..(n - 1)
  BY PlacesFit
<1>2. s = [i \in 1..n |-> CHOOSE row \in S : R(row) = i - 1]
  BY PrecedingCounts DEF Cursor!InOrder
<1>3. \A i \in 1..n : s[i] \in S /\ R(s[i]) = i - 1
  <2>. SUFFICES ASSUME NEW i \in 1..n
                PROVE  s[i] \in S /\ R(s[i]) = i - 1
    OBVIOUS
  <2>. DEFINE P(row) == R(row) = i - 1
  <2>1. \E row \in S : P(row)
    BY PlacesFit
  <2>2. s[i] = CHOOSE row \in S : P(row)
    BY <1>2
  <2>3. s[i] \in S /\ P(s[i])
    <3>. HIDE DEF P, s
    <3>. QED  BY <2>1, <2>2
  <2>. QED  BY <2>3
<1>4. s \in Seq(S) /\ Len(s) = n /\ DOMAIN s = 1..n
  <2>1. s \in [1..n -> S]
    BY <1>2, <1>3
  <2>. HIDE DEF s, n
  <2>. QED  BY <1>1, <2>1, SeqDef
<1>5. ASSUME NEW i \in 1..n, NEW j \in 1..n, i < j
      PROVE  Cursor!Before(s[i], s[j])
  <2>1. s[i] # s[j] /\ s[i] \in S /\ s[j] \in S /\ R(s[i]) < R(s[j])
    BY <1>1, <1>3, <1>5
  <2>2. Cursor!Before(s[i], s[j]) \/ Cursor!Before(s[j], s[i])
    BY <2>1, BeforeIsOrder
  <2>3. ~(R(s[j]) < R(s[i]))
    BY <1>1, <2>1
  <2>. QED  BY <2>1, <2>2, <2>3, PlacesFit
<1>6. ASSUME NEW row \in S
      PROVE  \E i \in 1..n : s[i] = row
  <2>1. R(row) + 1 \in 1..n
    BY <1>1
  <2>2. s[R(row) + 1] \in S /\ R(s[R(row) + 1]) = R(row)
    BY <1>1, <1>3, <2>1
  <2>3. s[R(row) + 1] = row
    <3>1. \A a, b \in S : R(a) = R(b) => a = b
      BY <1>1, PlacesFit, BeforeIsOrder
    <3>. HIDE DEF R, s
    <3>. QED  BY <2>2, <3>1
  <2>. QED  BY <2>1, <2>3
<1>. QED  BY <1>4, <1>5, <1>6 DEF Ordered, Shows

\* A page is a part of the rows in order, and what it leaves out comes after it.
LEMMA PageShows ==
  ASSUME NEW S \in SUBSET Cursor!Rows, IsFiniteSet(S)
  PROVE  LET fetched == Cursor!Fetch(S)
             data == Cursor!Data(fetched)
         IN  /\ data \in Seq(S) /\ Len(data) <= Limit /\ Ordered(data)
             /\ ~Cursor!HasMore(fetched) => \A row \in S : Shows(data, row)
             /\ Cursor!HasMore(fetched) =>
                  /\ Len(data) > 0
                  /\ \A row \in S : Shows(data, row) \/ Cursor!Before(data[Len(data)], row)
<1>. DEFINE all == Cursor!InOrder(S)
            m == IF Len(all) > Limit + 1 THEN Limit + 1 ELSE Len(all)
            fetched == Cursor!Fetch(S)
            data == Cursor!Data(fetched)
<1>1. all \in Seq(S) /\ Len(all) \in Nat /\ DOMAIN all = 1..Len(all)
  BY InOrderSorts, LenProperties
<1>2. \A i, j \in 1..Len(all) : i < j => Cursor!Before(all[i], all[j])
  BY <1>1, InOrderSorts DEF Ordered
<1>3. \A row \in S : \E k \in 1..Len(all) : all[k] = row
  BY <1>1, InOrderSorts DEF Shows
<1>4. m \in Nat /\ m <= Len(all) /\ Limit \in Nat \ {0}
  BY <1>1, PlatformAssumption
<1>5. fetched = SubSeq(all, 1, m)
  BY DEF Cursor!Fetch
<1>. HIDE DEF all, fetched
<1>6. fetched \in Seq(S) /\ Len(fetched) = m /\ \A i \in 1..m : fetched[i] = all[i]
  BY <1>1, <1>4, <1>5, SubSeqProperties
<1>7. CASE m > Limit
  <2>1. data = SubSeq(fetched, 1, Limit) /\ Cursor!HasMore(fetched)
    BY <1>6, <1>7 DEF Cursor!Data, Cursor!HasMore
  <2>2. data \in Seq(S) /\ Len(data) = Limit /\ \A i \in 1..Limit : data[i] = all[i]
    BY <1>4, <1>6, <1>7, <2>1, SubSeqProperties
  <2>3. DOMAIN data = 1..Limit
    BY <2>2, LenProperties
  <2>. HIDE DEF data
  <2>4. Ordered(data)
    BY <1>1, <1>2, <1>4, <1>7, <2>2, <2>3 DEF Ordered
  <2>5. ASSUME NEW row \in S
        PROVE  Shows(data, row) \/ Cursor!Before(data[Len(data)], row)
    <3>1. PICK k \in 1..Len(all) : all[k] = row
      BY <1>3
    <3>2. CASE k <= Limit
      <4>1. k \in 1..Limit /\ data[k] = row
        BY <1>1, <1>4, <2>2, <3>1, <3>2
      <4>. QED  BY <2>3, <4>1 DEF Shows
    <3>3. CASE k > Limit
      <4>1. Limit \in 1..Len(all) /\ Limit < k /\ Limit \in 1..Limit
        BY <1>1, <1>4, <1>7, <3>3
      <4>2. Cursor!Before(all[Limit], all[k])
        BY <1>2, <4>1
      <4>. QED  BY <2>2, <3>1, <4>1, <4>2
    <3>. QED  BY <1>1, <1>4, <3>2, <3>3
  <2>. QED  BY <1>4, <2>1, <2>2, <2>4, <2>5 DEF data, fetched
<1>8. CASE ~(m > Limit)
  <2>1. m = Len(all) /\ data = fetched /\ ~Cursor!HasMore(fetched)
    BY <1>1, <1>4, <1>6, <1>8 DEF Cursor!Data, Cursor!HasMore
  <2>2. DOMAIN data = 1..Len(all) /\ \A i \in 1..Len(all) : data[i] = all[i]
    BY <1>6, <2>1, LenProperties
  <2>3. Ordered(data) /\ \A row \in S : Shows(data, row)
    BY <1>2, <1>3, <2>2 DEF Ordered, Shows
  <2>. QED  BY <1>4, <1>6, <1>8, <2>1, <2>3 DEF fetched
<1>. QED  BY <1>7, <1>8

\* Any set of rows is finite.
LEMMA RowsAreFinite == \A S \in SUBSET Cursor!Rows : IsFiniteSet(S)
<1>1. IsFiniteSet(Cursor!Rows)
  BY PlatformAssumption, FS_Product DEF Cursor!Rows
<1>. QED  BY <1>1, FS_Subset

\* A page that is shown after rows that precede it leaves the walk in order,
\* and accounts for all the rows that it was taken from.
LEMMA ShowKeeps ==
  ASSUME keyset \in BOOLEAN, desc \in BOOLEAN, keyset => ~desc,
         NEW S \in SUBSET Cursor!Rows,
         NEW old \in Seq(Cursor!Rows), Ordered(old),
         \A i \in DOMAIN old : \A row \in S : Cursor!Before(old[i], row),
         Cursor!Show(Cursor!Fetch(S), old)
  PROVE  /\ WalkFits(walk') /\ walk'.state # "off"
         /\ \A row \in S : Accounts(walk', row)
         /\ \A row : Shows(old, row) => Shows(walk'.seen, row)
         /\ \A row : PassedOver(old, row) => PassedOver(walk'.seen, row)
<1>. DEFINE fetched == Cursor!Fetch(S)
            data == Cursor!Data(fetched)
            more == Cursor!HasMore(fetched)
            n == Len(old)
            new == old \o data
<1>1. /\ data \in Seq(S) /\ Len(data) <= Limit /\ Ordered(data)
      /\ ~more => \A row \in S : Shows(data, row)
      /\ more => /\ Len(data) > 0
                 /\ \A row \in S : Shows(data, row) \/ Cursor!Before(data[Len(data)], row)
  BY PageShows, RowsAreFinite
<1>2. /\ walk'.state = (IF more THEN "more" ELSE "end")
      /\ walk'.seen = new /\ walk'.page = data
  BY DEF Cursor!Show
<1>. HIDE DEF fetched, data, more
<1>3. /\ n \in Nat /\ DOMAIN old = 1..n /\ Len(data) \in Nat /\ DOMAIN data = 1..Len(data)
      /\ \A i \in 1..n : old[i] \in Cursor!Rows
      /\ \A i \in 1..Len(data) : data[i] \in S
      /\ data \in Seq(Cursor!Rows)
  BY <1>1, LenProperties, ElementOfSeq
<1>4. /\ new \in Seq(Cursor!Rows) /\ Len(new) = n + Len(data)
      /\ \A i \in 1..n : new[i] = old[i]
      /\ \A i \in 1..Len(data) : new[n + i] = data[i]
  BY <1>3, ConcatProperties
<1>5. DOMAIN new = 1..(n + Len(data))
  BY <1>4, LenProperties
<1>. HIDE DEF new
<1>6. Ordered(new)
  <2>. SUFFICES ASSUME NEW i \in 1..(n + Len(data)), NEW j \in 1..(n + Len(data)), i < j
                PROVE  Cursor!Before(new[i], new[j])
    BY <1>5 DEF Ordered
  <2>1. CASE j <= n
    <3>1. i \in 1..n /\ j \in 1..n
      BY <1>3, <2>1
    <3>. QED  BY <1>3, <1>4, <3>1 DEF Ordered
  <2>2. CASE j > n /\ i <= n
    <3>1. i \in 1..n /\ j - n \in 1..Len(data) /\ n + (j - n) = j
      BY <1>3, <2>2
    <3>2. new[i] = old[i] /\ new[j] = data[j - n] /\ data[j - n] \in S
      BY <1>3, <1>4, <3>1
    <3>. QED  BY <1>3, <3>1, <3>2
  <2>3. CASE i > n
    <3>1. /\ i - n \in 1..Len(data) /\ n + (i - n) = i /\ i - n < j - n
          /\ j - n \in 1..Len(data) /\ n + (j - n) = j
      BY <1>3, <2>3
    <3>2. new[i] = data[i - n] /\ new[j] = data[j - n]
      BY <1>4, <3>1
    <3>. QED  BY <1>1, <1>3, <3>1, <3>2 DEF Ordered
  <2>. QED  BY <1>3, <2>1, <2>2, <2>3
<1>7. ASSUME more
      PROVE  Len(data) > 0 /\ Len(new) > 0 /\ data[Len(data)] = new[Len(new)]
  BY <1>1, <1>3, <1>4, <1>7
<1>8. WalkFits(walk') /\ walk'.state # "off"
  BY <1>1, <1>2, <1>3, <1>4, <1>6, <1>7 DEF WalkFits
<1>9. \A row : Shows(data, row) => Shows(new, row)
  <2>. SUFFICES ASSUME NEW i \in 1..Len(data) PROVE \E j \in 1..(n + Len(data)) : new[j] = data[i]
    BY <1>3, <1>5 DEF Shows
  <2>1. n + i \in 1..(n + Len(data)) /\ new[n + i] = data[i]
    BY <1>3, <1>4
  <2>. QED  BY <2>1
<1>10. ASSUME NEW i \in 1..n PROVE i \in 1..(n + Len(data)) /\ new[i] = old[i]
  BY <1>3, <1>4
<1>11. \A row : Shows(old, row) => Shows(new, row)
  BY <1>3, <1>5, <1>10 DEF Shows
<1>12. \A row : PassedOver(old, row) => PassedOver(new, row)
  <2>. SUFFICES ASSUME NEW row, ~keyset, NEW i \in 1..n, old[i][1] = row[1]
                PROVE  \E j \in DOMAIN new : new[j][1] = row[1]
    BY <1>3 DEF PassedOver
  <2>. QED  BY <1>5, <1>10
<1>13. ASSUME NEW row \in S PROVE Accounts(walk', row)
  <2>1. CASE Shows(data, row)
    BY <1>2, <1>9, <2>1 DEF Accounts
  <2>2. CASE ~Shows(data, row)
    <3>1. more /\ walk'.state = "more"
      BY <1>1, <1>2, <2>2
    <3>. DEFINE last == new[Len(new)]
    <3>2. Cursor!Before(last, row) /\ last \in S /\ Len(new) \in DOMAIN new
      BY <1>1, <1>3, <1>4, <1>5, <1>7, <2>2, <3>1
    <3>. HIDE DEF last
    <3>3. Cursor!After(last, row) \/ (~keyset /\ last[1] = row[1])
      BY <3>2, AfterIsBefore
    <3>4. CASE Cursor!After(last, row)
      BY <1>2, <3>1, <3>4 DEF Accounts, IsAhead, last
    <3>5. CASE ~keyset /\ last[1] = row[1]
      BY <1>2, <3>2, <3>5 DEF Accounts, PassedOver, last
    <3>. QED  BY <3>3, <3>4, <3>5
  <2>. QED  BY <2>1, <2>2
<1>. QED  BY <1>2, <1>8, <1>11, <1>12, <1>13

\* The first state has the invariant.
LEMMA CursorInit == Cursor!Init => CursorInv
<1>. SUFFICES ASSUME Cursor!Init PROVE CursorInv
  OBVIOUS
<1>1. walk = Cursor!NoWalk /\ Cursor!NoWalk.state = "off" /\ stable = {}
  BY DEF Cursor!Init, Cursor!NoWalk
<1>2. walk.seen = <<>> /\ walk.page = <<>> /\ walk.state = "off"
  BY <1>1 DEF Cursor!NoWalk
<1>3. WalkFits(walk)
  BY <1>2, EmptySeq, PlatformAssumption DEF WalkFits, Ordered
<1>. QED  BY <1>1, <1>3 DEF Cursor!Init, CursorInv

\* The parts of CursorInv after a step that leaves the kind of walk alone.
LEMMA CursorInvAfter ==
  ASSUME CursorInv, UNCHANGED <<keyset, desc>>,
         table' \subseteq Cursor!Rows, stable' \subseteq table',
         WalkFits(walk'), walk'.state = "off" => walk' = Cursor!NoWalk /\ stable' = {},
         \A row \in stable' : Accounts(walk', row)
  PROVE  CursorInv'
<1>1. WalkFits(walk)'
  BY DEF WalkFits, Ordered, Cursor!Before, Cursor!Rows
<1>2. \A row : Accounts(walk', row) => Accounts(walk, row)'
  BY DEF Accounts, Shows, PassedOver, IsAhead, Cursor!After, Cursor!KeysetAfter
<1>3. \A row \in stable' : Accounts(walk, row)'
  BY <1>2
<1>. QED  BY <1>1, <1>3 DEF CursorInv, Cursor!Rows, Cursor!NoWalk

\* Every step keeps the invariant.
LEMMA CursorNext == CursorInv /\ [Cursor!Next]_pages => CursorInv'
<1>. SUFFICES ASSUME CursorInv, [Cursor!Next]_pages PROVE CursorInv'
  OBVIOUS
<1>. USE DEF CursorInv
<1>1. CASE Cursor!First
  <2>1. <<>> \in Seq(Cursor!Rows) /\ Ordered(<<>>) /\ DOMAIN <<>> = {}
    BY EmptySeq DEF Ordered
  <2>2. Cursor!Show(Cursor!Fetch(table), <<>>) /\ UNCHANGED <<keyset, desc, table>> /\ stable' = table
    BY <1>1 DEF Cursor!First
  <2>3. /\ WalkFits(walk') /\ walk'.state # "off"
        /\ \A row \in table : Accounts(walk', row)
    BY <2>1, <2>2, ShowKeeps
  <2>. QED  BY <2>2, <2>3, CursorInvAfter
<1>2. CASE Cursor!NextPage
  <2>. DEFINE last == walk.page[Len(walk.page)]
              S == {row \in table : Cursor!After(last, row)}
  <2>1. /\ walk.state = "more" /\ UNCHANGED <<keyset, desc, table, stable>>
        /\ Cursor!Show(Cursor!Fetch(S), walk.seen)
    BY <1>2 DEF Cursor!NextPage, Cursor!Last
  <2>2. /\ Len(walk.seen) \in Nat /\ DOMAIN walk.seen = 1..Len(walk.seen) /\ Len(walk.seen) > 0
        /\ last = walk.seen[Len(walk.seen)]
        /\ \A i \in 1..Len(walk.seen) : walk.seen[i] \in Cursor!Rows
    BY <2>1, LenProperties, ElementOfSeq DEF WalkFits
  <2>3. last \in Cursor!Rows /\ S \subseteq Cursor!Rows
    BY <2>2
  <2>4. \A i \in DOMAIN walk.seen : \A row \in S : Cursor!Before(walk.seen[i], row)
    <3>. SUFFICES ASSUME NEW i \in 1..Len(walk.seen), NEW row \in S
                  PROVE  Cursor!Before(walk.seen[i], row)
      BY <2>2
    <3>1. Cursor!Before(last, row)
      BY <2>3, AfterIsBefore
    <3>2. i = Len(walk.seen) \/ Cursor!Before(walk.seen[i], last)
      BY <2>2 DEF WalkFits, Ordered
    <3>. QED  BY <2>2, <2>3, <3>1, <3>2, BeforeIsOrder
  <2>5. /\ WalkFits(walk') /\ walk'.state # "off"
        /\ \A row \in S : Accounts(walk', row)
        /\ \A row : Shows(walk.seen, row) => Shows(walk'.seen, row)
        /\ \A row : PassedOver(walk.seen, row) => PassedOver(walk'.seen, row)
    <3>. HIDE DEF S
    <3>. QED  BY <2>1, <2>3, <2>4, ShowKeeps DEF WalkFits
  <2>6. ASSUME NEW row \in stable PROVE Accounts(walk', row)
    <3>1. Accounts(walk, row) /\ row \in table
      OBVIOUS
    <3>2. IsAhead(walk, row) => row \in S
      BY <2>2, <3>1 DEF IsAhead
    <3>. HIDE DEF S
    <3>. QED  BY <2>5, <3>1, <3>2 DEF Accounts
  <2>. QED  BY <2>1, <2>5, <2>6, CursorInvAfter
<1>3. CASE Cursor!PreviousPage
  <2>. DEFINE S == {row \in table : Cursor!BeforeCursor(Head(walk.page), row)}
  <2>1. <<>> \in Seq(Cursor!Rows) /\ Ordered(<<>>) /\ DOMAIN <<>> = {}
    BY EmptySeq DEF Ordered
  <2>2. /\ Cursor!Show(Cursor!Fetch(S), <<>>) /\ UNCHANGED <<keyset, desc, table>>
        /\ stable' = S
    BY <1>3 DEF Cursor!PreviousPage
  <2>3. S \subseteq table /\ S \subseteq Cursor!Rows
    OBVIOUS
  <2>. HIDE DEF S
  <2>4. /\ WalkFits(walk') /\ walk'.state # "off"
        /\ \A row \in S : Accounts(walk', row)
    BY <2>1, <2>2, <2>3, ShowKeeps
  <2>. QED  BY <2>2, <2>3, <2>4, CursorInvAfter
<1>4. ASSUME NEW row \in Cursor!Rows, Cursor!Insert(row) PROVE CursorInv'
  <2>1. /\ walk' = walk /\ walk.state # "off" /\ stable' = stable
        /\ table' = table \cup {row} /\ UNCHANGED <<keyset, desc>>
    BY <1>4 DEF Cursor!Insert
  <2>. QED  BY <2>1, CursorInvAfter
<1>5. ASSUME NEW row \in Cursor!Rows, Cursor!Delete(row) PROVE CursorInv'
  <2>1. /\ walk' = walk /\ walk.state # "off" /\ stable' = stable \ {row}
        /\ table' = table \ {row} /\ UNCHANGED <<keyset, desc>>
    BY <1>5 DEF Cursor!Delete
  <2>. QED  BY <2>1, CursorInvAfter
<1>6. CASE UNCHANGED pages
  <2>1. UNCHANGED <<keyset, desc, table, walk, stable>>
    BY <1>6 DEF pages
  <2>. QED  BY <2>1, CursorInvAfter
<1>. QED  BY <1>1, <1>2, <1>3, <1>4, <1>5, <1>6 DEF Cursor!Next

\* The invariant has the types.
LEMMA CursorInvTypes == CursorInv => Cursor!TypeOK
  BY DEF CursorInv, WalkFits, Cursor!TypeOK

\* The invariant says what a walk shows.
LEMMA CursorInvSees == CursorInv => WalkSeesEveryRow
<1>. SUFFICES ASSUME CursorInv PROVE WalkSeesEveryRow
  OBVIOUS
<1>1. /\ walk.seen \in Seq(Cursor!Rows) /\ Ordered(walk.seen)
      /\ DOMAIN walk.seen = 1..Len(walk.seen) /\ Len(walk.seen) \in Nat
      /\ \A i \in 1..Len(walk.seen) : walk.seen[i] \in Cursor!Rows
  BY LenProperties, ElementOfSeq DEF CursorInv, WalkFits
<1>2. \A i, j \in 1..Len(walk.seen) : walk.seen[i] = walk.seen[j] => i = j
  <2>. SUFFICES ASSUME NEW i \in 1..Len(walk.seen), NEW j \in 1..Len(walk.seen),
                       walk.seen[i] = walk.seen[j], i # j
                PROVE  FALSE
    OBVIOUS
  <2>1. i < j \/ j < i
    BY <1>1
  <2>2. Cursor!Before(walk.seen[i], walk.seen[i])
    BY <1>1, <2>1 DEF Ordered
  <2>. QED  BY <1>1, <2>2, BeforeIsOrder
<1>3. Cursor!IsInjective(walk.seen)
  BY <1>1, <1>2 DEF Cursor!IsInjective
<1>4. ASSUME walk.state = "end", NEW row \in stable
      PROVE  \/ row \in Cursor!Range(walk.seen)
             \/ ~keyset /\ \E x \in Cursor!Range(walk.seen) : x[1] = row[1]
  <2>1. Shows(walk.seen, row) \/ PassedOver(walk.seen, row)
    BY <1>4 DEF CursorInv, Accounts, IsAhead
  <2>. QED  BY <2>1 DEF Shows, PassedOver, Cursor!Range
<1>. QED  BY <1>3, <1>4 DEF WalkSeesEveryRow, Cursor!WalkSeesEveryRow

\* A behaviour of the platform is one of the pages.
LEMMA JointCursor ==
  [JointNext]_<<part, vars, voice, chatPage, histories, uploads, webhooks, limits, provider,
                adminPages, texts, pages>>
    => [Cursor!Next]_pages
  BY DEF JointNext, Others

\* For any rows and any limit, whatever rows come and go between the requests: a walk
\* along the pages shows no row twice, and at its end each row that was there all the
\* time, but those that share their field with a row shown, by cursor.
THEOREM WalksSeeEveryRow == JointSpec => []WalkSeesEveryRow
<1>1. JointInit => CursorInv
  BY CursorInit DEF JointInit
<1>. QED  BY <1>1, CursorInvSees, CursorNext, JointCursor, PTL DEF JointSpec

-----------------------------------------------------------------------------
(***************************************************************************)
(* Chunking.  What chunkText has come past (Behind, startChar) is covered  *)
(* by chunks, blank or what its step passes over, and the slice that comes *)
(* ends after it.  What the loop over the sentences has joined is a text   *)
(* in which each character of the input has its place, and the current     *)
(* chunk is the end of that text, from `begin` on.                         *)
(***************************************************************************)

TextChunks ==
  [text : Seq(Chunks!Chars), startChar : Int, endChar : Int, from : Nat, to : Nat]

\* A stretch of a text is of characters, and its characters are the text's.
LEMMA Stretches ==
  ASSUME NEW s \in Seq(Chunks!Chars), NEW a \in Nat, NEW b \in Nat, b <= Len(s)
  PROVE  /\ SubSeq(s, a + 1, b) \in Seq(Chunks!Chars)
         /\ Len(SubSeq(s, a + 1, b)) = IF a < b THEN b - a ELSE 0
         /\ \A i \in 1..(b - a) : SubSeq(s, a + 1, b)[i] = s[a + i]
<1>1. \A i \in a + 1 .. b : s[i] \in Chunks!Chars
  BY ElementOfSeq, LenProperties
<1>2. /\ SubSeq(s, a + 1, b) \in Seq(Chunks!Chars)
      /\ Len(SubSeq(s, a + 1, b)) = IF a + 1 <= b THEN b - (a + 1) + 1 ELSE 0
      /\ \A i \in 1 .. b - (a + 1) + 1 : SubSeq(s, a + 1, b)[i] = s[a + 1 + i - 1]
  BY <1>1, SubSeqProperties
<1>3. Len(s) \in Nat
  BY LenProperties
<1>4. ASSUME NEW i \in 1..(b - a) PROVE SubSeq(s, a + 1, b)[i] = s[a + i]
  <2>1. i \in 1 .. b - (a + 1) + 1 /\ a + 1 + i - 1 = a + i
    OBVIOUS
  <2>. QED  BY <1>2, <2>1
<1>. QED  BY <1>2, <1>3, <1>4

\* A stretch is blank if the text is, there.
LEMMA BlankStretch ==
  ASSUME NEW s \in Seq(Chunks!Chars), NEW a \in Nat, NEW b \in Nat, b <= Len(s)
  PROVE  Chunks!Blank(SubSeq(s, a + 1, b)) <=> \A i \in a + 1 .. b : s[i] = "blank"
<1>. DEFINE t == SubSeq(s, a + 1, b)
<1>1. t \in Seq(Chunks!Chars) /\ Len(t) = (IF a < b THEN b - a ELSE 0)
      /\ \A i \in 1..(b - a) : t[i] = s[a + i]
  BY Stretches
<1>. HIDE DEF t
<1>2. DOMAIN t = 1..(b - a)
  BY <1>1, LenProperties
<1>3. ASSUME \A i \in DOMAIN t : t[i] = "blank", NEW i \in a + 1 .. b PROVE s[i] = "blank"
  <2>1. i - a \in 1..(b - a) /\ a + (i - a) = i
    OBVIOUS
  <2>. QED  BY <1>1, <1>2, <1>3, <2>1
<1>4. ASSUME \A i \in a + 1 .. b : s[i] = "blank", NEW i \in DOMAIN t PROVE t[i] = "blank"
  <2>1. i \in 1..(b - a) /\ a + i \in a + 1 .. b
    BY <1>2
  <2>. QED  BY <1>1, <1>4, <2>1
<1>. QED  BY <1>3, <1>4 DEF Chunks!Blank, t

\* What is put behind a text leaves its stretches as they are, and makes the
\* one at its end longer.
LEMMA StretchOfJoin ==
  ASSUME NEW s \in Seq(Chunks!Chars), NEW t \in Seq(Chunks!Chars),
         NEW a \in Nat, NEW b \in Nat, a <= Len(s), b <= Len(s)
  PROVE  /\ SubSeq(s \o t, a + 1, b) = SubSeq(s, a + 1, b)
         /\ SubSeq(s \o t, a + 1, Len(s \o t)) = SubSeq(s, a + 1, Len(s)) \o t
<1>. DEFINE u == s \o t
<1>1. /\ u \in Seq(Chunks!Chars) /\ Len(s) \in Nat /\ Len(t) \in Nat /\ Len(u) = Len(s) + Len(t)
      /\ \A i \in 1 .. Len(s) + Len(t) : u[i] = IF i <= Len(s) THEN s[i] ELSE t[i - Len(s)]
  BY ConcatProperties, LenProperties
<1>. HIDE DEF u
<1>2. SubSeq(u, a + 1, b) = SubSeq(s, a + 1, b)
  <2>. DEFINE v == SubSeq(u, a + 1, b)
              w == SubSeq(s, a + 1, b)
  <2>1. /\ v \in Seq(Chunks!Chars) /\ Len(v) = (IF a < b THEN b - a ELSE 0)
        /\ \A i \in 1..(b - a) : v[i] = u[a + i]
    BY <1>1, Stretches
  <2>2. /\ w \in Seq(Chunks!Chars) /\ Len(w) = (IF a < b THEN b - a ELSE 0)
        /\ \A i \in 1..(b - a) : w[i] = s[a + i]
    BY <1>1, Stretches
  <2>. HIDE DEF v, w
  <2>3. ASSUME NEW i \in 1..Len(v) PROVE v[i] = w[i]
    <3>1. i \in 1..(b - a) /\ a + i \in 1 .. Len(s) + Len(t) /\ a + i <= Len(s)
      BY <1>1, <2>1
    <3>. QED  BY <1>1, <2>1, <2>2, <3>1
  <2>4. v = w
    BY <2>1, <2>2, <2>3, SeqEqual
  <2>. QED  BY <2>4 DEF v, w
<1>3. SubSeq(u, a + 1, Len(u)) = SubSeq(s, a + 1, Len(s)) \o t
  <2>. DEFINE v == SubSeq(u, a + 1, Len(u))
              w == SubSeq(s, a + 1, Len(s))
              x == w \o t
  <2>1. /\ v \in Seq(Chunks!Chars) /\ Len(v) = (IF a < Len(u) THEN Len(u) - a ELSE 0)
        /\ \A i \in 1..(Len(u) - a) : v[i] = u[a + i]
    BY <1>1, Stretches
  <2>2. /\ w \in Seq(Chunks!Chars) /\ Len(w) = (IF a < Len(s) THEN Len(s) - a ELSE 0)
        /\ \A i \in 1..(Len(s) - a) : w[i] = s[a + i]
    BY <1>1, Stretches
  <2>. HIDE DEF v, w
  <2>3. /\ x \in Seq(Chunks!Chars) /\ Len(x) = Len(w) + Len(t)
        /\ \A i \in 1 .. Len(w) + Len(t) : x[i] = IF i <= Len(w) THEN w[i] ELSE t[i - Len(w)]
    BY <2>2, ConcatProperties
  <2>. HIDE DEF x
  <2>4. Len(v) = Len(u) - a /\ Len(w) = Len(s) - a /\ Len(x) = Len(v)
    BY <1>1, <2>1, <2>2, <2>3
  <2>5. ASSUME NEW i \in 1..Len(v) PROVE v[i] = x[i]
    <3>1. i \in 1..(Len(u) - a) /\ a + i \in 1 .. Len(s) + Len(t) /\ i \in 1 .. Len(w) + Len(t)
      BY <1>1, <2>4
    <3>2. v[i] = u[a + i]
      BY <2>1, <3>1
    <3>3. CASE i <= Len(w)
      <4>1. i \in 1..(Len(s) - a) /\ a + i <= Len(s)
        BY <1>1, <2>4, <3>1, <3>3
      <4>2. x[i] = w[i] /\ w[i] = s[a + i] /\ u[a + i] = s[a + i]
        BY <1>1, <2>2, <2>3, <3>1, <3>3, <4>1
      <4>. QED  BY <3>2, <4>2
    <3>4. CASE ~(i <= Len(w))
      <4>1. ~(a + i <= Len(s)) /\ a + i - Len(s) = i - Len(w)
        BY <1>1, <2>4, <3>1, <3>4
      <4>2. x[i] = t[i - Len(w)] /\ u[a + i] = t[a + i - Len(s)]
        BY <1>1, <2>3, <3>1, <3>4, <4>1
      <4>. QED  BY <3>2, <4>1, <4>2
    <3>. QED  BY <3>3, <3>4
  <2>6. v = x
    BY <2>1, <2>3, <2>4, <2>5, SeqEqual
  <2>. QED  BY <2>6 DEF v, w, x
<1>. QED  BY <1>2, <1>3 DEF u

\* The end of the end of a text is an end of the text.
LEMMA StretchOfEnd ==
  ASSUME NEW s \in Seq(Chunks!Chars), NEW a \in Nat, NEW c \in Nat, a + c <= Len(s)
  PROVE  SubSeq(SubSeq(s, a + 1, Len(s)), c + 1, Len(s) - a) = SubSeq(s, a + c + 1, Len(s))
<1>. DEFINE t == SubSeq(s, a + 1, Len(s))
            v == SubSeq(t, c + 1, Len(s) - a)
            w == SubSeq(s, (a + c) + 1, Len(s))
<1>1. Len(s) \in Nat
  BY LenProperties
<1>2. /\ t \in Seq(Chunks!Chars) /\ Len(t) = Len(s) - a
      /\ \A i \in 1..(Len(s) - a) : t[i] = s[a + i]
  BY <1>1, Stretches
<1>. HIDE DEF t
<1>3. /\ v \in Seq(Chunks!Chars) /\ Len(v) = Len(s) - a - c
      /\ \A i \in 1..(Len(s) - a - c) : v[i] = t[c + i]
  <2>1. Len(s) - a \in Nat /\ Len(s) - a <= Len(t)
    BY <1>1, <1>2
  <2>. QED  BY <1>1, <1>2, <2>1, Stretches
<1>4. /\ w \in Seq(Chunks!Chars) /\ Len(w) = Len(s) - (a + c)
      /\ \A i \in 1..(Len(s) - (a + c)) : w[i] = s[(a + c) + i]
  <2>1. a + c \in Nat
    OBVIOUS
  <2>. QED  BY <1>1, <2>1, Stretches
<1>. HIDE DEF v, w
<1>5. ASSUME NEW i \in 1..Len(v) PROVE v[i] = w[i]
  <2>1. /\ i \in 1..(Len(s) - a - c) /\ i \in 1..(Len(s) - (a + c)) /\ c + i \in 1..(Len(s) - a)
        /\ a + (c + i) = (a + c) + i
    BY <1>1, <1>3
  <2>. QED  BY <1>2, <1>3, <1>4, <2>1
<1>6. Len(v) = Len(w)
  BY <1>1, <1>3, <1>4
<1>7. v = w
  BY <1>3, <1>4, <1>5, <1>6, SeqEqual
<1>. QED  BY <1>7 DEF t, v, w

\* What is left of a text without the blanks around it is a text.
LEMMA TrimTypes ==
  ASSUME NEW s \in Seq(Chunks!Chars)
  PROVE  Chunks!Trim(s) \in Seq(Chunks!Chars)
<1>. DEFINE kept == {i \in DOMAIN s : s[i] # "blank"}
<1>1. Len(s) \in Nat /\ DOMAIN s = 1..Len(s)
  BY LenProperties
<1>2. CASE kept = {}
  <2>1. Chunks!Trim(s) = <<>>
    BY <1>2 DEF Chunks!Trim
  <2>. QED  BY <2>1, EmptySeq
<1>3. CASE kept # {}
  <2>1. kept \subseteq 1..Len(s)
    BY <1>1
  <2>2. Chunks!Trim(s) = SubSeq(s, Chunks!Min(kept), Chunks!Max(kept))
    BY <1>3 DEF Chunks!Trim
  <2>. HIDE DEF kept
  <2>3. \E x \in kept : \A y \in kept : x <= y
    <3>1. kept \in SUBSET Nat
      BY <2>1
    <3>. QED  BY <1>3, <3>1, LeastNat
  <2>4. \E x \in kept : \A y \in kept : x >= y
    <3>. DEFINE far == {Len(s) - x : x \in kept}
    <3>1. far \in SUBSET Nat
      <4>1. ASSUME NEW x \in kept PROVE Len(s) - x \in Nat
        BY <1>1, <2>1
      <4>. QED  BY <4>1
    <3>2. far # {}
      BY <1>3
    <3>3. \E n \in far : \A m \in far : n <= m
      <4>. HIDE DEF far
      <4>. QED  BY <3>1, <3>2, LeastNat
    <3>4. PICK x \in kept : \A y \in kept : Len(s) - x <= Len(s) - y
      BY <3>3
    <3>5. ASSUME NEW y \in kept PROVE x >= y
      <4>1. Len(s) - x <= Len(s) - y /\ x \in Int /\ y \in Int
        BY <2>1, <3>4
      <4>. QED  BY <1>1, <4>1
    <3>. QED  BY <3>5
  <2>5. Chunks!Min(kept) \in kept /\ Chunks!Max(kept) \in kept
    BY <2>3, <2>4 DEF Chunks!Min, Chunks!Max
  <2>6. Chunks!Min(kept) \in 1..Len(s) /\ Chunks!Max(kept) \in 1..Len(s)
    BY <2>1, <2>5
  <2>. DEFINE a == Chunks!Min(kept)
              b == Chunks!Max(kept)
  <2>. HIDE DEF a, b
  <2>7. a \in 1..Len(s) /\ b \in 1..Len(s)
    BY <2>6 DEF a, b
  <2>8. \A i \in a..b : s[i] \in Chunks!Chars
    <3>1. ASSUME NEW i \in a..b PROVE i \in 1..Len(s)
      BY <1>1, <2>7
    <3>. QED  BY <3>1, ElementOfSeq
  <2>9. SubSeq(s, a, b) \in Seq(Chunks!Chars)
    BY <1>1, <2>7, <2>8, SubSeqProperties
  <2>. QED  BY <2>2, <2>9 DEF a, b
<1>. QED  BY <1>2, <1>3

-----------------------------------------------------------------------------
\* The end of the slice before the one that comes.
Behind == IF startChar = 0 THEN 0 ELSE startChar + input.options.overlap

Covers(s, i) == \E k \in DOMAIN s : s[k].startChar < i /\ i <= s[k].endChar

\* What a text may lose: blanks, and what lies between two slices.
MayLose(i) == input.text[i] = "blank" \/ Chunks!PassedOver(i)

\* The last of some chunks ends before a place of the text, or only what may be
\* lost follows it.
EndsBefore(s, n) == s # <<>> =>
  /\ s[Len(s)].endChar <= n
  /\ \A i \in s[Len(s)].endChar + 1 .. n : MayLose(i)

\* What CoversText says of a chunk.
SliceFits(s, k) ==
  /\ s[k].text = SubSeq(input.text, s[k].startChar + 1, s[k].endChar)
  /\ Len(s[k].text) <= input.options.size
  /\ k > 1 =>
       /\ s[k-1].endChar < s[k].endChar
       /\ s[k-1].endChar - s[k].startChar <= input.options.overlap
       /\ \A i \in s[k-1].endChar + 1 .. s[k].startChar + input.options.overlap : MayLose(i)

\* A slice that is not the last begins some steps after the start, inside the
\* text; no step is made with a NaN.
SliceStarts ==
  /\ startChar \in Nat /\ startChar < Len(input.text)
  /\ Behind \in Nat /\ Behind < Len(input.text)
  /\ input.options.nan => startChar = 0
  /\ \E n \in Nat : n <= startChar
                    /\ startChar = n * (input.options.size - input.options.overlap)

SlicesInv ==
  /\ ~returned => SliceStarts
  /\ startChar = 0 => chunks = <<>>
  /\ \A i \in 1..Len(input.text) : returned \/ i <= startChar =>
       MayLose(i) \/ Covers(chunks, i)
  /\ ~returned => \A i \in Behind + 1 .. startChar : Chunks!PassedOver(i)
  /\ ~returned => EndsBefore(chunks, Behind)
  /\ \A k \in DOMAIN chunks : SliceFits(chunks, k)

\* The types of what is called.
LEMMA InputTypes ==
  ASSUME Chunks!TypeOK
  PROVE  /\ input.text \in Seq(Chunks!Chars) /\ Len(input.text) \in Nat
         /\ DOMAIN input.text = 1..Len(input.text)
         /\ input.options.size \in Int /\ input.options.overlap \in Int
         /\ input.options.size > 0 /\ input.options.overlap < input.options.size
         /\ input.options.nan \in BOOLEAN
         /\ chunks \in Seq(TextChunks) /\ Len(chunks) \in Nat /\ DOMAIN chunks = 1..Len(chunks)
         /\ \A k \in DOMAIN chunks : chunks[k] \in TextChunks
         /\ startChar \in Int /\ begin \in Nat
         /\ input.sentences \in BOOLEAN /\ returned \in BOOLEAN
<1>1. input.text \in Seq(Chunks!Chars) /\ chunks \in Seq(TextChunks)
  BY DEF Chunks!TypeOK, Chunks!Text, TextChunks
<1>2. input.options \in Chunks!Options
  BY DEF Chunks!TypeOK
<1>3. \A k \in 1..Len(chunks) : chunks[k] \in TextChunks
  BY <1>1, ElementOfSeq
<1>4. /\ input.options \in [size : 1..MaxLength, overlap : -MaxLength..MaxLength, nan : BOOLEAN]
      /\ input.options.nan => input.options.overlap = 0
      /\ ~input.options.nan => input.options.overlap < input.options.size
  BY <1>2, Zenon DEF Chunks!Options
<1>5. /\ input.options.size \in 1..MaxLength /\ input.options.overlap \in -MaxLength..MaxLength
      /\ input.options.nan \in BOOLEAN
  BY <1>4
<1>6. input.options.overlap = 0 \/ input.options.overlap < input.options.size
  BY <1>4
<1>7. /\ input.options.size \in Int /\ input.options.overlap \in Int
      /\ input.options.size > 0 /\ input.options.overlap < input.options.size
  <2>1. PICK size \in 1..MaxLength : size = input.options.size
    BY <1>5
  <2>2. PICK overlap \in -MaxLength..MaxLength : overlap = input.options.overlap
    BY <1>5
  <2>. QED  BY <1>6, <2>1, <2>2
<1>8. /\ startChar \in Int /\ begin \in Nat /\ input.sentences \in BOOLEAN /\ returned \in BOOLEAN
  BY DEF Chunks!TypeOK
<1>. QED  BY <1>1, <1>3, <1>5, <1>7, <1>8, LenProperties

\* What is passed over: all behind the first slice with a NaN, and with a number
\* what follows a slice up to the start of the next.
LEMMA Passed ==
  ASSUME Chunks!TypeOK, ~returned, SliceStarts
  PROVE  \A i \in 1..Len(input.text) :
           /\ startChar + input.options.size < i
           /\ \/ input.options.nan
              \/ i <= startChar + (input.options.size - input.options.overlap)
           => Chunks!PassedOver(i)
<1>. DEFINE size == input.options.size
            step == input.options.size - input.options.overlap
<1>1. /\ Len(input.text) \in Nat /\ size \in Int /\ step \in Int /\ startChar \in Nat
      /\ startChar < Len(input.text) /\ input.options.nan \in BOOLEAN
      /\ input.options.nan => startChar = 0
  BY InputTypes DEF SliceStarts
<1>2. PICK n \in Nat : n <= startChar /\ startChar = n * step
  BY DEF SliceStarts
<1>3. n \in 0..Len(input.text)
  BY <1>1, <1>2
<1>. HIDE DEF size, step
<1>4. ASSUME NEW i \in 1..Len(input.text), startChar + size < i,
             input.options.nan \/ i <= startChar + step
      PROVE  Chunks!PassedOver(i)
  <2>1. CASE input.options.nan
    <3>1. i > size
      BY <1>1, <1>4, <2>1
    <3>. QED  BY <2>1, <3>1 DEF Chunks!PassedOver, Chunks!NaN, Chunks!ChunkSize, size
  <2>2. CASE ~input.options.nan
    <3>1. n * step + size < i /\ i <= n * step + step
      BY <1>2, <1>4, <2>2
    <3>2. \E m \in 0..Len(input.text) : m * step + size < i /\ i <= m * step + step
      BY <1>3, <3>1
    <3>. QED  BY <2>2, <3>2 DEF Chunks!PassedOver, Chunks!NaN, Chunks!ChunkSize, Chunks!Overlap,
                                Chunks!Text, size, step
  <2>. QED  BY <2>1, <2>2
<1>. QED  BY <1>4 DEF size, step

\* What is passed over depends on what is called alone.
LEMMA PassedStays ==
  ASSUME input' = input, NEW CONSTANT i
  PROVE  Chunks!PassedOver(i)' = Chunks!PassedOver(i) /\ MayLose(i)' = MayLose(i)
BY DEF Chunks!PassedOver, Chunks!NaN, Chunks!ChunkSize, Chunks!Overlap, Chunks!Text, MayLose

\* What the loop has come past, after a turn that took the slice up to e.
LEMMA SliceMoves ==
  ASSUME Chunks!TypeOK, SlicesInv, Chunks!NextSlice, NEW e,
         e = IF startChar + input.options.size < Len(input.text)
             THEN startChar + input.options.size ELSE Len(input.text)
  PROVE  /\ e \in Nat /\ startChar \in Nat /\ startChar < e /\ e <= Len(input.text)
         /\ Behind \in Nat /\ Behind < e /\ e - startChar <= input.options.size
         /\ startChar # 0 => Behind = startChar + input.options.overlap
         /\ startChar' \in Int /\ startChar' # 0 /\ returned' \in BOOLEAN
         /\ ~returned' => SliceStarts' /\ Behind' = e
         /\ \A i \in 1..Len(input.text) :
              e < i /\ (returned' \/ i <= startChar') => Chunks!PassedOver(i)
<1>. DEFINE text == input.text
            size == input.options.size
            overlap == input.options.overlap
            nan == input.options.nan
<1>1. /\ Len(text) \in Nat /\ size \in Int /\ overlap \in Int /\ size > 0 /\ overlap < size
      /\ nan \in BOOLEAN
  BY InputTypes
<1>2. /\ ~returned /\ input' = input
      /\ startChar' = IF nan THEN -1 ELSE startChar + (size - overlap)
      /\ returned' = (e = Len(text) \/ nan \/ startChar' >= Len(text))
  BY DEF Chunks!NextSlice, Chunks!Step, Chunks!Text, Chunks!ChunkSize, Chunks!Overlap, Chunks!NaN,
         Chunks!NoOffset
<1>3. SliceStarts
  BY <1>2 DEF SlicesInv
<1>4. /\ startChar \in Nat /\ startChar < Len(text) /\ Behind \in Nat /\ Behind < Len(text)
      /\ nan => startChar = 0
      /\ Behind = IF startChar = 0 THEN 0 ELSE startChar + overlap
  BY <1>3 DEF SliceStarts, Behind
<1>5. PICK n \in Nat : n <= startChar /\ startChar = n * (size - overlap)
  BY <1>3 DEF SliceStarts
<1>6. /\ e \in Nat /\ startChar < e /\ e <= Len(text) /\ Behind < e /\ e - startChar <= size
      /\ e # Len(text) => e = startChar + size /\ e < Len(text)
  BY <1>1, <1>4
<1>7. returned' \in BOOLEAN /\ (returned' <=> e = Len(text) \/ nan \/ startChar' >= Len(text))
  BY <1>2, Zenon
<1>8. /\ nan => startChar' = -1
      /\ ~nan => startChar' = startChar + (size - overlap)
  BY <1>2
<1>9. startChar' \in Int /\ startChar' # 0 /\ (~nan => startChar' > 0)
  BY <1>1, <1>4, <1>8
<1>10. ASSUME ~returned' PROVE SliceStarts' /\ Behind' = e
  <2>0. ~nan /\ e # Len(text) /\ ~(startChar' >= Len(text))
    BY <1>7, <1>10, Zenon
  <2>1. ~nan /\ e = startChar + size /\ e < Len(text) /\ startChar' < Len(text)
    BY <1>1, <1>6, <1>9, <2>0
  <2>2. startChar' = startChar + (size - overlap) /\ startChar' > 0 /\ startChar' + overlap = e
    <3>1. startChar' = startChar + (size - overlap) /\ startChar' > 0
      BY <1>8, <1>9, <2>1
    <3>2. /\ startChar \in Int /\ size \in Int /\ overlap \in Int /\ startChar' \in Int
          /\ e = startChar + size
      BY <1>1, <1>4, <1>9, <2>1
    <3>. HIDE DEF size, overlap
    <3>. QED  BY <3>1, <3>2
  <2>3. Behind' = IF startChar' = 0 THEN 0 ELSE startChar' + input'.options.overlap
    BY DEF Behind
  <2>4. Behind' = e
    BY <1>2, <2>2, <2>3
  <2>5. n + 1 \in Nat /\ n + 1 <= startChar' /\ startChar' = (n + 1) * (size - overlap)
    <3>1. PICK step \in Int : step = size - overlap /\ step >= 1
      BY <1>1
    <3>2. startChar = n * step /\ startChar' = startChar + step
      BY <1>5, <2>2, <3>1
    <3>3. (n + 1) * step = n * step + step
      BY <3>1
    <3>. QED  BY <1>4, <1>5, <3>1, <3>2, <3>3
  <2>6. input'.text = text /\ input'.options.nan = nan
        /\ input'.options.size = size /\ input'.options.overlap = overlap
    BY <1>2
  <2>7. /\ startChar' \in Nat /\ startChar' < Len(input'.text)
        /\ Behind' \in Nat /\ Behind' < Len(input'.text)
        /\ input'.options.nan => startChar' = 0
    BY <1>6, <1>9, <2>1, <2>2, <2>4, <2>6
  <2>8. \E m \in Nat : m <= startChar'
                       /\ startChar' = m * (input'.options.size - input'.options.overlap)
    BY <2>5, <2>6
  <2>. QED  BY <2>4, <2>7, <2>8 DEF SliceStarts
<1>11. ASSUME NEW i \in 1..Len(text), e < i, returned' \/ i <= startChar'
       PROVE  Chunks!PassedOver(i)
  <2>1. e = startChar + size /\ i \in Int
    BY <1>1, <1>6, <1>11
  <2>2. nan \/ i <= startChar + (size - overlap)
    <3>1. CASE nan
      BY <3>1
    <3>2. CASE ~nan /\ returned'
      <4>1. startChar' >= Len(text)
        BY <1>1, <1>6, <1>7, <1>11, <3>2
      <4>. QED  BY <1>1, <1>4, <1>8, <3>2, <4>1
    <3>3. CASE ~nan /\ i <= startChar'
      BY <1>8, <3>3
    <3>. QED  BY <1>1, <1>11, <3>1, <3>2, <3>3
  <2>. QED  BY <1>2, <1>3, <1>11, <2>1, <2>2, Passed
<1>. QED  BY <1>4, <1>6, <1>7, <1>9, <1>10, <1>11

\* A turn of chunkText's loop.
LEMMA SlicesNext ==
  ASSUME Chunks!TypeOK, SlicesInv, Chunks!NextSlice
  PROVE  Chunks!TypeOK' /\ SlicesInv'
<1>. DEFINE text == input.text
            size == input.options.size
            overlap == input.options.overlap
<1>1. PICK e : e = IF startChar + size < Len(text) THEN startChar + size ELSE Len(text)
  OBVIOUS
<1>2. PICK slice : slice = SubSeq(text, startChar + 1, e)
  OBVIOUS
<1>3. /\ ~input.sentences /\ ~returned /\ input' = input /\ begin' = begin
      /\ currentChunk' = currentChunk /\ lastIndex' = lastIndex /\ padded' = padded
  BY DEF Chunks!NextSlice
<1>4. chunks' = IF Chunks!Blank(slice) THEN chunks
                ELSE Append(chunks, Chunks!Chunk(slice, startChar, startChar, e - startChar))
  BY <1>1, <1>2 DEF Chunks!NextSlice, Chunks!Text, Chunks!ChunkSize
<1>5. /\ text \in Seq(Chunks!Chars) /\ Len(text) \in Nat /\ size \in Int /\ overlap \in Int
      /\ overlap < size
      /\ chunks \in Seq(TextChunks) /\ Len(chunks) \in Nat /\ DOMAIN chunks = 1..Len(chunks)
      /\ \A k \in DOMAIN chunks : chunks[k] \in TextChunks
  BY InputTypes
<1>6. /\ e \in Nat /\ startChar \in Nat /\ startChar < e /\ e <= Len(text)
      /\ Behind \in Nat /\ Behind < e /\ e - startChar <= size
      /\ startChar # 0 => Behind = startChar + overlap
      /\ startChar' \in Int /\ startChar' # 0 /\ returned' \in BOOLEAN
      /\ ~returned' => SliceStarts' /\ Behind' = e
      /\ \A i \in 1..Len(text) :
           e < i /\ (returned' \/ i <= startChar') => Chunks!PassedOver(i)
  BY <1>1, SliceMoves
<1>7. /\ \A i \in 1..startChar : MayLose(i) \/ Covers(chunks, i)
      /\ \A i \in Behind + 1 .. startChar : Chunks!PassedOver(i)
      /\ EndsBefore(chunks, Behind)
      /\ startChar = 0 => chunks = <<>>
  BY <1>3, <1>5, <1>6 DEF SlicesInv
<1>8. slice \in Seq(Chunks!Chars) /\ Len(slice) = e - startChar
  BY <1>2, <1>5, <1>6, Stretches
<1>9. ASSUME NEW i PROVE Chunks!PassedOver(i)' = Chunks!PassedOver(i) /\ MayLose(i)' = MayLose(i)
  BY <1>3, PassedStays
<1>. SUFFICES /\ Chunks!TypeOK'
              /\ \A i \in 1..e : MayLose(i) \/ Covers(chunks', i)
              /\ EndsBefore(chunks', e)
              /\ \A k \in DOMAIN chunks' : SliceFits(chunks', k)
  <2>1. ASSUME \A i \in 1..e : MayLose(i) \/ Covers(chunks', i),
               NEW i \in 1..Len(text), returned' \/ i <= startChar'
        PROVE  MayLose(i) \/ Covers(chunks', i)
    BY <1>5, <1>6, <2>1 DEF MayLose
  <2>2. ASSUME ~returned', NEW i \in Behind' + 1 .. startChar' PROVE Chunks!PassedOver(i)
    <3>1. /\ Behind' = e /\ startChar' \in Nat /\ startChar' < Len(text)
      BY <1>3, <1>6, <2>2 DEF SliceStarts
    <3>. QED  BY <1>5, <1>6, <2>2, <3>1
  <2>3. ASSUME EndsBefore(chunks', e) PROVE ~returned' => EndsBefore(chunks, Behind)'
    BY <1>6, <1>9, <2>3 DEF EndsBefore
  <2>4. ASSUME \A k \in DOMAIN chunks' : SliceFits(chunks', k)
        PROVE  (\A k \in DOMAIN chunks : SliceFits(chunks, k))'
    BY <1>3, <1>9, <2>4 DEF SliceFits
  <2>5. input'.text = text /\ \A i : Covers(chunks, i)' <=> Covers(chunks', i)
    BY <1>3 DEF Covers
  <2>. QED  BY <1>6, <1>9, <2>1, <2>2, <2>3, <2>4, <2>5 DEF SlicesInv
<1>10. CASE Chunks!Blank(slice)
  <2>1. chunks' = chunks
    BY <1>4, <1>10
  <2>2. \A i \in startChar + 1 .. e : MayLose(i)
    BY <1>2, <1>5, <1>6, <1>10, BlankStretch DEF MayLose
  <2>3. \A i \in 1..e : MayLose(i) \/ Covers(chunks', i)
    <3>1. \A i \in 1..e : i \in 1..startChar \/ i \in startChar + 1 .. e
      BY <1>6
    <3>. QED  BY <1>7, <2>1, <2>2, <3>1
  <2>4. EndsBefore(chunks, e)
    <3>. SUFFICES ASSUME chunks # <<>>
                  PROVE  /\ chunks[Len(chunks)].endChar <= e
                         /\ \A i \in chunks[Len(chunks)].endChar + 1 .. e : MayLose(i)
      BY DEF EndsBefore
    <3>1. PICK n : n = chunks[Len(chunks)].endChar
      OBVIOUS
    <3>2. n \in Int
      <4>1. Len(chunks) \in 1..Len(chunks)
        BY <1>5, EmptySeq
      <4>. QED  BY <1>5, <3>1, <4>1 DEF TextChunks
    <3>3. n <= Behind /\ \A i \in n + 1 .. Behind : MayLose(i)
      BY <1>7, <3>1 DEF EndsBefore
    <3>4. \A i \in Behind + 1 .. startChar : MayLose(i)
      BY <1>7 DEF MayLose
    <3>5. \A i \in n + 1 .. e : \/ i \in n + 1 .. Behind \/ i \in Behind + 1 .. startChar
                                \/ i \in startChar + 1 .. e
      BY <1>6, <3>2
    <3>. QED  BY <1>6, <2>2, <3>1, <3>2, <3>3, <3>4, <3>5
  <2>5. Chunks!TypeOK'
    BY <1>3, <1>6, <2>1 DEF Chunks!TypeOK, Chunks!Text
  <2>. QED  BY <2>1, <2>3, <2>4, <2>5 DEF SlicesInv
<1>11. CASE ~Chunks!Blank(slice)
  <2>. DEFINE n == Len(chunks)
  <2>1. PICK c : c = Chunks!Chunk(slice, startChar, startChar, e - startChar)
    OBVIOUS
  <2>2. c \in TextChunks /\ c.text = slice /\ c.startChar = startChar /\ c.endChar = e
    <3>1. startChar # -1 /\ startChar + (e - startChar) = e
      BY <1>6
    <3>. QED  BY <1>6, <1>8, <2>1, <3>1 DEF Chunks!Chunk, TextChunks, Chunks!NoOffset
  <2>3. chunks' = Append(chunks, c)
    BY <1>4, <1>11, <2>1
  <2>4. /\ chunks' \in Seq(TextChunks) /\ Len(chunks') = n + 1 /\ chunks'[n + 1] = c
        /\ chunks' # <<>> /\ \A k \in 1..n : chunks'[k] = chunks[k]
    BY <1>5, <2>2, <2>3, AppendProperties
  <2>5. DOMAIN chunks' = 1..(n + 1)
    BY <2>4, LenProperties
  <2>6. Chunks!TypeOK'
    BY <1>3, <1>6, <2>4 DEF Chunks!TypeOK, Chunks!Text, TextChunks
  <2>7. ASSUME NEW i \in 1..e PROVE MayLose(i) \/ Covers(chunks', i)
    <3>1. CASE i \in 1..startChar /\ Covers(chunks, i)
      <4>1. PICK k \in DOMAIN chunks : chunks[k].startChar < i /\ i <= chunks[k].endChar
        BY <3>1 DEF Covers
      <4>2. k \in DOMAIN chunks' /\ chunks'[k] = chunks[k]
        BY <1>5, <2>4, <2>5
      <4>. QED  BY <4>1, <4>2 DEF Covers
    <3>2. CASE ~(i \in 1..startChar)
      <4>1. startChar < i /\ i <= e
        BY <1>6, <3>2
      <4>2. n + 1 \in DOMAIN chunks'
        BY <1>5, <2>5
      <4>. QED  BY <2>2, <2>4, <4>1, <4>2 DEF Covers
    <3>. QED  BY <1>7, <3>1, <3>2
  <2>8. EndsBefore(chunks', e)
    <3>1. chunks'[Len(chunks')].endChar = e /\ e <= e
      BY <1>6, <2>2, <2>4
    <3>2. ASSUME NEW i \in e + 1 .. e PROVE MayLose(i)
      BY <1>6
    <3>. QED  BY <3>1, <3>2 DEF EndsBefore
  <2>9. ASSUME NEW k \in 1..n PROVE SliceFits(chunks', k)
    <3>1. SliceFits(chunks, k)
      BY <1>5 DEF SlicesInv
    <3>2. chunks'[k] = chunks[k] /\ (k > 1 => chunks'[k-1] = chunks[k-1])
      BY <1>5, <2>4
    <3>. QED  BY <3>1, <3>2 DEF SliceFits
  <2>10. SliceFits(chunks', n + 1)
    <3>1. Len(slice) <= size
      BY <1>6, <1>8
    <3>2. ASSUME n + 1 > 1
          PROVE  LET p == chunks[n] IN
                 /\ p.endChar < e /\ p.endChar - startChar <= overlap
                 /\ \A i \in p.endChar + 1 .. startChar + overlap : MayLose(i)
      <4>1. PICK m : m = chunks[n].endChar
        OBVIOUS
      <4>2. n \in 1..n /\ chunks # <<>>
        BY <1>5, <3>2, EmptySeq
      <4>3. m \in Int
        BY <1>5, <4>1, <4>2 DEF TextChunks
      <4>4. startChar # 0 /\ Behind = startChar + overlap
        BY <1>6, <1>7, <4>2
      <4>5. m <= Behind /\ \A i \in m + 1 .. Behind : MayLose(i)
        BY <1>7, <4>1, <4>2 DEF EndsBefore
      <4>6. m < e /\ m - startChar <= overlap
        BY <1>5, <1>6, <4>3, <4>4, <4>5
      <4>. QED  BY <4>1, <4>4, <4>5, <4>6
    <3>3. n + 1 > 1 => n \in 1..n /\ chunks'[n] = chunks[n] /\ (n + 1) - 1 = n
      BY <1>5, <2>4
    <3>. QED  BY <1>2, <1>5, <2>2, <2>4, <3>1, <3>2, <3>3 DEF SliceFits
  <2>11. \A k \in DOMAIN chunks' : SliceFits(chunks', k)
    <3>1. \A k \in 1..(n + 1) : k \in 1..n \/ k = n + 1
      BY <1>5
    <3>. QED  BY <2>5, <2>9, <2>10, <3>1
  <2>. QED  BY <2>6, <2>7, <2>8, <2>11
<1>. QED  BY <1>10, <1>11

-----------------------------------------------------------------------------
\* Where a chunk begins, from the end of the one before it.
BeginsWell(from, end) ==
  /\ from <= end
  /\ input.options.nan => from = 0
  /\ ~input.options.nan => from = end \/ end - from <= input.options.overlap

\* The options with which the offsets count the characters of the sentences.
KeepsOffsets == ~input.options.nan /\ input.options.overlap >= 0

\* What KeepsSentences says of a chunk of some sentences p.
SentenceFits(s, p, k) ==
  LET end == IF k = 1 THEN 0 ELSE s[k-1].to IN
  /\ s[k].text = Chunks!Trim(SubSeq(p, s[k].from + 1, s[k].to))
  /\ BeginsWell(s[k].from, end)
  /\ KeepsOffsets => s[k].startChar = s[k].from /\ s[k].endChar = s[k].to
  /\ s[k].to <= Len(p)

\* The current chunk is the end of the sentences, and begins where the last
\* chunk ends or up to the overlap before.
CurrentFits ==
  /\ begin + Len(currentChunk) = Len(padded)
  /\ currentChunk = SubSeq(padded, begin + 1, Len(padded))
  /\ chunks = <<>> => begin = 0
  /\ input.options.nan => begin = 0
  /\ KeepsOffsets => startChar = begin
  /\ ~returned /\ chunks # <<>> =>
       ~Chunks!Blank(currentChunk) /\ BeginsWell(begin, chunks[Len(chunks)].to)

\* The words of the text up to n, and no others, are in their places.
WordsIn(p, n) ==
  /\ \A i \in 1..n : input.text[i] # "blank" =>
       Chunks!Place(i) \in DOMAIN p /\ p[Chunks!Place(i)] = input.text[i]
  /\ \A j \in DOMAIN p : p[j] # "blank" => \E i \in 1..n : j = Chunks!Place(i)

SentencesInv ==
  /\ CurrentFits
  /\ \A k \in DOMAIN chunks : SentenceFits(chunks, padded, k)
  /\ lastIndex < Len(input.text) => Len(padded) + 1 = Chunks!Place(lastIndex + 1)
  /\ WordsIn(padded, lastIndex)
  /\ returned =>
       /\ lastIndex = Len(input.text)
       /\ IF chunks = <<>> THEN Chunks!Blank(input.text)
          ELSE chunks[Len(chunks)].to = Len(padded)

\* The types of the loop over the sentences.
LEMMA SentenceTypes ==
  ASSUME Chunks!TypeOK
  PROVE  /\ currentChunk \in Seq(Chunks!Chars) /\ Len(currentChunk) \in Nat
         /\ padded \in Seq(Chunks!Chars) /\ Len(padded) \in Nat /\ DOMAIN padded = 1..Len(padded)
         /\ lastIndex \in 0..Len(input.text) /\ lastIndex \in Nat /\ begin \in Nat
<1>1. Len(input.text) \in Nat
  BY InputTypes
<1>. QED  BY <1>1, LenProperties DEF Chunks!TypeOK, Chunks!Text

\* The ends of sentences before a character.
EndsUpTo(i) == {j \in Chunks!Closes : j < i}

\* An instance of FiniteSets counts as FiniteSets does.
LEMMA PlaceCounts == \A i : Chunks!Place(i) = i + Cardinality(EndsUpTo(i))
<1>1. ASSUME NEW S PROVE Chunks!Cardinality(S) = Cardinality(S)
  BY DEF Chunks!Cardinality, Cardinality
<1>2. ASSUME NEW i PROVE Chunks!Place(i) = i + Cardinality(EndsUpTo(i))
  BY <1>1 DEF Chunks!Place, EndsUpTo
<1>. QED  BY <1>2

\* Between two ends of sentences, places follow each other as characters do;
\* after an end a place is left for the blank.
LEMMA PlacesFollow ==
  ASSUME Chunks!TypeOK
  PROVE  /\ Chunks!Closes \subseteq 1..Len(input.text)
         /\ Chunks!Place(1) = 1
         /\ \A i \in Nat : Chunks!Place(i) \in Nat
         /\ \A l, i \in Nat : i > l /\ (\A j \in Chunks!Closes : j > l => j >= i)
              => Chunks!Place(i) = i - (l + 1) + Chunks!Place(l + 1)
         /\ \A e \in Chunks!Closes : Chunks!Place(e + 1) = Chunks!Place(e) + 2
<1>. DEFINE C == Chunks!Closes
<1>1. C \subseteq 1..Len(input.text) /\ Len(input.text) \in Nat
  BY InputTypes DEF Chunks!Closes, Chunks!Text
<1>2. \A i : EndsUpTo(i) = {j \in C : j < i}
  BY DEF EndsUpTo
<1>. HIDE DEF C
<1>3. \A i : IsFiniteSet(EndsUpTo(i)) /\ Cardinality(EndsUpTo(i)) \in Nat
  <2>1. IsFiniteSet(1..Len(input.text))
    BY <1>1, FS_Interval
  <2>2. IsFiniteSet(C)
    BY <1>1, <2>1, FS_Subset
  <2>3. ASSUME NEW i PROVE IsFiniteSet(EndsUpTo(i))
    <3>1. EndsUpTo(i) \subseteq C
      BY <1>2
    <3>. QED  BY <2>2, <3>1, FS_Subset
  <2>. QED  BY <2>3, FS_CardinalityType
<1>4. Chunks!Place(1) = 1
  <2>1. ASSUME NEW j \in C PROVE ~(j < 1)
    BY <1>1
  <2>2. EndsUpTo(1) = {}
    BY <1>2, <2>1
  <2>. QED  BY PlaceCounts, <2>2, FS_EmptySet
<1>5. ASSUME NEW l \in Nat, NEW i \in Nat, i > l, \A j \in C : j > l => j >= i
      PROVE  Chunks!Place(i) = i - (l + 1) + Chunks!Place(l + 1)
  <2>1. ASSUME NEW j \in C PROVE j < i <=> j < l + 1
    BY <1>1, <1>5
  <2>2. EndsUpTo(i) = EndsUpTo(l + 1)
    BY <1>2, <2>1
  <2>3. PICK m \in Nat : m = Cardinality(EndsUpTo(l + 1))
    BY <1>3
  <2>4. Chunks!Place(i) = i + m /\ Chunks!Place(l + 1) = l + 1 + m
    BY PlaceCounts, <2>2, <2>3
  <2>. QED  BY <2>4
<1>6. ASSUME NEW e \in C PROVE Chunks!Place(e + 1) = Chunks!Place(e) + 2
  <2>1. ASSUME NEW j \in C PROVE j < e + 1 <=> j < e \/ j = e
    BY <1>1
  <2>2. ~(e < e)
    BY <1>1
  <2>3. EndsUpTo(e + 1) = EndsUpTo(e) \cup {e} /\ e \notin EndsUpTo(e)
    BY <1>2, <2>1, <2>2
  <2>4. Cardinality(EndsUpTo(e + 1)) = Cardinality(EndsUpTo(e)) + 1
    BY <1>3, <2>3, FS_AddElement
  <2>5. PICK m \in Nat : m = Cardinality(EndsUpTo(e))
    BY <1>3
  <2>6. Chunks!Place(e + 1) = e + 1 + (m + 1) /\ Chunks!Place(e) = e + m
    BY PlaceCounts, <2>4, <2>5
  <2>7. e \in Nat
    BY <1>1
  <2>. QED  BY <2>6, <2>7
<1>7. ASSUME NEW i \in Nat PROVE Chunks!Place(i) \in Nat
  <2>1. PICK m \in Nat : m = Cardinality(EndsUpTo(i))
    BY <1>3
  <2>. QED  BY PlaceCounts, <2>1
<1>. QED  BY <1>1, <1>4, <1>5, <1>6, <1>7 DEF C

\* A sentence puts the words up to its end behind those before it.
LEMMA WordsAdded ==
  ASSUME Chunks!TypeOK, SentencesInv, NEW e \in Nat, lastIndex < e, e <= Len(input.text),
         \A j \in Chunks!Closes : j > lastIndex => j >= e,
         NEW s \in Seq(Chunks!Chars), Len(s) >= e - lastIndex,
         \A i \in 1..(e - lastIndex) : s[i] = input.text[lastIndex + i],
         \A i \in 1..Len(s) : i > e - lastIndex => s[i] = "blank"
  PROVE  WordsIn(padded \o s, e)
<1>. DEFINE l == lastIndex
            P == Len(padded)
            q == padded \o s
<1>1. /\ l \in Nat /\ P \in Nat /\ padded \in Seq(Chunks!Chars) /\ DOMAIN padded = 1..P
      /\ l < Len(input.text) /\ Len(input.text) \in Nat /\ Len(s) \in Nat
  BY SentenceTypes, InputTypes, LenProperties
<1>2. P + 1 = Chunks!Place(l + 1) /\ WordsIn(padded, l)
  BY <1>1 DEF SentencesInv
<1>3. /\ q \in Seq(Chunks!Chars) /\ Len(q) = P + Len(s)
      /\ \A i \in 1 .. P + Len(s) : q[i] = IF i <= P THEN padded[i] ELSE s[i - P]
  BY <1>1, ConcatProperties
<1>4. DOMAIN q = 1 .. P + Len(s)
  BY <1>3, LenProperties
<1>. HIDE DEF q
<1>5. \A i \in Nat : l < i /\ i <= e => Chunks!Place(i) = P + (i - l)
  <2>1. ASSUME NEW i \in Nat, l < i, i <= e PROVE Chunks!Place(i) = P + (i - l)
    <3>1. \A j \in Chunks!Closes : j > l => j >= i
      <4>1. \A j \in Chunks!Closes : j \in 1..Len(input.text)
        BY PlacesFollow
      <4>. QED  BY <1>1, <2>1, <4>1
    <3>2. Chunks!Place(i) = i - (l + 1) + Chunks!Place(l + 1)
      BY <1>1, <2>1, <3>1, PlacesFollow
    <3>. QED  BY <1>1, <1>2, <3>2
  <2>. QED  BY <2>1
<1>6. ASSUME NEW i \in 1..e, input.text[i] # "blank"
      PROVE  Chunks!Place(i) \in DOMAIN q /\ q[Chunks!Place(i)] = input.text[i]
  <2>1. CASE i <= l
    <3>1. Chunks!Place(i) \in DOMAIN padded /\ padded[Chunks!Place(i)] = input.text[i]
      BY <1>1, <1>2, <1>6, <2>1 DEF WordsIn
    <3>. QED  BY <1>1, <1>3, <1>4, <3>1
  <2>2. CASE ~(i <= l)
    <3>1. Chunks!Place(i) = P + (i - l)
      BY <1>1, <1>5, <2>2
    <3>2. i - l \in 1..(e - l) /\ l + (i - l) = i /\ i - l <= Len(s)
      BY <1>1, <2>2
    <3>3. s[i - l] = input.text[i]
      BY <3>2
    <3>4. PICK x : x = P + (i - l)
      OBVIOUS
    <3>5. x \in 1 .. P + Len(s) /\ ~(x <= P) /\ x - P = i - l
      BY <1>1, <3>2, <3>4
    <3>6. q[x] = s[x - P]
      BY <1>3, <3>5
    <3>. QED  BY <1>4, <3>1, <3>3, <3>4, <3>5, <3>6
  <2>. QED  BY <2>1, <2>2
<1>7. ASSUME NEW j \in DOMAIN q, q[j] # "blank" PROVE \E i \in 1..e : j = Chunks!Place(i)
  <2>1. CASE j <= P
    <3>1. j \in DOMAIN padded /\ padded[j] # "blank"
      BY <1>1, <1>3, <1>4, <1>7, <2>1
    <3>2. PICK i \in 1..l : j = Chunks!Place(i)
      BY <1>2, <3>1 DEF WordsIn
    <3>. QED  BY <1>1, <3>2
  <2>2. CASE ~(j <= P)
    <3>1. j - P \in 1..Len(s) /\ q[j] = s[j - P] /\ j \in Nat
      BY <1>1, <1>3, <1>4, <2>2
    <3>2. j - P <= e - l
      BY <1>1, <1>7, <3>1
    <3>3. l + (j - P) \in 1..e /\ l < l + (j - P) /\ l + (j - P) \in Nat
      BY <1>1, <3>1, <3>2
    <3>4. Chunks!Place(l + (j - P)) = P + (l + (j - P) - l)
      BY <1>1, <1>5, <3>1, <3>3
    <3>. QED  BY <1>1, <3>1, <3>3, <3>4
  <2>. QED  BY <2>1, <2>2
<1>. QED  BY <1>6, <1>7 DEF WordsIn, q

-----------------------------------------------------------------------------
\* A chunk keeps what is said of it when sentences come after it.
LEMMA SentenceStays ==
  ASSUME Chunks!TypeOK, NEW s \in Seq(Chunks!Chars), NEW t \in Seq(TextChunks), NEW k \in 1..Len(t),
         SentenceFits(t, padded, k)
  PROVE  SentenceFits(t, padded \o s, k)
<1>1. PICK a : a = t[k].from
  OBVIOUS
<1>2. PICK b : b = t[k].to
  OBVIOUS
<1>3. a \in Nat /\ b \in Nat
  <2>1. t[k] \in TextChunks
    BY ElementOfSeq
  <2>. QED  BY <1>1, <1>2, <2>1 DEF TextChunks
<1>4. Len(padded \o s) = Len(padded) + Len(s) /\ Len(s) \in Nat /\ Len(padded) \in Nat
      /\ padded \in Seq(Chunks!Chars)
  BY SentenceTypes, ConcatProperties, LenProperties
<1>5. b <= Len(padded)
  BY <1>2 DEF SentenceFits
<1>6. SubSeq(padded \o s, a + 1, b) = SubSeq(padded, a + 1, b)
  <2>1. CASE a <= Len(padded)
    BY <1>3, <1>4, <1>5, <2>1, StretchOfJoin
  <2>2. CASE ~(a <= Len(padded))
    <3>1. b < a + 1 /\ a + 1 \in Int /\ b \in Int
      BY <1>3, <1>4, <1>5, <2>2
    <3>. QED  BY <3>1, SubSeqEmpty
  <2>. QED  BY <2>1, <2>2
<1>7. b <= Len(padded \o s)
  BY <1>3, <1>4, <1>5
<1>8. t[k].text = Chunks!Trim(SubSeq(padded \o s, a + 1, b))
  BY <1>1, <1>2, <1>6 DEF SentenceFits
<1>. QED  BY <1>1, <1>2, <1>7, <1>8 DEF SentenceFits

\* A chunk that is taken of the current one fits.
LEMMA SentenceCut ==
  ASSUME Chunks!TypeOK, SentencesInv, ~returned, NEW c,
         c = Chunks!SentenceChunk
  PROVE  /\ c \in TextChunks /\ c.from = begin /\ c.to = Len(padded)
         /\ Append(chunks, c) \in Seq(TextChunks) /\ Append(chunks, c) # <<>>
         /\ Len(Append(chunks, c)) = Len(chunks) + 1
         /\ Append(chunks, c)[Len(chunks) + 1] = c
         /\ \A k \in 1..Len(chunks) : Append(chunks, c)[k] = chunks[k]
         /\ \A k \in 1..(Len(chunks) + 1) : SentenceFits(Append(chunks, c), padded, k)
<1>. DEFINE n == Len(chunks)
            t == Append(chunks, c)
<1>1. /\ begin \in Nat /\ startChar \in Int /\ currentChunk \in Seq(Chunks!Chars) /\ Len(currentChunk) \in Nat
      /\ Len(padded) \in Nat /\ chunks \in Seq(TextChunks) /\ n \in Nat /\ DOMAIN chunks = 1..n
      /\ \A k \in DOMAIN chunks : chunks[k] \in TextChunks
      /\ padded \in Seq(Chunks!Chars)
  BY InputTypes, SentenceTypes
<1>2. /\ begin + Len(currentChunk) = Len(padded)
      /\ currentChunk = SubSeq(padded, begin + 1, Len(padded))
      /\ KeepsOffsets => startChar = begin
  BY DEF SentencesInv, CurrentFits
<1>3. /\ c.text = Chunks!Trim(currentChunk) /\ c.from = begin /\ c.to = Len(padded)
      /\ KeepsOffsets => c.startChar = begin /\ c.endChar = Len(padded)
      /\ c \in TextChunks
  <2>1. c = Chunks!Chunk(Chunks!Trim(currentChunk), startChar, begin, Len(currentChunk))
    BY DEF Chunks!SentenceChunk
  <2>2. begin # -1 /\ -1 \in Int
    BY <1>1
  <2>3. PICK x : x = Chunks!Trim(currentChunk)
    OBVIOUS
  <2>4. x \in Seq(Chunks!Chars)
    BY <1>1, <2>3, TrimTypes
  <2>. QED  BY <1>1, <1>2, <2>1, <2>2, <2>3, <2>4 DEF Chunks!Chunk, TextChunks, Chunks!NoOffset
<1>4. /\ t \in Seq(TextChunks) /\ t # <<>> /\ Len(t) = n + 1 /\ t[n + 1] = c
      /\ \A k \in 1..n : t[k] = chunks[k]
  BY <1>1, <1>3, AppendProperties
<1>. HIDE DEF t
<1>5. ASSUME NEW k \in 1..n PROVE SentenceFits(t, padded, k)
  <2>1. SentenceFits(chunks, padded, k)
    BY <1>1 DEF SentencesInv
  <2>2. t[k] = chunks[k] /\ (k = 1 \/ t[k-1] = chunks[k-1])
    BY <1>1, <1>4
  <2>. QED  BY <2>1, <2>2 DEF SentenceFits
<1>6. SentenceFits(t, padded, n + 1)
  <2>1. c.text = Chunks!Trim(SubSeq(padded, c.from + 1, c.to))
    BY <1>2, <1>3
  <2>2. BeginsWell(c.from, IF n + 1 = 1 THEN 0 ELSE t[(n + 1) - 1].to)
    <3>1. CASE n = 0
      <4>1. begin = 0
        BY <1>1, <3>1, EmptySeq DEF SentencesInv, CurrentFits
      <4>. QED  BY <1>1, <1>3, <3>1, <4>1 DEF BeginsWell
    <3>2. CASE n # 0
      <4>1. n \in 1..n /\ chunks # <<>> /\ (n + 1) - 1 = n /\ n + 1 # 1
        BY <1>1, <3>2, EmptySeq
      <4>2. t[n] = chunks[n]
        BY <1>4, <4>1
      <4>. QED  BY <1>3, <4>1, <4>2 DEF SentencesInv, CurrentFits
    <3>. QED  BY <3>1, <3>2
  <2>3. c.to <= Len(padded)
    BY <1>1, <1>3
  <2>. QED  BY <1>3, <1>4, <2>1, <2>2, <2>3 DEF SentenceFits
<1>7. \A k \in 1..(n + 1) : k \in 1..n \/ k = n + 1
  BY <1>1
<1>. QED  BY <1>3, <1>4, <1>5, <1>6, <1>7 DEF t

\* A text that ends with one that is not blank is not blank.
LEMMA JoinNotBlank ==
  ASSUME NEW s \in Seq(Chunks!Chars), NEW t \in Seq(Chunks!Chars), ~Chunks!Blank(t)
  PROVE  ~Chunks!Blank(s \o t) /\ s \o t # <<>>
<1>. DEFINE u == s \o t
<1>1. /\ u \in Seq(Chunks!Chars) /\ Len(s) \in Nat /\ Len(t) \in Nat /\ Len(u) = Len(s) + Len(t)
      /\ \A i \in 1 .. Len(s) + Len(t) : u[i] = IF i <= Len(s) THEN s[i] ELSE t[i - Len(s)]
  BY ConcatProperties, LenProperties
<1>2. DOMAIN u = 1 .. Len(s) + Len(t) /\ DOMAIN t = 1..Len(t)
  BY <1>1, LenProperties
<1>. HIDE DEF u
<1>3. PICK i \in 1..Len(t) : t[i] # "blank"
  BY <1>2 DEF Chunks!Blank
<1>4. PICK x : x = Len(s) + i
  OBVIOUS
<1>5. x \in 1 .. Len(s) + Len(t) /\ ~(x <= Len(s)) /\ x - Len(s) = i
  BY <1>1, <1>4
<1>6. u[x] = t[x - Len(s)]
  BY <1>1, <1>5
<1>7. ~Chunks!Blank(u)
  BY <1>2, <1>3, <1>5, <1>6 DEF Chunks!Blank
<1>8. u # <<>>
  BY <1>1, <1>5, EmptySeq
<1>. QED  BY <1>7, <1>8 DEF u

\* Where the chunk after a full one begins: where the overlap does, or at the end
\* of the full one when the overlap is negative.
LEMMA OverlapCut ==
  ASSUME Chunks!TypeOK, SentencesInv, NEW cut,
         cut = Chunks!Min({Chunks!OverlapStart, Len(currentChunk)})
  PROVE  /\ cut \in Nat /\ cut <= Len(currentChunk) /\ Chunks!OverlapStart \in Nat
         /\ BeginsWell(begin + cut, Len(padded))
         /\ input.options.nan => cut = 0
         /\ KeepsOffsets => cut = Chunks!OverlapStart
         /\ SubSeq(currentChunk, Chunks!OverlapStart + 1, Len(currentChunk))
              = SubSeq(currentChunk, cut + 1, Len(currentChunk))
<1>. DEFINE overlap == input.options.overlap
            nan == input.options.nan
            L == Len(currentChunk)
<1>1. /\ begin \in Nat /\ L \in Nat /\ overlap \in Int /\ nan \in BOOLEAN
      /\ currentChunk \in Seq(Chunks!Chars) /\ Len(padded) \in Nat
  BY InputTypes, SentenceTypes
<1>2. begin + L = Len(padded) /\ (nan => begin = 0)
  BY DEF SentencesInv, CurrentFits
<1>3. PICK o : o = Chunks!OverlapStart
  OBVIOUS
<1>4. /\ nan => o = 0
      /\ ~nan /\ L <= overlap => o = 0
      /\ ~nan /\ ~(L <= overlap) => o = L - overlap
  BY <1>3 DEF Chunks!OverlapStart, Chunks!NaN, Chunks!Overlap
<1>5. o \in Nat
  BY <1>1, <1>4
<1>6. cut = IF o <= L THEN o ELSE L
  <2>1. \E x \in {o, L} : \A y \in {o, L} : x <= y
    BY <1>1, <1>5
  <2>2. Chunks!Min({o, L}) \in {o, L} /\ \A y \in {o, L} : Chunks!Min({o, L}) <= y
    BY <2>1 DEF Chunks!Min
  <2>. QED  BY <1>1, <1>3, <1>5, <2>2
<1>7. cut \in Nat /\ cut <= L /\ (nan => cut = 0)
  BY <1>1, <1>4, <1>5, <1>6
<1>8. BeginsWell(begin + cut, Len(padded))
  <2>1. ~nan => begin + cut = Len(padded) \/ Len(padded) - (begin + cut) <= overlap
    BY <1>1, <1>2, <1>4, <1>5, <1>6
  <2>2. begin + cut <= Len(padded) /\ (nan => begin + cut = 0)
    BY <1>1, <1>2, <1>7
  <2>. QED  BY <2>1, <2>2 DEF BeginsWell
<1>9. KeepsOffsets => cut = o
  BY <1>1, <1>4, <1>5, <1>6 DEF KeepsOffsets
<1>10. SubSeq(currentChunk, o + 1, L) = SubSeq(currentChunk, cut + 1, L)
  <2>1. CASE o <= L
    BY <1>6, <2>1
  <2>2. CASE ~(o <= L)
    <3>1. L < o + 1 /\ L < cut + 1 /\ o + 1 \in Int /\ cut + 1 \in Int
      BY <1>1, <1>5, <1>6, <2>2
    <3>2. SubSeq(currentChunk, o + 1, L) = <<>>
      BY <1>1, <3>1, SubSeqEmpty
    <3>3. SubSeq(currentChunk, cut + 1, L) = <<>>
      BY <1>1, <3>1, SubSeqEmpty
    <3>. QED  BY <3>2, <3>3
  <2>. QED  BY <2>1, <2>2
<1>. QED  BY <1>3, <1>5, <1>7, <1>8, <1>9, <1>10

\* What AddSentence makes of the chunks, wherever the sentence comes from.
LEMMA SentenceAdds ==
  ASSUME Chunks!TypeOK, SentencesInv, ~returned, NEW s \in Seq(Chunks!Chars), ~Chunks!Blank(s),
         Chunks!AddSentence(s)
  PROVE  /\ input' = input /\ returned' = returned /\ padded' = padded \o s
         /\ chunks' \in Seq(TextChunks) /\ startChar' \in Int /\ begin' \in Nat
         /\ currentChunk' \in Seq(Chunks!Chars)
         /\ padded' \in Seq(Chunks!Chars) /\ Len(padded') = Len(padded) + Len(s)
         /\ CurrentFits'
         /\ (\A k \in DOMAIN chunks : SentenceFits(chunks, padded, k))'
<1>. DEFINE size == input.options.size
            overlap == input.options.overlap
            n == Len(chunks)
<1>1. /\ begin \in Nat /\ startChar \in Int /\ currentChunk \in Seq(Chunks!Chars) /\ Len(currentChunk) \in Nat
      /\ Len(padded) \in Nat /\ chunks \in Seq(TextChunks) /\ n \in Nat /\ DOMAIN chunks = 1..n
      /\ \A k \in DOMAIN chunks : chunks[k] \in TextChunks
      /\ padded \in Seq(Chunks!Chars) /\ overlap \in Int /\ size \in Int
      /\ s \in Seq(Chunks!Chars) /\ Len(s) \in Nat
  BY InputTypes, SentenceTypes, LenProperties
<1>2. begin + Len(currentChunk) = Len(padded) /\ begin <= Len(padded)
      /\ currentChunk = SubSeq(padded, begin + 1, Len(padded))
      /\ (chunks = <<>> => begin = 0) /\ (input.options.nan => begin = 0)
      /\ (KeepsOffsets => startChar = begin)
  BY <1>1 DEF SentencesInv, CurrentFits
<1>3. PICK p : p = padded \o s
  OBVIOUS
<1>4. p \in Seq(Chunks!Chars) /\ Len(p) = Len(padded) + Len(s)
  BY <1>1, <1>3, ConcatProperties
<1>5. input' = input /\ returned' = returned /\ padded' = p
  BY <1>3 DEF Chunks!AddSentence
<1>lengths. /\ begin \in Nat /\ Len(currentChunk) \in Nat /\ Len(padded) \in Nat /\ Len(s) \in Nat
      /\ begin + Len(currentChunk) = Len(padded) /\ Len(p) = Len(padded) + Len(s)
  BY <1>1, <1>2, <1>4
<1>6. Chunks!ChunkSize = size /\ Chunks!Overlap = overlap
  BY DEF Chunks!ChunkSize, Chunks!Overlap
<1>7. CASE ~(Len(currentChunk) + Len(s) > size /\ currentChunk # <<>>)
  <2>1. /\ chunks' = chunks /\ startChar' = startChar /\ begin' = begin
        /\ currentChunk' = currentChunk \o s
    BY <1>6, <1>7 DEF Chunks!AddSentence
  <2>2. currentChunk' \in Seq(Chunks!Chars) /\ Len(currentChunk') = Len(currentChunk) + Len(s)
        /\ ~Chunks!Blank(currentChunk')
    BY <1>1, <2>1, ConcatProperties, JoinNotBlank
  <2>3. begin + Len(currentChunk') = Len(p)
    BY <1>lengths, <2>2
  <2>4. currentChunk' = SubSeq(p, begin + 1, Len(p))
    BY <1>1, <1>2, <1>3, <2>1, StretchOfJoin
  <2>5. chunks # <<>> => BeginsWell(begin, chunks[n].to)
    BY DEF SentencesInv, CurrentFits
  <2>6. ~Chunks!Blank(currentChunk)'
    BY <2>2 DEF Chunks!Blank
  <2>7. CurrentFits'
    BY <1>2, <1>5, <2>1, <2>3, <2>4, <2>5, <2>6 DEF CurrentFits, BeginsWell, KeepsOffsets
  <2>8. ASSUME NEW k \in DOMAIN chunks PROVE SentenceFits(chunks, p, k)
    <3>1. SentenceFits(chunks, padded, k)
      BY DEF SentencesInv
    <3>. QED  BY <1>1, <1>3, <3>1, SentenceStays
  <2>9. (\A k \in DOMAIN chunks : SentenceFits(chunks, padded, k))'
    BY <1>5, <2>1, <2>8 DEF SentenceFits, BeginsWell, KeepsOffsets
  <2>. QED  BY <1>1, <1>3, <1>4, <1>5, <2>1, <2>2, <2>7, <2>9
<1>8. CASE Len(currentChunk) + Len(s) > size /\ currentChunk # <<>>
  <2>1. PICK cut : cut = Chunks!Min({Chunks!OverlapStart, Len(currentChunk)})
    OBVIOUS
  <2>2. PICK c : c = Chunks!SentenceChunk
    OBVIOUS
  <2>3. PICK tail : tail = SubSeq(currentChunk, cut + 1, Len(currentChunk))
    OBVIOUS
  <2>5. /\ cut \in Nat /\ cut <= Len(currentChunk) /\ Chunks!OverlapStart \in Nat
        /\ BeginsWell(begin + cut, Len(padded))
        /\ input.options.nan => cut = 0
        /\ KeepsOffsets => cut = Chunks!OverlapStart
        /\ SubSeq(currentChunk, Chunks!OverlapStart + 1, Len(currentChunk)) = tail
    BY <2>1, <2>3, OverlapCut
  <2>4. /\ chunks' = Append(chunks, c) /\ currentChunk' = tail \o s /\ begin' = begin + cut
        /\ startChar' = IF input.options.nan THEN -1 ELSE startChar + Chunks!OverlapStart
    BY <1>6, <1>8, <2>1, <2>2, <2>5 DEF Chunks!AddSentence, Chunks!NaN, Chunks!NoOffset
  <2>start. startChar' \in Int /\ (KeepsOffsets => startChar' = begin + cut)
    BY <1>1, <1>2, <2>4, <2>5 DEF KeepsOffsets
  <2>6. tail \in Seq(Chunks!Chars) /\ Len(tail) = Len(currentChunk) - cut
    BY <1>1, <2>3, <2>5, Stretches
  <2>7. tail = SubSeq(padded, begin + cut + 1, Len(padded))
    <3>1. begin + cut <= Len(padded) /\ Len(currentChunk) = Len(padded) - begin
      BY <1>1, <1>2, <2>5
    <3>2. tail = SubSeq(SubSeq(padded, begin + 1, Len(padded)), cut + 1,
                        Len(padded) - begin)
      BY <1>2, <2>3, <3>1
    <3>. QED  BY <1>1, <2>5, <3>1, <3>2, StretchOfEnd
  <2>8. /\ begin + cut \in Nat /\ begin + cut <= Len(padded)
        /\ input.options.nan => begin + cut = 0
    BY <1>1, <1>2, <2>5
  <2>9. currentChunk' = SubSeq(p, (begin + cut) + 1, Len(p))
    BY <1>1, <1>3, <2>4, <2>7, <2>8, StretchOfJoin
  <2>10. /\ currentChunk' \in Seq(Chunks!Chars) /\ Len(currentChunk') = Len(tail) + Len(s)
         /\ ~Chunks!Blank(currentChunk')
    BY <1>1, <2>4, <2>6, ConcatProperties, JoinNotBlank
  <2>11. (begin + cut) + Len(currentChunk') = Len(p)
    <3>1. /\ cut \in Nat /\ Len(tail) = Len(currentChunk) - cut
          /\ Len(currentChunk') = Len(tail) + Len(s)
      BY <2>5, <2>6, <2>10
    <3>. QED  BY <1>lengths, <3>1
  <2>12. /\ c \in TextChunks /\ c.to = Len(padded)
         /\ chunks' \in Seq(TextChunks) /\ chunks' # <<>> /\ Len(chunks') = n + 1
         /\ chunks'[n + 1] = c
         /\ \A k \in 1..(n + 1) : SentenceFits(Append(chunks, c), padded, k)
    BY <2>2, <2>4, SentenceCut
  <2>13. ~Chunks!Blank(currentChunk)'
    BY <2>10 DEF Chunks!Blank
  <2>14. CurrentFits'
    <3>1. /\ chunks'[Len(chunks')].to = Len(padded) /\ chunks' # <<>>
          /\ KeepsOffsets' = KeepsOffsets /\ input'.options = input.options
      BY <1>5, <2>12 DEF KeepsOffsets
    <3>2. BeginsWell(begin, chunks[Len(chunks)].to)'
      BY <1>5, <2>4, <2>5, <3>1 DEF BeginsWell
    <3>. QED
      BY <1>5, <2>start, <2>4, <2>8, <2>9, <2>11, <2>12, <2>13, <3>1, <3>2 DEF CurrentFits
  <2>15. DOMAIN chunks' = 1..(n + 1)
    BY <2>12, LenProperties
  <2>16. ASSUME NEW k \in 1..(n + 1) PROVE SentenceFits(chunks', p, k)
    <3>1. SentenceFits(chunks', padded, k)
      BY <2>4, <2>12
    <3>2. chunks' \in Seq(TextChunks) /\ k \in 1..Len(chunks')
      BY <2>12
    <3>. QED  BY <1>1, <1>3, <3>1, <3>2, SentenceStays
  <2>17. (\A k \in DOMAIN chunks : SentenceFits(chunks, padded, k))'
    BY <1>5, <2>15, <2>16 DEF SentenceFits, BeginsWell, KeepsOffsets
  <2>. QED  BY <1>3, <1>4, <1>5, <2>start, <2>4, <2>8, <2>10, <2>12, <2>14, <2>17
<1>. QED  BY <1>7, <1>8

-----------------------------------------------------------------------------
\* Texts are sequences of characters.
LEMMA TextTypes == \A t \in Chunks!Texts : t \in Seq(Chunks!Chars)
<1>1. ASSUME NEW t \in Chunks!Texts PROVE t \in Seq(Chunks!Chars)
  <2>1. PICK n \in 0..MaxLength : t \in [1..n -> Chunks!Chars]
    BY DEF Chunks!Texts
  <2>2. n \in Nat
    OBVIOUS
  <2>. QED  BY <2>1, <2>2, SeqDef
<1>. QED  BY <1>1

\* The places are the text's, which does not change.
LEMMA WordsStay ==
  ASSUME input' = input, NEW CONSTANT p, NEW CONSTANT n, padded' = p, lastIndex' = n,
         WordsIn(p, n)
  PROVE  WordsIn(padded, lastIndex)'
<1>1. Chunks!Closes' = Chunks!Closes
  BY DEF Chunks!Closes, Chunks!Text
<1>2. ASSUME NEW CONSTANT i PROVE Chunks!Place(i)' = Chunks!Place(i)
  BY <1>1 DEF Chunks!Place
<1>. QED  BY <1>2 DEF WordsIn

\* A sentence that an end closes.
LEMMA SentenceClosed ==
  ASSUME Chunks!TypeOK, SentencesInv, Chunks!NextSentence
  PROVE  Chunks!TypeOK' /\ SentencesInv'
<1>. DEFINE text == input.text
            l == lastIndex
<1>1. /\ text \in Seq(Chunks!Chars) /\ Len(text) \in Nat /\ l \in Nat /\ DOMAIN text = 1..Len(text)
      /\ Len(padded) \in Nat
  BY InputTypes, SentenceTypes
<1>2. PICK e \in Chunks!Closes :
        /\ e > l /\ \A i \in Chunks!Closes : i > l => i >= e
        /\ lastIndex' = e
        /\ Chunks!AddSentence(Append(SubSeq(text, l + 1, e), "blank"))
  BY DEF Chunks!NextSentence, Chunks!Text
<1>3. e \in 1..Len(text) /\ text[e] = "end"
  BY <1>1 DEF Chunks!Closes, Chunks!Text
<1>4. ~returned
  BY DEF Chunks!NextSentence
<1>5. PICK r : r = SubSeq(text, l + 1, e)
  OBVIOUS
<1>6. r \in Seq(Chunks!Chars) /\ Len(r) = e - l /\ \A i \in 1..(e - l) : r[i] = text[l + i]
  BY <1>1, <1>2, <1>3, <1>5, Stretches
<1>7. PICK s : s = Append(r, "blank")
  OBVIOUS
<1>8. "blank" \in Chunks!Chars
  BY DEF Chunks!Chars
<1>9. /\ s \in Seq(Chunks!Chars) /\ Len(s) = e - l + 1 /\ s[e - l + 1] = "blank"
      /\ \A i \in 1..(e - l) : s[i] = text[l + i]
  BY <1>6, <1>7, <1>8, AppendProperties
<1>10. ~Chunks!Blank(s)
  <2>1. e - l \in 1..(e - l) /\ e - l \in 1..Len(s) /\ l + (e - l) = e
    BY <1>1, <1>2, <1>3, <1>9
  <2>2. s[e - l] = "end" /\ e - l \in DOMAIN s
    BY <1>3, <1>9, <2>1, LenProperties
  <2>. QED  BY <2>2 DEF Chunks!Blank
<1>11. Chunks!AddSentence(s)
  BY <1>2, <1>5, <1>7
<1>12. /\ input' = input /\ returned' = returned /\ padded' = padded \o s
       /\ chunks' \in Seq(TextChunks) /\ startChar' \in Int /\ begin' \in Nat
       /\ currentChunk' \in Seq(Chunks!Chars)
       /\ padded' \in Seq(Chunks!Chars) /\ Len(padded') = Len(padded) + Len(s)
       /\ CurrentFits'
       /\ (\A k \in DOMAIN chunks : SentenceFits(chunks, padded, k))'
  BY <1>4, <1>9, <1>10, <1>11, SentenceAdds
<1>13. WordsIn(padded \o s, e)
  <2>1. e \in Nat /\ l < e /\ e <= Len(text) /\ Len(s) >= e - l
    BY <1>1, <1>2, <1>3, <1>9
  <2>2. ASSUME NEW i \in 1..Len(s), i > e - l PROVE s[i] = "blank"
    <3>1. i = e - l + 1
      BY <1>1, <1>3, <1>9, <2>2
    <3>. QED  BY <1>9, <3>1
  <2>. QED  BY <1>2, <1>9, <2>1, <2>2, WordsAdded
<1>14. WordsIn(padded, lastIndex)'
  <2>1. PICK p : p = padded \o s
    OBVIOUS
  <2>. QED  BY <1>2, <1>12, <1>13, <2>1, WordsStay
<1>15. Len(padded') + 1 = Chunks!Place(e + 1)
  <2>1. Len(padded) + 1 = Chunks!Place(l + 1)
    BY <1>1, <1>2, <1>3 DEF SentencesInv
  <2>2. Chunks!Place(e) = e - (l + 1) + Chunks!Place(l + 1)
    <3>1. e \in Nat /\ e > l /\ \A j \in Chunks!Closes : j > l => j >= e
      BY <1>2, <1>3
    <3>. QED  BY <1>1, <3>1, PlacesFollow
  <2>3. Chunks!Place(e + 1) = Chunks!Place(e) + 2
    BY PlacesFollow
  <2>4. Len(padded') = Len(padded) + (e - l + 1)
    BY <1>9, <1>12
  <2>. QED  BY <1>1, <1>3, <2>1, <2>2, <2>3, <2>4
<1>16. (Len(padded) + 1 = Chunks!Place(lastIndex + 1))'
  BY <1>2, <1>12, <1>15 DEF Chunks!Place, Chunks!Closes, Chunks!Text
<1>17. Chunks!TypeOK'
  <2>1. lastIndex' \in 0..Len(input'.text)
    BY <1>1, <1>2, <1>3, <1>12
  <2>. QED  BY <1>12, <2>1 DEF Chunks!TypeOK, Chunks!Text, TextChunks
<1>18. ~returned'
  BY <1>4, <1>12
<1>. QED  BY <1>12, <1>14, <1>16, <1>17, <1>18 DEF SentencesInv

\* The rest of the text, without an end.
LEMMA RestJoined ==
  ASSUME Chunks!TypeOK, SentencesInv, Chunks!Rest
  PROVE  Chunks!TypeOK' /\ SentencesInv'
<1>. DEFINE text == input.text
            l == lastIndex
<1>1. /\ text \in Seq(Chunks!Chars) /\ Len(text) \in Nat /\ l \in Nat /\ DOMAIN text = 1..Len(text)
      /\ Len(padded) \in Nat /\ padded \in Seq(Chunks!Chars)
  BY InputTypes, SentenceTypes
<1>2. l < Len(text) /\ (\A i \in Chunks!Closes : i <= l) /\ lastIndex' = Len(text)
  BY DEF Chunks!Rest, Chunks!Text
<1>3. ~returned
  BY <1>1, <1>2 DEF SentencesInv
<1>4. PICK s : s = SubSeq(text, l + 1, Len(text))
  OBVIOUS
<1>5. /\ s \in Seq(Chunks!Chars) /\ Len(s) = Len(text) - l
      /\ \A i \in 1..(Len(text) - l) : s[i] = text[l + i]
  BY <1>1, <1>2, <1>4, Stretches
<1>6. \A j \in Chunks!Closes : j > l => j >= Len(text)
  <2>1. \A j \in Chunks!Closes : j \in 1..Len(text)
    BY PlacesFollow
  <2>. QED  BY <1>1, <1>2, <2>1
<1>7. WordsIn(padded \o s, Len(text))
  <2>1. \A i \in 1..Len(s) : i > Len(text) - l => s[i] = "blank"
    BY <1>1, <1>2, <1>5
  <2>2. Len(s) >= Len(text) - l
    BY <1>1, <1>5
  <2>3. PICK e : e = Len(text)
    OBVIOUS
  <2>4. /\ e \in Nat /\ lastIndex < e /\ e <= Len(input.text) /\ Len(s) >= e - lastIndex
        /\ \A j \in Chunks!Closes : j > lastIndex => j >= e
        /\ \A i \in 1..(e - lastIndex) : s[i] = input.text[lastIndex + i]
        /\ \A i \in 1..Len(s) : i > e - lastIndex => s[i] = "blank"
    BY <1>1, <1>2, <1>5, <1>6, <2>1, <2>2, <2>3
  <2>5. WordsIn(padded \o s, e)
    BY <1>5, <2>4, WordsAdded
  <2>. QED  BY <2>3, <2>5
<1>8. lastIndex' \in 0..Len(text) /\ ~(lastIndex' < Len(text))
  BY <1>1, <1>2
<1>9. CASE Chunks!Blank(s)
  <2>1. UNCHANGED <<input, chunks, startChar, currentChunk, begin, padded, returned>>
    BY <1>4, <1>9 DEF Chunks!Rest, Chunks!Text
  <2>2. \A i \in l + 1 .. Len(text) : text[i] = "blank"
    <3>1. PICK e : e = Len(text)
      OBVIOUS
    <3>2. e \in Nat /\ e <= Len(text)
      BY <1>1, <3>1
    <3>. QED  BY <1>1, <1>4, <1>9, <3>1, <3>2, BlankStretch
  <2>3. WordsIn(padded, Len(text))
    <3>1. WordsIn(padded, l)
      BY DEF SentencesInv
    <3>2. \A i \in 1..Len(text) : i \in 1..l \/ i \in l + 1 .. Len(text)
      BY <1>1
    <3>3. \A i \in 1..l : i \in 1..Len(text)
      BY <1>1, <1>2
    <3>. QED  BY <2>2, <3>1, <3>2, <3>3 DEF WordsIn
  <2>4. WordsIn(padded, lastIndex)'
    <3>1. PICK p : p = padded
      OBVIOUS
    <3>2. PICK e : e = Len(text)
      OBVIOUS
    <3>. QED  BY <1>2, <2>1, <2>3, <3>1, <3>2, WordsStay
  <2>5. Chunks!TypeOK'
    BY <1>8, <2>1 DEF Chunks!TypeOK, Chunks!Text
  <2>6. CurrentFits' /\ (\A k \in DOMAIN chunks : SentenceFits(chunks, padded, k))'
    BY <2>1 DEF SentencesInv, CurrentFits, SentenceFits, BeginsWell, KeepsOffsets,
                   Chunks!Blank
  <2>. QED  BY <1>3, <1>8, <2>1, <2>4, <2>5, <2>6 DEF SentencesInv
<1>10. CASE ~Chunks!Blank(s)
  <2>1. Chunks!AddSentence(s)
    BY <1>4, <1>10 DEF Chunks!Rest, Chunks!Text
  <2>2. /\ input' = input /\ returned' = returned /\ padded' = padded \o s
        /\ chunks' \in Seq(TextChunks) /\ startChar' \in Int /\ begin' \in Nat
        /\ currentChunk' \in Seq(Chunks!Chars)
        /\ padded' \in Seq(Chunks!Chars)
        /\ CurrentFits'
        /\ (\A k \in DOMAIN chunks : SentenceFits(chunks, padded, k))'
    BY <1>3, <1>5, <1>10, <2>1, SentenceAdds
  <2>3. WordsIn(padded, lastIndex)'
    <3>1. PICK p : p = padded \o s
      OBVIOUS
    <3>2. PICK e : e = Len(text)
      OBVIOUS
    <3>. QED  BY <1>2, <1>7, <2>2, <3>1, <3>2, WordsStay
  <2>4. Chunks!TypeOK'
    BY <1>8, <2>2 DEF Chunks!TypeOK, Chunks!Text, TextChunks
  <2>. QED  BY <1>3, <1>8, <2>2, <2>3, <2>4 DEF SentencesInv
<1>. QED  BY <1>9, <1>10

\* The last chunk: none is taken only of a text that is blank.
LEMMA LastCut ==
  ASSUME Chunks!TypeOK, SentencesInv, Chunks!LastChunk
  PROVE  Chunks!TypeOK' /\ SentencesInv'
<1>. DEFINE text == input.text
            n == Len(chunks)
<1>1. /\ text \in Seq(Chunks!Chars) /\ Len(text) \in Nat /\ DOMAIN text = 1..Len(text)
      /\ Len(padded) \in Nat /\ padded \in Seq(Chunks!Chars) /\ DOMAIN padded = 1..Len(padded)
      /\ n \in Nat /\ chunks \in Seq(TextChunks) /\ DOMAIN chunks = 1..n
  BY InputTypes, SentenceTypes
<1>2. /\ ~returned /\ returned' = TRUE /\ lastIndex = Len(text)
      /\ UNCHANGED <<input, startChar, currentChunk, begin, lastIndex, padded>>
  BY DEF Chunks!LastChunk, Chunks!Text
<1>3. /\ WordsIn(padded, lastIndex)'
      /\ lastIndex' = Len(input'.text) /\ ~(lastIndex' < Len(input'.text))
  <2>1. PICK p : p = padded
    OBVIOUS
  <2>2. PICK m : m = lastIndex
    OBVIOUS
  <2>3. WordsIn(p, m)
    BY <2>1, <2>2 DEF SentencesInv
  <2>4. WordsIn(padded, lastIndex)'
    BY <1>2, <2>1, <2>2, <2>3, WordsStay
  <2>. QED  BY <1>1, <1>2, <2>4
<1>4. /\ begin + Len(currentChunk) = Len(padded)
      /\ currentChunk = SubSeq(padded, begin + 1, Len(padded))
      /\ chunks = <<>> => begin = 0
  BY DEF SentencesInv, CurrentFits
<1>5. CASE Chunks!Blank(currentChunk)
  <2>1. chunks' = chunks
    BY <1>5 DEF Chunks!LastChunk
  <2>2. chunks = <<>>
    BY <1>2, <1>5 DEF SentencesInv, CurrentFits
  <2>3. \A i \in 0 + 1 .. Len(padded) : padded[i] = "blank"
    <3>1. PICK b : b = Len(padded)
      OBVIOUS
    <3>2. b \in Nat /\ b <= Len(padded) /\ begin \in Nat /\ begin = 0
      BY <1>1, <1>4, <2>2, <3>1, InputTypes
    <3>3. Chunks!Blank(SubSeq(padded, begin + 1, b))
      BY <1>4, <1>5, <3>1
    <3>4. \A i \in begin + 1 .. b : padded[i] = "blank"
      BY <1>1, <3>2, <3>3, BlankStretch
    <3>. QED  BY <3>1, <3>2, <3>4
  <2>4. ASSUME NEW i \in DOMAIN text, text[i] # "blank" PROVE FALSE
    <3>1. i \in 1..lastIndex
      BY <1>1, <1>2
    <3>2. Chunks!Place(i) \in DOMAIN padded /\ padded[Chunks!Place(i)] = text[i]
      BY <2>4, <3>1 DEF SentencesInv, WordsIn
    <3>3. Chunks!Place(i) \in 0 + 1 .. Len(padded)
      BY <1>1, <3>2
    <3>. QED  BY <2>3, <2>4, <3>2, <3>3
  <2>5. Chunks!Blank(text)
    BY <2>4 DEF Chunks!Blank
  <2>6. Chunks!Blank(input.text)'
    BY <1>2, <2>5 DEF Chunks!Blank
  <2>7. Chunks!TypeOK'
    BY <1>2, <2>1 DEF Chunks!TypeOK, Chunks!Text
  <2>8. CurrentFits' /\ (\A k \in DOMAIN chunks : SentenceFits(chunks, padded, k))'
    BY <1>2, <2>1, <2>2 DEF SentencesInv, CurrentFits, SentenceFits, BeginsWell, KeepsOffsets
  <2>. QED  BY <1>3, <2>1, <2>2, <2>6, <2>7, <2>8 DEF SentencesInv
<1>6. CASE ~Chunks!Blank(currentChunk)
  <2>1. PICK c : c = Chunks!SentenceChunk
    OBVIOUS
  <2>2. chunks' = Append(chunks, c)
    BY <1>6, <2>1 DEF Chunks!LastChunk
  <2>3. /\ c.to = Len(padded)
        /\ chunks' \in Seq(TextChunks) /\ chunks' # <<>>
        /\ Len(chunks') = n + 1 /\ chunks'[n + 1] = c
        /\ \A k \in 1..(n + 1) : SentenceFits(chunks', padded, k)
    BY <1>2, <2>1, <2>2, SentenceCut
  <2>4. DOMAIN chunks' = 1..(n + 1)
    BY <2>3, LenProperties
  <2>5. (\A k \in DOMAIN chunks : SentenceFits(chunks, padded, k))'
    BY <1>2, <2>3, <2>4 DEF SentenceFits, BeginsWell, KeepsOffsets
  <2>6. CurrentFits'
    <3>1. /\ input.options.nan => begin = 0
          /\ KeepsOffsets => startChar = begin
      BY DEF SentencesInv, CurrentFits
    <3>. QED  BY <1>2, <1>4, <2>3, <3>1 DEF CurrentFits, KeepsOffsets
  <2>7. Chunks!TypeOK'
    BY <1>2, <2>3 DEF Chunks!TypeOK, Chunks!Text, TextChunks
  <2>8. chunks'[Len(chunks')].to = Len(padded')
    BY <1>2, <2>3
  <2>. QED  BY <1>3, <2>3, <2>5, <2>6, <2>7, <2>8 DEF SentencesInv
<1>. QED  BY <1>5, <1>6

\* What holds of either method.
ChunksInv == Chunks!TypeOK /\ IF input.sentences THEN SentencesInv ELSE SlicesInv

LEMMA ChunksInit == Chunks!Init => ChunksInv
<1>. SUFFICES ASSUME Chunks!Init PROVE ChunksInv
  OBVIOUS
<1>1. /\ input.text \in Seq(Chunks!Chars) /\ input.options \in Chunks!Options
      /\ input.sentences \in BOOLEAN
  BY TextTypes DEF Chunks!Init
<1>2. /\ chunks = <<>> /\ startChar = 0 /\ currentChunk = <<>> /\ begin = 0 /\ lastIndex = 0
      /\ padded = <<>>
  BY DEF Chunks!Init
<1>3. returned \in BOOLEAN /\ (returned <=> input.text = <<>>)
  BY Zenon DEF Chunks!Init
<1>4. /\ Len(input.text) \in Nat /\ DOMAIN input.text = 1..Len(input.text)
      /\ (input.text = <<>> <=> Len(input.text) = 0)
  BY <1>1, LenProperties, EmptySeq
<1>5. <<>> \in Seq(Chunks!Chars) /\ <<>> \in Seq(TextChunks) /\ Len(<<>>) = 0 /\ DOMAIN <<>> = {}
  BY EmptySeq
<1>6. Chunks!TypeOK
  BY <1>1, <1>2, <1>3, <1>4, <1>5 DEF Chunks!TypeOK, Chunks!Text, TextChunks
<1>7. SlicesInv
  <2>1. Behind = 0
    BY <1>2 DEF Behind
  <2>2. ~returned => 0 < Len(input.text)
    BY <1>3, <1>4
  <2>3. ~returned => SliceStarts
    <3>1. 0 \in Nat /\ 0 <= 0 /\ 0 = 0 * (input.options.size - input.options.overlap)
      BY <1>6, InputTypes
    <3>. QED  BY <1>2, <2>1, <2>2, <3>1 DEF SliceStarts
  <2>4. \A i \in 1..Len(input.text) : ~(returned \/ i <= startChar)
    BY <1>2, <1>3, <1>4
  <2>5. \A i \in Behind + 1 .. startChar : FALSE
    BY <1>2, <2>1
  <2>. QED  BY <1>2, <1>5, <2>3, <2>4, <2>5 DEF SlicesInv, EndsBefore
<1>8. SentencesInv
  <2>1. SubSeq(padded, 0 + 1, 0) = <<>>
    BY SubSeqEmpty
  <2>2. CurrentFits
    BY <1>2, <1>5, <2>1 DEF CurrentFits, KeepsOffsets
  <2>3. WordsIn(padded, lastIndex)
    BY <1>2, <1>5 DEF WordsIn
  <2>4. Len(padded) + 1 = Chunks!Place(lastIndex + 1)
    BY <1>2, <1>5, <1>6, PlacesFollow
  <2>5. returned => lastIndex = Len(input.text) /\ Chunks!Blank(input.text)
    BY <1>2, <1>3, <1>4 DEF Chunks!Blank
  <2>. QED  BY <1>2, <1>5, <2>2, <2>3, <2>4, <2>5 DEF SentencesInv
<1>. QED  BY <1>6, <1>7, <1>8 DEF ChunksInv

LEMMA ChunksNext == ChunksInv /\ [Chunks!Next]_texts => ChunksInv'
<1>. SUFFICES ASSUME ChunksInv, [Chunks!Next]_texts PROVE ChunksInv'
  OBVIOUS
<1>1. CASE Chunks!NextSlice
  <2>1. ~input.sentences /\ input' = input
    BY <1>1 DEF Chunks!NextSlice
  <2>. QED  BY <1>1, <2>1, SlicesNext DEF ChunksInv
<1>2. CASE Chunks!NextSentence
  <2>1. input.sentences /\ input' = input
    BY <1>2 DEF Chunks!NextSentence, Chunks!AddSentence
  <2>. QED  BY <1>2, <2>1, SentenceClosed DEF ChunksInv
<1>3. CASE Chunks!Rest
  <2>1. input.sentences /\ input' = input
    BY <1>3 DEF Chunks!Rest, Chunks!AddSentence
  <2>. QED  BY <1>3, <2>1, RestJoined DEF ChunksInv
<1>4. CASE Chunks!LastChunk
  <2>1. input.sentences /\ input' = input
    BY <1>4 DEF Chunks!LastChunk
  <2>. QED  BY <1>4, <2>1, LastCut DEF ChunksInv
<1>5. CASE UNCHANGED texts
  <2>1. UNCHANGED <<input, chunks, startChar, currentChunk, begin, lastIndex, padded, returned>>
    BY <1>5 DEF texts
  <2>2. Chunks!TypeOK'
    BY <2>1 DEF ChunksInv, Chunks!TypeOK, Chunks!Text
  <2>3. ~input.sentences => SlicesInv'
    <3>1. \A i : Chunks!PassedOver(i)' = Chunks!PassedOver(i) /\ MayLose(i)' = MayLose(i)
      BY <2>1, PassedStays
    <3>. QED
      BY <2>1, <3>1 DEF ChunksInv, SlicesInv, SliceStarts, Behind, Covers, EndsBefore, SliceFits
  <2>4. input.sentences => SentencesInv'
    <3>. SUFFICES ASSUME SentencesInv PROVE SentencesInv'
      BY DEF ChunksInv
    <3>1. PICK p : p = padded
      OBVIOUS
    <3>2. PICK m : m = lastIndex
      OBVIOUS
    <3>3. WordsIn(p, m)
      BY <3>1, <3>2 DEF SentencesInv
    <3>4. WordsIn(padded, lastIndex)'
      BY <2>1, <3>1, <3>2, <3>3, WordsStay
    <3>5. lastIndex' < Len(input'.text) => Len(padded') + 1 = Chunks!Place(lastIndex + 1)'
      <4>1. Chunks!Closes' = Chunks!Closes
        BY <2>1 DEF Chunks!Closes, Chunks!Text
      <4>2. Chunks!Place(lastIndex + 1)' = Chunks!Place(lastIndex + 1)
        BY <2>1, <4>1 DEF Chunks!Place
      <4>. QED  BY <2>1, <4>2 DEF SentencesInv
    <3>6. CurrentFits' /\ (\A k \in DOMAIN chunks : SentenceFits(chunks, padded, k))'
      BY <2>1 DEF SentencesInv, CurrentFits, SentenceFits, BeginsWell, KeepsOffsets,
                   Chunks!Blank
    <3>7. (returned => /\ lastIndex = Len(input.text)
                       /\ IF chunks = <<>> THEN Chunks!Blank(input.text)
                          ELSE chunks[Len(chunks)].to = Len(padded))'
      BY <2>1 DEF SentencesInv, Chunks!Blank
    <3>. QED  BY <3>4, <3>5, <3>6, <3>7 DEF SentencesInv
  <2>. QED  BY <2>1, <2>2, <2>3, <2>4 DEF ChunksInv
<1>. QED  BY <1>1, <1>2, <1>3, <1>4, <1>5 DEF Chunks!Next

\* The invariant says that nothing of the text is lost.
LEMMA ChunksWhole == ChunksInv => Chunks!NothingIsCutOut
<1>. SUFFICES ASSUME ChunksInv PROVE Chunks!NothingIsCutOut
  OBVIOUS
<1>1. CASE input.sentences
  <2>1. SentencesInv
    BY <1>1 DEF ChunksInv
  <2>2. \A k \in DOMAIN chunks : SentenceFits(chunks, padded, k)
    BY <2>1 DEF SentencesInv
  <2>3. WordsIn(padded, lastIndex)
    BY <2>1 DEF SentencesInv
  <2>4. \A k \in DOMAIN chunks :
          LET c == chunks[k]
              end == IF k = 1 THEN 0 ELSE chunks[k-1].to IN
          /\ c.text = Chunks!Trim(SubSeq(padded, c.from + 1, c.to))
          /\ c.from <= end
          /\ IF Chunks!NaN THEN c.from = 0 ELSE c.from = end \/ end - c.from <= Chunks!Overlap
          /\ ~Chunks!NaN /\ Chunks!Overlap >= 0 => c.startChar = c.from /\ c.endChar = c.to
    BY <2>2 DEF SentenceFits, BeginsWell, KeepsOffsets, Chunks!NaN, Chunks!Overlap
  <2>5. returned => IF chunks = <<>> THEN Chunks!Blank(input.text)
                    ELSE /\ chunks[Len(chunks)].to = Len(padded)
                         /\ lastIndex = Len(input.text)
    BY <2>1 DEF SentencesInv
  <2>6. Chunks!KeepsSentences
    BY <2>3, <2>4, <2>5 DEF WordsIn, Chunks!KeepsSentences, Chunks!Text
  <2>. QED  BY <1>1, <2>6 DEF Chunks!NothingIsCutOut
<1>2. CASE ~input.sentences
  <2>1. SlicesInv
    BY <1>2 DEF ChunksInv
  <2>2. ASSUME returned, NEW i \in DOMAIN input.text, input.text[i] # "blank"
        PROVE  Chunks!PassedOver(i) \/ Covers(chunks, i)
    <3>1. DOMAIN input.text = 1..Len(input.text)
      BY InputTypes DEF ChunksInv
    <3>. QED  BY <2>1, <2>2, <3>1 DEF SlicesInv, MayLose
  <2>3. \A k \in DOMAIN chunks : SliceFits(chunks, k)
    BY <2>1 DEF SlicesInv
  <2>4. Chunks!CoversText
    BY <2>2, <2>3 DEF SliceFits, Covers, MayLose, Chunks!CoversText, Chunks!Text,
                      Chunks!ChunkSize, Chunks!Overlap
  <2>. QED  BY <1>2, <2>4 DEF Chunks!NothingIsCutOut
<1>. QED  BY <1>1, <1>2

\* A behaviour of the platform is one of TextChunkingService.
LEMMA JointChunks ==
  [JointNext]_<<part, vars, voice, chatPage, histories, uploads, webhooks, limits, provider,
                adminPages, texts, pages>>
    => [Chunks!Next]_texts
  BY DEF JointNext, Others

\* For every text, every size of at least 1 and every overlap below it, negative and
\* NaN ones included: at each turn of the loop of chunkText, and of
\* chunkTextWithSentences, the chunks that were taken fit together, and when it
\* returns, sentences have lost no word of the text, and slices only what their step
\* passes over: nothing with an overlap of 0 or more, what lies between two slices
\* with a negative one, and all behind the first slice with a NaN.
THEOREM NothingCutOut == JointSpec => []NothingIsCutOut
<1>1. JointInit => ChunksInv
  BY ChunksInit DEF JointInit
<1>2. ChunksInv => NothingIsCutOut
  BY ChunksWhole DEF NothingIsCutOut
<1>. QED  BY <1>1, <1>2, ChunksNext, JointChunks, PTL DEF JointSpec

-----------------------------------------------------------------------------
(***************************************************************************)
(* The types of all the parts, each a conjunct of its part's invariant.    *)
(***************************************************************************)

\* A behaviour of the platform is one of the browser's tabs.
LEMMA JointBrowser ==
  [JointNext]_<<part, vars, voice, chatPage, histories, uploads, webhooks, limits, provider,
                adminPages, texts, pages>>
    => [Next]_vars
  BY DEF JointNext, Others

PartKnown ==
  part \in {"browser", "voice", "page", "history", "uploads", "webhooks", "limits", "provider",
            "configs", "chunks", "cursor"}

\* For any values of the constants, the variables of every part have their types.
THEOREM PlatformTyped == JointSpec => []TypesOK
<1>1. JointSpec => []BrowserInv
  <2>1. JointInit => BrowserInv
    BY BrowserInit DEF JointInit
  <2>. QED  BY <2>1, BrowserNext, JointBrowser, PTL DEF JointSpec
<1>2. JointSpec => []VoiceInv
  <2>1. JointInit => VoiceInv
    BY VoiceInit DEF JointInit
  <2>. QED  BY <2>1, VoiceNext, JointVoice, PTL DEF JointSpec
<1>3. JointSpec => []PageInv
  <2>1. JointInit => PageInv
    BY PageInit DEF JointInit
  <2>. QED  BY <2>1, PageNext, JointPage, PTL DEF JointSpec
<1>4. JointSpec => []HistoryInv
  <2>1. JointInit => HistoryInv
    BY HistoryInit DEF JointInit
  <2>. QED  BY <2>1, HistoryNext, JointHistory, PTL DEF JointSpec
<1>5. JointSpec => []UploadsInv
  <2>1. JointInit => UploadsInv
    BY UploadsInit DEF JointInit
  <2>. QED  BY <2>1, UploadsNext, JointUploads, PTL DEF JointSpec
<1>6. JointSpec => []WebhooksInv
  <2>1. JointInit => WebhooksInv
    BY WebhooksInit DEF JointInit
  <2>. QED  BY <2>1, WebhooksNext, JointWebhooks, PTL DEF JointSpec
<1>7. JointSpec => []LimitsInv
  <2>1. JointInit => LimitsInv
    BY LimitsInit DEF JointInit
  <2>. QED  BY <2>1, LimitsNext, JointLimits, PTL DEF JointSpec
<1>8. JointSpec => []ProviderInv
  <2>1. JointInit => ProviderInv
    BY ProviderInit DEF JointInit
  <2>. QED  BY <2>1, ProviderNext, JointProvider, PTL DEF JointSpec
<1>9. JointSpec => []ConfigsInv
  <2>1. JointInit => ConfigsInv
    BY ConfigsInit DEF JointInit
  <2>. QED  BY <2>1, ConfigsNext, JointConfigs, PTL DEF JointSpec
<1>10. JointSpec => []CursorInv
  <2>1. JointInit => CursorInv
    BY CursorInit DEF JointInit
  <2>. QED  BY <2>1, CursorNext, JointCursor, PTL DEF JointSpec
<1>11. JointSpec => []ChunksInv
  <2>1. JointInit => ChunksInv
    BY ChunksInit DEF JointInit
  <2>. QED  BY <2>1, ChunksNext, JointChunks, PTL DEF JointSpec
<1>12. JointSpec => []PartKnown
  <2>1. JointInit => PartKnown
    BY PlatformAssumption DEF JointInit, PartKnown, AllParts
  <2>2. PartKnown /\ [JointNext]_<<part, vars, voice, chatPage, histories, uploads, webhooks,
                                 limits, provider, adminPages, texts, pages>> => PartKnown'
    BY DEF JointNext, Others, PartKnown
  <2>. QED  BY <2>1, <2>2, PTL DEF JointSpec
<1>13. BrowserInv /\ VoiceInv /\ PageInv /\ HistoryInv /\ UploadsInv /\ WebhooksInv /\ LimitsInv
       /\ ProviderInv /\ ConfigsInv /\ CursorInv /\ ChunksInv /\ PartKnown => TypesOK
  <2>1. BrowserInv /\ VoiceInv /\ PageInv /\ HistoryInv /\ UploadsInv
          => TypeOK /\ Voice!TypeOK /\ Page!TypeOK /\ History!TypeOK /\ Uploads!TypeOK
    BY DEF BrowserInv, VoiceInv, PageInv, HistoryInv, UploadsInv
  <2>2. WebhooksInv /\ LimitsInv /\ ProviderInv /\ ConfigsInv /\ CursorInv
          => Hooks!TypeOK /\ Limits!TypeOK /\ Provider!TypeOK /\ Configs!TypeOK /\ Cursor!TypeOK
    BY CursorInvTypes DEF WebhooksInv, LimitsInv, ProviderInv, ConfigsInv
  <2>3. ChunksInv => Chunks!TypeOK
    BY DEF ChunksInv
  <2>. QED  BY <2>1, <2>2, <2>3 DEF TypesOK, PartKnown
<1>. QED  BY <1>1, <1>2, <1>3, <1>4, <1>5, <1>6, <1>7, <1>8, <1>9, <1>10, <1>11, <1>12, <1>13, PTL

=============================================================================
